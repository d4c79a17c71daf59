\* Two requests on two orders: every interleaving of status changes, edits and
\* route assignments, with deadlocks and failures.
SPECIFICATION Spec
CONSTANTS
  o1 = o1
  o2 = o2
  Orders = {o1, o2}
  Handlers = {h1, h2}
  Nobody = Nobody
  Start <- MCStart
  Targets = {"assigned", "delivered", "returned"}
  MaxRows <- MCMaxRows
INVARIANTS
  RecordsTrue
  EventsReportRows
PROPERTIES
  RequestsFinish
  ImplementsLedger
