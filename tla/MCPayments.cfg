\* One calculation with failures and room for three payments of it; two status changes, one
\* of them from the page of the list.
SPECIFICATION LedgerSpec
CONSTANTS
  Calculations = {c1}
  Managers = {m1, m2}
  PaymentIds = {p1, p2, p3}
  None = None
  Shaky = {c1}
  Pages = {m1}
  NoFilter = NoFilter
  Filters = {NoFilter, "calculated"}
  Watched = {p1}
  MaxActs = 3
\* Nothing is left to do when the payments are disputed.
CHECK_DEADLOCK FALSE
INVARIANTS
  RecordsTrue
  OnePaymentEach
  OwnChangeShown
PROPERTIES
  CalculationsAnswered
