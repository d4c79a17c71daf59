\* Two imports at a time, three keys (one may meet failures), two externalIds, two
\* orders.
SPECIFICATION Spec
CONSTANTS
  k1 = k1
  Keys = {k1, k2, k3}
  ExternalIds = {x1, x2}
  Requests = {h1, h2}
  None = None
  OrderIds = {o1, o2}
  Faulty = {k1}
SYMMETRY MCSymmetry
\* Keys and orders run out in the bounded instance.
CHECK_DEADLOCK FALSE
INVARIANTS
  AnswersTrue
  MapFollowsOrders
  ImportsMapped
