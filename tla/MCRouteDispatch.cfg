\* Two dispatchers, two routes and a courier: one order, which is assigned by
\* routes and by hand and may be delivered meanwhile.
SPECIFICATION Spec
CONSTANTS
  r1 = r1
  r2 = r2
  None = None
  RouteIds = {r1, r2}
  Planners = {p1, p2}
  Orders = {o1}
  Couriers = {c1}
  Located = {c1}
  Start <- MCStartConfirmed
  Targets = {"handed_over", "in_transit", "delivered"}
  Edited = {o1}
  MaxEdits <- MCOneEdit
SYMMETRY MCSymmetry
INVARIANTS
  DoubleBookingNeedsRace
  ChecksLast
  CourierFollowsRoute
PROPERTIES
  FreshWritesRespectRoute
