SPECIFICATION WorkspaceSpec
CONSTANTS
  a = a
  b = b
  c = c
  d = d
  r1 = r1
  r2 = r2
  k1 = k1
  x1 = x1
  None = None
  Orders = {a, b, c, d}
  RouteIds = {r1, r2}
  Couriers = {k1}
  Filters = {None, "confirmed"}
  StartOrders <- MCStart
  StartRoute <- MCStartRoute
  Plans <- MCPlans
  Others = {x1}
  MaxOthers = 1
  MaxLost = 1
  MaxFailed = 1
  MaxActs = 3
CONSTRAINT FewVersions
CHECK_DEADLOCK FALSE
INVARIANTS
  ShownExplained
  DraftSound
PROPERTIES
  EditsSurviveNews
