SPECIFICATION Spec
CONSTANTS
  u1 = u1  u2 = u2  r1 = r1  r2 = r2
  Unset = Unset
  People = {u1, u2}
  RoleOf <- MCRoleOf
  Registered = {u1}
  Requests = {r1, r2}
  Tour = {"dispatcher", "orders"}
  MaxSends = 2
  MaxExpiries = 1
  MaxChanges = 1
CHECK_DEADLOCK FALSE
INVARIANTS
  OneRefresh
  StoreFitsUser
PROPERTIES
  RequestsSettle
