SPECIFICATION PlatformSpec
CONSTANTS
  c1 = c1  c2 = c2  c3 = c3  u1 = u1  u2 = u2  u3 = u3  u4 = u4
  e1 = e1  z1 = z1  z2 = z2  n1 = n1  n2 = n2  f1 = f1
  t1 = t1  t2 = t2  a1 = a1  a2 = a2  s1 = s1  s2 = s2  d1 = d1  d2 = d2
  Unset = Unset
  Companies = {c1, c2, c3}
  Users = {u1, u2, u3, u4}
  Emails = {e1}
  Threads = {t1, t2}
  Start <- MCStart
  MaxCalls = 2
  Zones = {z1, z2}
  Names = {n1, n2}
  Flags = {f1}
  Defaults <- MCDefaults
  FirstZones <- MCFirstZones
  Admins = {a1, a2}
  Sessions = {s1, s2}
  Clerks = {d1, d2}
  First = {a1, a2}
SYMMETRY Same
CHECK_DEADLOCK FALSE
INVARIANTS
  ProfilesFollowUser
  StandsUnlessRaced
PROPERTIES
  TenantIsolation
  KeepsUnlessRaced
