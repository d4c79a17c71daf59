\* Two requests, three orders, one courier that is seen in one place or nowhere.
SPECIFICATION PlanningSpec
CONSTANTS
  o1 = o1
  o2 = o2
  o3 = o3
  k1 = k1
  p1 = p1
  p2 = p2
  home = home
  office = office
  None = None
  Kept = Kept
  Orders = {o1, o2, o3}
  Couriers = {k1}
  Addresses = {home, office}
  Spots <- MCSpots
  Distance <- MCDistance
  SpotOf <- MCSpotOf
  Start <- MCStart
  Mode = "auto"
  HasKey = TRUE
  LegTimes <- MCLegTimes
  Planners = {p1, p2}
  Builds <- MCBuilds
  Updates <- MCUpdates
  Corrections <- MCCorrections
  Sightings = {2}
  MaxEdits = 2
INVARIANTS
  TimetableSound
PROPERTIES
  StopsStay
