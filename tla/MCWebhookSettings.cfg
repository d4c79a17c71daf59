SPECIFICATION SettingsSpec
CONSTANTS
  o1 = o1
  o2 = o2
  p1 = p1
  p2 = p2
  Hooks = {1, 2, 3}
  OrderTypes = {"order.status-changed"}
  RouteTypes = {"route.built"}
  Keys = {"k"}
  c1 = c1
  c2 = c2
  Pages = {p1, p2}
  Calls = {c1, c2}
  Null = Null
  Kept = Kept
  External = {o1}
  Mapped = {o2}
  Subjects <- MCSubjects
  Typings <- MCTypings
  Screens <- MCScreens
  Toggles <- MCToggles
  Start <- MCStart
SYMMETRY Interchangeable
CONSTRAINTS FewTyped ListsWait FormsWait LastEvent
CHECK_DEADLOCK FALSE
INVARIANTS
  EveryoneIsTold
PROPERTIES
  SavesWhatIsTyped
