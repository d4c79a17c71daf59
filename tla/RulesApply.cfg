\* The same pages; a bonus is saved as the form has it, on its first metric.
SPECIFICATION FormSpec
CONSTANTS
  z1 = z1
  e1 = e1
  e2 = e2
  Keys = {1, 2, 3}
  Edited = {2}
  Editors = {e1, e2}
  Zones = {z1}
  None = None
  Kept = Kept
  NewRules <- MCNewRules
  Patches = {}
  Requests <- MCRequests
  MaxVersions = 3
  Now = 3
  Typings <- MCTypings
CONSTRAINTS PayDay
\* The calculation is done once, and pages may be left alone.
CHECK_DEADLOCK FALSE
INVARIANTS
  RulesApply
