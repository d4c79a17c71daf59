\* One event, two runs, two faults.
SPECIFICATION Spec
CONSTANTS
  Events = {e1}
  Workers = {w1, w2}
  None = None
  Retries = 1
  MaxFaults <- MCMaxFaults
INVARIANTS
  OneCarrier
  SendsCounted
  OutcomeTold
PROPERTIES
  ResultsLast
  EventsSettle
