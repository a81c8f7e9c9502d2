CONSTANTS
  MaxRequests = 4
  Workflows = {w1}
  Slots = {s1}
  MaxRounds = 1
  Faults = {}
SPECIFICATION BoundedSpec
INVARIANT PauseIsUsers
CHECK_DEADLOCK FALSE
