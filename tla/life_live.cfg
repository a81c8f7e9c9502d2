CONSTANTS
  MaxRequests = 4
  Workflows = {w1}
  Slots = {s1, s2}
  MaxRounds = 1
  Faults = {}
SPECIFICATION BoundedFairSpec
PROPERTIES
  CancelledJobsEnd
  ResumedJobsEnd
  FetchingIsLeft
CHECK_DEADLOCK FALSE
