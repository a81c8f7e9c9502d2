CONSTANTS
  Workflows = {w1}
  Slots = {s1, s2}
  MaxRounds = 2
  Faults = {"profile"}
SPECIFICATION Spec
SYMMETRY SlotSymmetry
INVARIANTS
  PauseFlagsAgree
  MonitorFlagExact
  FetchRowsAreOwned
PROPERTIES
  DeletedStaysDeleted
  CancelStopsPipeline
