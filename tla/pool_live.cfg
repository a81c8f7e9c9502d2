CONSTANTS
  Fetchers = {f1}
  Messengers = {m1}
  viewer = viewer
  closer = closer
  nobody = nobody
  MaxRefs = 1
  Faults = {"start", "page", "pageClose", "close", "cancel"}
SPECIFICATION FairSpec
PROPERTY LockServesAll
CHECK_DEADLOCK FALSE
