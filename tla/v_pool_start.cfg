CONSTANTS
  Fetchers = {f1}
  Messengers = {m1}
  viewer = viewer
  closer = closer
  nobody = nobody
  MaxRefs = 4
  Faults = {"start"}
SPECIFICATION Spec
INVARIANT NeverClosedInUse
