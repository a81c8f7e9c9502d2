CONSTANTS
  Fetchers = {f1, f2}
  Messengers = {m1, m2}
  viewer = viewer
  closer = closer
  nobody = nobody
  MaxRefs = 4
  Faults = {"page", "pageClose", "close"}
SPECIFICATION Spec
SYMMETRY TaskSymmetry
INVARIANTS
  RefsCoverHolders
  NeverClosedInUse
PROPERTY
  SharesBrowser
CHECK_DEADLOCK FALSE
