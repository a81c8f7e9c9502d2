CONSTANTS
  Candidates = {c1}
  Tasks = {t1, t2}
  nobody = nobody
  MaxStarts = 3
SPECIFICATION Spec
SYMMETRY TaskSymmetry
INVARIANT
  HeldBackStaysHeld
