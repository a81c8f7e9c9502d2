CONSTANTS
  Candidates = {c1}
  Tasks = {t1, t2}
  nobody = nobody
  MaxStarts = 2
SPECIFICATION Spec
SYMMETRY TaskSymmetry
INVARIANTS
  NeverOverstated
  ReviewHolds
  OneConversation
  FirstContactOnce
