SPECIFICATION Spec
CONSTANTS
  Processes = {p1, p2, p3}
  Nobody = nobody
  MaxPosts = 1
  Faults = {}
SYMMETRY Permutes
INVARIANTS
  SeqUnique
CHECK_DEADLOCK FALSE
