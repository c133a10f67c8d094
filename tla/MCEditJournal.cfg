SPECIFICATION Spec
CONSTANTS
  f1 = f1
  a1 = a1
  a2 = a2
  Paths = {f1}
  None = None
  Agents = {a1, a2}
  Cut = {1, 3}
  MaxEntries = 2
  Headroom = 0
  MaxVersions = 4
  MaxPoints = 1
  MaxOdd = 1
SYMMETRY Permutes
INVARIANTS
  BlobsMatchEntries
  RetentionHolds
  StackInStep
PROPERTIES
  RewindRestores
