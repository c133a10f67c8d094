SPECIFICATION FairSpec
CONSTANTS
  Processes = {p1, p2}
  Nobody = nobody
  MaxPosts = 2
  Faults = {"crash", "sleep", "evict"}
INVARIANTS
  MutualExclusion
  SeqsRise
  StoredStays
PROPERTIES
  OrphanLockGoes
  LogSpec
CHECK_DEADLOCK FALSE
