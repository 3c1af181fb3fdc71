SPECIFICATION Spec
CONSTANTS
  t1 = t1
  t2 = t2
  Thread = {t1, t2}
  Addr <- MCAddr
  ReadRegion = {}
  WriteRegion <- OverlappingRegions
  Hint = {"update_c", "new_c"}
  Level = {}
  MaxTx = 2
  MaxBlock = 3
  MaxSave = 0
  MaxMerge = 0
CHECK_DEADLOCK FALSE
SYMMETRY ThreadSymmetry
INVARIANTS TypeOK WriteExclusion ReadsOwnWrites CommitInstalls
PROPERTIES AtomicCommit
