SPECIFICATION Spec
CONSTANTS
  t1 = t1
  t2 = t2
  Thread = {t1, t2}
  Addr = {1}
  ReadRegion = {}
  WriteRegion = {{1}}
  Hint = {"update_c"}
  Level = {}
  MaxTx = 2
  MaxBlock = 3
  MaxSave = 1
  MaxMerge = 0
CHECK_DEADLOCK FALSE
SYMMETRY ThreadSymmetry
PROPERTIES SavepointUndoesNoMore 
