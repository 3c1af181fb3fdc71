SPECIFICATION FairSpec
CONSTANTS
  t1 = t1
  t2 = t2
  Thread = {t1, t2}
  Addr = {1}
  ReadRegion = {{1}}
  WriteRegion = {{1}}
  Hint = {"update_c"}
  Level = {"Prevent", "ReadUncommitted"}
  MaxTx = 2
  MaxBlock = 2
  MaxSave = 0
  MaxMerge = 1
CHECK_DEADLOCK FALSE
INVARIANTS NoDirtyRead
PROPERTIES CallsReturn
