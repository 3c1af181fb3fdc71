SPECIFICATION IteratorsSpec
CONSTANTS
  Atom <- MCAtom
  Key <- MCKey
  Query = {}
  Value = {1}
  None = None
  MaxNode = 3
  VersionMod = 10
  MaxTrieVersion = 5
INVARIANTS FreedNodeNeverRead SyncFindsKey
PROPERTIES NextSeesEdits
CHECK_DEADLOCK FALSE
