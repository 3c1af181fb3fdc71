SPECIFICATION Spec
CONSTANTS
  Atom <- MCAtom
  Key <- MCKey
  Query <- MCQuery
  Value = {1, 2}
  None = None
  MaxNode = 5
  VersionMod = 1
INVARIANTS CountIsSize TreeShape  PrefixNavigation
PROPERTIES ImplementsMap NoNodeLost
