SPECIFICATION Spec
CONSTANTS
  Word = 1024
  Proc = {p, q}
  Inode = {i1, i2}
  v1 = v1
  v2 = v2
  Key = {k1}
  Value = {v1, v2}
  Password = {"pw"}
  EmptyPassword = ""
  Size = {4}
  HeaderBlocks = 1
  MinBlocks = 3
  MaxBlocks = 4
  SerialSets = TRUE
  HeaderBuffered = TRUE
  Faults = {"io"}
  None = None
  Random = Random
  KeyLen <- MCKeyLen
  ValueLen <- MCValueLen
SYMMETRY Symmetry
INVARIANTS CommittedIntact GetReturnsLatest RefusedSetHadNoRoom TempsAreOwned
PROPERTIES ImplementsAppendOnlyLog
