SPECIFICATION DurableSpec
CONSTANTS
  Word = 1024
  Proc = {p, q}
  Inode = {i1, i2}
  Key = {k1}
  Value = {v1}
  Password = {"pw"}
  EmptyPassword = ""
  Size = {3}
  HeaderBlocks = 1
  MinBlocks = 2
  MaxBlocks = 3
  SerialSets = TRUE
  HeaderBuffered = TRUE
  Faults = {"io"}
  None = None
  Random = Random
  KeyLen <- MCKeyLen
  ValueLen <- MCValueLen
SYMMETRY Symmetry
INVARIANTS PathNamesWholeStore SurvivorsStay
PROPERTIES SealedKeyIsStable
