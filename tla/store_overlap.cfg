SPECIFICATION Spec
CONSTANTS
  Word = 1024
  Proc = {p, q}
  Inode = {i1}
  k1 = k1
  k2 = k2
  v1 = v1
  v2 = v2
  Key = {k1, k2}
  Value = {v1, v2}
  Password = {"pw"}
  EmptyPassword = ""
  Size = {4}
  HeaderBlocks = 1
  MinBlocks = 3
  MaxBlocks = 4
  SerialSets = FALSE
  HeaderBuffered = FALSE
  Faults = {}
  None = None
  Random = Random
  KeyLen <- MCKeyLen
  ValueLen <- MCValueLen
INVARIANTS CommittedIntact
