SPECIFICATION FairSpec
CONSTANTS
  Word = 1024
  Proc = {p, q}
  Inode = {i1}
  k1 = k1
  k2 = k2
  v1 = v1
  v2 = v2
  Key = {k1}
  Value = {v1, v2}
  Password = {"pw", ""}
  EmptyPassword = ""
  Size = {2, 3, 9}
  HeaderBlocks = 1
  MinBlocks = 3
  MaxBlocks = 4
  SerialSets = FALSE
  HeaderBuffered = FALSE
  Faults = {"io", "kill"}
  None = None
  Random = Random
  KeyLen <- MCKeyLen
  ValueLen <- MCValueLen
INVARIANTS InsideFile
PROPERTIES CallsReturn
