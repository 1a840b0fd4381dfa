SPECIFICATION Spec
CONSTANTS
  Word = 1024
  Proc = {p, q}
  Inode = {i1}
  Key = {k1}
  Value = {v1}
  EmptyPassword = EmptyPassword
  Size = {2}
  HeaderBlocks = 1
  MinBlocks = 2
  MaxBlocks = 2
  SerialSets = FALSE
  HeaderBuffered = FALSE
  Faults = {"io", "kill"}
  None = None
  Random = Random
  Secret = {s1, s2}
  SerialFirst = TRUE
  Absent = Absent
  Broken = Broken
  Username = user
  pw1 = pw1
  pw2 = pw2
  Typed = {"", pw1, pw2}
  KeyLen <- MCKeyLen
  ValueLen <- MCValueLen
CONSTRAINT NotMistaken
INVARIANTS LoginOpens StoreOpens
SYMMETRY Symmetry
