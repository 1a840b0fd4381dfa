SPECIFICATION Spec
CONSTANTS
  Proc = {p, q}
  Secret = {s1, s2, s3}
  Login = {"", "alice", "bob"}
  SerialFirst = FALSE
  Faults = {}
  Absent = Absent
  Broken = Broken
SYMMETRY Symmetry
INVARIANTS FilesMatch
