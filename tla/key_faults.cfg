SPECIFICATION FairSpec
CONSTANTS
  Proc = {p, q}
  Secret = {s1, s2, s3}
  Login = {"", "alice", "bob"}
  SerialFirst = TRUE
  Faults = {"io", "kill"}
  Absent = Absent
  Broken = Broken
INVARIANTS TypeOK PasswordIsStable FilesMatch
PROPERTIES UsedSecretIsKept DerivationsSucceed
