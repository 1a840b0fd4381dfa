SPECIFICATION Spec
CONSTANTS
  t1 = t1
  t2 = t2
  Thread = {t1, t2}
  Tgid <- MCTgid
  Path = {a, b}
  Inode = {i1, i2, i3}
  MaxEntries = 2
  Token = {k1, k2, k3}
  None = None
SYMMETRY Symmetry
INVARIANTS TypeOK TableSound WritesInSession
PROPERTIES SessionNotStolen
