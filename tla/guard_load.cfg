SPECIFICATION Spec
CONSTANTS
  u1 = u1
  u2 = u2
  User <- MCUser
  SecurityPath = TRUE
INVARIANTS LiveIsGuarded AbsentLeavesNothing
