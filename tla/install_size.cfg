SPECIFICATION Spec
CONSTANTS
  Digits <- MCOneDigit
  Unit = {"", "K", "G", "T"}
  Kilo = 2
  Wide = 128
  MinSize = 3
  Margin = 4
  Disk = 60
  None = None
INVARIANTS AcceptedSizeParses
