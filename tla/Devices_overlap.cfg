SPECIFICATION Spec
CONSTANTS
  Names = {n1, n2}
  NoName = NoName
  Absent = Absent
  MaxPackets = 2
  MaxDeletes = 1
  MaxRenames = 0
  MaxCrashes = 0
PROPERTY DeleteForgets
