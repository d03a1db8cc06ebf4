SPECIFICATION Spec
CONSTANTS
  Names = {n1}
  NoName = NoName
  Absent = Absent
  MaxPackets = 2
  MaxDeletes = 1
  MaxRenames = 1
  MaxCrashes = 1
INVARIANTS
  TypeOK
  TotalsAgree
  NameSurvives
  StaysDeleted
PROPERTY QuietDeleteForgets
