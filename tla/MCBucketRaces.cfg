SPECIFICATION Spec
CONSTANTS
  U64Max = 1000
  Second = 8
  BurstWindow = 8
  InitWindow = 4
  SafetyPercent = 95
  CPUs = {c1, c2, c3}
  Budget = 6
  Lengths = {2}
  MaxLength = 2
  Absent = Absent
  Ticks = {1, 2}
  MaxTime = 4
  MaxSpent = 14
  MaxOverlaps = 2
INVARIANTS
  TypeOK
  BucketSound
  RacesBounded
SYMMETRY CPUSymmetry
