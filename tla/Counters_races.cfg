SPECIFICATION CounterSpec
CONSTANTS
  CPUs = {c1, c2, c3}
  Lengths = {1, 3}
  Absent = Absent
  MaxBytes = 6
INVARIANTS
  TotalIsTraffic
  NeverOvercounts
  RecountOnlyRewound
