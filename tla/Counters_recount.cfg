SPECIFICATION CounterSpec
CONSTANTS
  CPUs = {c1, c2}
  Lengths = {1, 3}
  Absent = Absent
  MaxBytes = 9
INVARIANT IncrementsAddUp
