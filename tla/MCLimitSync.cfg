SPECIFICATION FairSpec
CONSTANTS
  U64Max = 1000
  Second = 10
  BurstWindow = 2
  InitWindow = 1
  SafetyPercent = 95
  Ifaces = {1, 2}
  m1 = m1
  m2 = m2
  m3 = m3
  Macs = {m1, m2, m3}
  Rates <- MCRates
  Slots = {"night"}
  RuleIds = {0, 1}
  Absent = Absent
  Runtimes <- MCRuntimes
  Topology = {1, 2}
  Capacity = 2
  MaxChanges = 3
  MaxFaults = 2
INVARIANT TypeOK
PROPERTIES
  TickIsExact
  NoLapse
  EventuallyEnforced
