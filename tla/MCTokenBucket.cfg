SPECIFICATION Spec
CONSTANTS
  U64Max = 1000
  Second = 8
  BurstWindow = 2
  InitWindow = 1
  SafetyPercent = 95
  Ifaces = {i1}
  Macs = {m1, m2}
  NoMac = NoMac
  NoBucket = NoBucket
  IfaceLimits <- FastLimit
  GlobalLimits <- FastLimit
  DeviceLimits <- SlowLimit
  Traffic <- UpTraffic
  Lengths = {1, 3}
  MaxLength = 3
  MaxEntries = 1
  Ticks = {5}
  MaxTime = 10
  MaxSpent = 4
SYMMETRY DeviceSymmetry
INVARIANTS
  TypeOK
  IfaceConformance
  DeviceConformance
  NothingUncharged
  BurstBounded
PROPERTY IfaceGates
