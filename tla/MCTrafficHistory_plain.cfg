SPECIFICATION Spec
CONSTANTS
  HourLength = 2
  DayHours = 4
  WeekDays = 2
  Instants <- MCInstants
  Clock <- MCClock
  Zones <- PlainZones
  Devices = {d1, d2}
  Whole = Whole
  NoHour = NoHour
  Window = 2
  MaxSamples = 3
SYMMETRY DeviceSymmetry
INVARIANTS
  TypeOK
  CollectorAlive
  HoursDisjoint
  QueriesFind
  ReadersAgree
  PeriodTotals
  RecentWindow
