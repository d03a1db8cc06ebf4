SPECIFICATION Spec
CONSTANTS
  HourLength = 2
  DayHours = 4
  WeekDays = 2
  Instants <- MCInstants
  Clock <- MCClock
  Zones <- RepeatZones
  Devices = {d1, d2}
  Whole = Whole
  NoHour = NoHour
  Window = 2
  MaxSamples = 3
INVARIANT CollectorAlive
