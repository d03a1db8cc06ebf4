SPECIFICATION Spec
CONSTANTS
  HourLength = 4
  PersistInterval = 2
  PruneInterval = 4
  Retention = 12
  MaxHours = 2
  Times = {4, 5, 8, 9, 11, 12, 16, 17}
  MaxSamples = 4
  MaxFaults = 1
  MaxSetBacks = 1
  None = None
INVARIANTS
  TypeOK
  NoDoubleCount
  SavedSurvives
  UnsavedIsRecent
  RestartAgrees
