SPECIFICATION ScheduleSpec
CONSTANT Day = 3
INVARIANT ActiveInOccurrences
PROPERTY SwitchesAtItsEnds
