SPECIFICATION FairSchedSpec
CONSTANTS
  LastTask = 2
  MaxPriority = 2
  InitPriority = 1
  MaxAlarm = 0
INVARIANTS CounterBound
PROPERTIES NoStarvation AlarmWakes
