SPECIFICATION FairSpec
CONSTANTS
  LastTask = 3
  MaxPid = 4
  Signals = {9, 17}
INVARIANTS OneFather NoZombieMissed
PROPERTIES WaitEnds KillKills
CHECK_DEADLOCK FALSE
