SPECIFICATION MCSpec
CONSTANTS
  Tasks = {t1, t2}
  NrBlocks = 4
  NrRequest = 3
  Majors = {"hd", "rd"}
  RamMajors = {"rd"}
  MajorOf <- HdAndRam
  NULL = NULL
  MaxQueue = 2
INVARIANTS OneOwnerPerLock OneSweepAhead SameRequest
PROPERTIES EveryRequestEnds WholeBlocks DiskGoesOn
CHECK_DEADLOCK FALSE
