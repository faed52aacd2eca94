SPECIFICATION FairSpec
CONSTANTS
  Tasks = {t1, t2}
  Queues = {q1, q2}
  IntQueues = {q2}
  CliQueues = {q1, q2}
  IrqQueues = {q1, q2}
  Idle = Idle
  NULL = NULL
INVARIANTS TypeOK NoStrandedSleepers
PROPERTY AllSleepersReturn
