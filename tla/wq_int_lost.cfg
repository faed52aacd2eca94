SPECIFICATION FairSpec
CONSTANTS
  Tasks = {t1, t2}
  Queues = {q1}
  IntQueues = {q1}
  CliQueues = {q1}
  IrqQueues = {q1}
  Idle = Idle
  NULL = NULL
PROPERTY AllIntSleepersReturn
