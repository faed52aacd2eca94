SPECIFICATION FairSpec
CONSTANTS
  Tasks = {t1, t2}
  First = t1
  NrOpen = 2
  NrFile = 2
  PageSize = 4
  Counts = {1, 3}
  MaxSent = 5
  MayFault = {t2}
  NULL = NULL
INVARIANTS InOrder NoForgottenSleeper
PROPERTIES ClosedPipeReturns IsPipe
CHECK_DEADLOCK FALSE
