SPECIFICATION Spec
CONSTANTS
  Drives = {1, 2}
  Tracks = {0, 1}
  MaxErrors = 2
  Spin = 3
  Select = 2
  Off = 7
  Answer = 1
  TimeRequests = 2
  MaxQueue = 2
  Setups <- FaultOrChange
INVARIANTS MovedForCURRENT NeverIdle ChangeIsWoken
PROPERTIES TransferReady
CONSTRAINT Once
