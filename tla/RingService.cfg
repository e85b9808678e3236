SPECIFICATION Spec
CONSTANTS
  NumCaptures = 2
  ApprovalMs = 2
  ScanLimit = 100
  MaxTime = 2
  MaxRuns = 4
  StorageMayFail = FALSE
  None = None
  Delays = {1}
INVARIANTS
  ServiceTypeOK
  AtMostOneThread
  TurnsHaveRuns
  NoTurnLeftOpen
  NoCreationForgotten
PROPERTIES
  NoRequestInGlobalWait
