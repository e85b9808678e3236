SPECIFICATION FairSpec
CONSTANTS
  NumCaptures = 1
  ApprovalMs = 3
  ScanLimit = 100
  MaxTime = 4
  MaxRuns = 1
  StorageMayFail = TRUE
  None = None
  Delays = {1, 2}
PROPERTIES
  KeepsLifecycle
  UsesStore
  StopEnds
  ApprovalsEnd
