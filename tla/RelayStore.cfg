SPECIFICATION StoreSpec
CONSTANTS
  NumCaptures = 2
  ApprovalMs = 2
  ScanLimit = 1
  MaxTime = 2
  None = None
  Delays = {1}
INVARIANTS
  TypeOK
  RoutesMatchRequests
  NoApprovalStranded
PROPERTIES
  AuthorityOnlyShrinks
  GlobalDenialStopsClaims
