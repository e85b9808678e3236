SPECIFICATION Spec
CONSTANTS
  Recordings = {r1}
  Receivers = {p1, p2}
  Requests = {}
  Calls = {}
  Beside = TRUE
  Retention = 1
  GrantTime = 1
  MaxTime = 1
PROPERTIES
  SweepSparesReferenced
