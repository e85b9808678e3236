SPECIFICATION LiveSpec
CONSTANTS
  Recordings = {r1}
  Receivers = {p1}
  Requests = {m1, m2}
  Calls = {t1, t2}
  Beside = FALSE
  Retention = 1
  GrantTime = 2
  MaxTime = 2
INVARIANTS
  TypeOK
  AckedHasRecording
PROPERTIES
  GrantOnce
  SweepCleans
  ExpiredGoes
