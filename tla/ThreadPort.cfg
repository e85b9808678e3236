SPECIFICATION Spec
CONSTANTS
  Calls = {k1, k2}
  Wanted = {"create", "pair", "slot"}
  Hashes = {}
  None = None
  Limit = 1
  Delays = {1, 2}
  Timeout = 1
  Outside = {"card"}
  MaxTime = 3
INVARIANTS
  TypeOK
  CertainMeansNoThread
PROPERTIES
  NoRequestInKnownWait
  GateNotOpenedEarly
