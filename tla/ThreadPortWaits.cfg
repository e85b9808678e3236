SPECIFICATION LiveSpec
CONSTANTS
  Calls = {k1, k2, k3}
  Wanted = {"create", "slot"}
  Hashes = {}
  None = None
  Limit = 1
  Delays = {1, 2}
  Timeout = 1
  Outside = {"create"}
  MaxTime = 3
PROPERTIES
  WaitsEnd
