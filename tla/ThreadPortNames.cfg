SPECIFICATION Spec
CONSTANTS
  Calls = {k1}
  Wanted = {"create", "card"}
  Hashes = {h1}
  None = None
  Limit = 2
  Delays = {1}
  Timeout = 1
  Outside = {"create"}
  MaxTime = 2
INVARIANTS
  NoTokenLost
PROPERTIES
  NoCreationInGlobalWait
