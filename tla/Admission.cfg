SPECIFICATION AdmissionLiveSpec
CONSTANTS
  a1 = a1
  a2 = a2
  Wires = 3
  Adapters = {a1, a2}
  AdapterOf <- NewThenSame
  Messages = 2
INVARIANTS
  SoleService
PROPERTIES
  ThreadPolicy
  NewestActivates
CHECK_DEADLOCK FALSE
