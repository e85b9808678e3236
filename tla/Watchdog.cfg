SPECIFICATION Spec
CONSTANTS
  Pids = {p1, p2, p3}
  Starts = {1, 2, 3, 4}
  Tunnels = {1, 2, 3, 4, 5, 6, 7}
  None = None
  MaxStray = 3
  Counted = FALSE
  MaxFaults = 0
SYMMETRY Symmetry
INVARIANTS
  TypeOK
  Accounted
  StoppedIsDown
PROPERTIES
  OnlyRecordedAreStopped
  ReplacedAreGone
  KeepsIngress
  CommittedHasAnswered
  FailureUndoes
VIEW View
