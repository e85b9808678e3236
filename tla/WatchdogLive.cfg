SPECIFICATION FairSpec
CONSTANTS
  Pids = {p1, p2, p3, p4}
  Starts = {1, 2, 3, 4}
  Tunnels = {1, 2, 3, 4, 5, 6, 7}
  None = None
  MaxStray = 4
  Counted = TRUE
  MaxFaults = 1
PROPERTIES
  RunsEnd
  Recovers
