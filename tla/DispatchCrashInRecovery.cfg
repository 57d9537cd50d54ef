SPECIFICATION Spec
CONSTANTS
  Items = {1}
  Daemon = d
  Requests = {}
  MaxRuns = 1
  MaxFaults = 0
  MaxCrashes = 2
  MaxMoves = 0
  MaxRequests = 0
CHECK_DEADLOCK FALSE
INVARIANT RunningItemIsRecoverable
