SPECIFICATION Spec
CONSTANTS
  Items = {1}
  Daemon = d
  Requests = {q1}
  MaxRuns = 2
  MaxFaults = 0
  MaxCrashes = 0
  MaxMoves = 0
  MaxRequests = 1
CHECK_DEADLOCK FALSE
PROPERTY DuplicateClaimsRejected
