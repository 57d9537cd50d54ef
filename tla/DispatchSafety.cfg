SPECIFICATION Spec
CONSTANTS
  Items = {1}
  Daemon = d
  Requests = {q1}
  MaxRuns = 2
  MaxFaults = 1
  MaxCrashes = 0
  MaxMoves = 1
  MaxRequests = 2
CHECK_DEADLOCK FALSE
INVARIANTS TypeOK ClaimLostOnlyByRevocation NothingLeaksWithoutFaults
PROPERTY LeaseSpec
