SPECIFICATION Spec
CONSTANTS
  Daemon = d
  Requests = {}
  MaxRuns = 2
  MaxComments = 1
  MaxRetries = 1
  MaxRequests = 0
  MaxFaults = 0
  MaxCrashes = 0
  MaxSeconds = 2
CHECK_DEADLOCK FALSE
PROPERTY ResumesOnlyWhenAnswered
