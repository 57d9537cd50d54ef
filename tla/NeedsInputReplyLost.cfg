SPECIFICATION FairSpec
CONSTANTS
  Daemon = d
  Requests = {}
  MaxRuns = 1
  MaxComments = 1
  MaxRetries = 0
  MaxRequests = 0
  MaxFaults = 1
  MaxCrashes = 0
  MaxSeconds = 2
CHECK_DEADLOCK FALSE
PROPERTY ReplyResumes
