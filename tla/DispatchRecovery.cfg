SPECIFICATION FairSpec
CONSTANTS
  Items = {1, 2}
  Daemon = d
  Requests = {}
  MaxRuns = 6
  MaxFaults = 2
  MaxCrashes = 1
  MaxMoves = 0
  MaxRequests = 0
CHECK_DEADLOCK FALSE
PROPERTIES ActiveClaimEnds ReadyItemIsTaken
