SPECIFICATION FairSpec
CONSTANTS
  Daemon = d
  Requests = {q1}
  MaxRuns = 2
  MaxComments = 2
  MaxRetries = 1
  MaxRequests = 1
  MaxFaults = 1
  MaxCrashes = 1
  MaxSeconds = 2
CHECK_DEADLOCK FALSE
INVARIANTS TypeOK AnswersFollowQuestions ResolvedIsAttached
PROPERTIES ReplyIsNoticed ReplyResumesWithoutFaults
