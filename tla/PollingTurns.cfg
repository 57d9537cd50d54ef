SPECIFICATION FairSpec
CONSTANTS
  Timeout = 2
  MaxTalk = 1
  Projects = 2
  Limit = 1
  MaxTroubled = 1
INVARIANTS TypeOK OutcomeIsServers EndIsNotMissed TickBounded FirstAreNotCutOff
PROPERTIES Served
