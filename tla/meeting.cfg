CONSTANTS
  NFiles = 2
  BatchLimit = 2
  MaxAttempts = 2
  MaxVerdicts = 2
  MaxStops = 2
SPECIFICATION FairSpec
INVARIANTS MTypeOK WorkIsKept PublishedIsCurrent
PROPERTIES ImplementsBoard EveryMeetingRests
