CONSTANTS
  NoCall = NoCall
  Calls = {c1}
  Workers = {w1, w2}
  StaleTTL <- QuickTTL
  Margin = 0
  MinJobTimeout = 1
  MaxQueueWait = 3
  Redelivers = FALSE
  ClaimBatch = 2
  RetryLimit = 1
  FactsChange = FALSE
  MaxQueued = 1
  MaxAge = 2
  MaxLosses = 0
  MaxTries = 2
  MaxRedone = 9
  MaxDownloadAttempts = 1
  MaxRetries = 2
SPECIFICATION RSpec
PROPERTY NeverDemoted
