CONSTANTS
  NoCall = NoCall
  NoBatch = NoBatch
  Calls = {c1}
  Workers = {w1}
  Batches = {b1, b2}
  StaleTTL <- QuickTTL
  Margin = 1
  MinJobTimeout = 1
  MaxQueueWait = 0
  PollerPrompt = FALSE
  PollerDies = TRUE
  ScoreBatchSize = 1
  Redelivers = FALSE
  ClaimBatch = 2
  RetryLimit = 1
  FactsChange = FALSE
  MaxQueued = 1
  MaxAge = 2
  MaxLosses = 1
  MaxTries = 9
  MaxRedone = 2
  MaxDownloadAttempts = 1
  MaxRetries = 2
SPECIFICATION BFairSpec
PROPERTY BatchesClose
