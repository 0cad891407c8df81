CONSTANTS
  NoCall = NoCall
  Calls = {c1}
  Workers = {w1, w2}
  StaleTTL <- EvenTTL
  Margin = 1
  MinJobTimeout = 1
  MaxQueueWait = 4
  Redelivers = FALSE
  ClaimBatch = 2
  RetryLimit = 1
  FactsChange = FALSE
  MaxQueued = 1
  MaxAge = 3
  MaxLosses = 0
  MaxTries = 2
  MaxRedone = 9
  MaxDownloadAttempts = 1
  MaxRetries = 1
SPECIFICATION Spec
PROPERTY ReconcilerSparesLiveJobs
