CONSTANTS
  NoCall = NoCall
  Calls = {c1, c2}
  Workers = {w1, w2}
  StaleTTL <- EvenTTL
  Margin = 1
  MinJobTimeout = 1
  MaxQueueWait = 1
  Redelivers = TRUE
  ClaimBatch = 2
  RetryLimit = 1
  FactsChange = TRUE
  MaxQueued = 2
  MaxAge = 3
  MaxLosses = 2
  MaxTries = 9
  MaxRedone = 9
  MaxDownloadAttempts = 1
  MaxRetries = 2
SPECIFICATION LetterSpec
PROPERTY EventuallyRests
