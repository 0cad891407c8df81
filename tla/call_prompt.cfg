CONSTANTS
  NoCall = NoCall
  Calls = {c1, c2}
  Workers = {w1, w2}
  StaleTTL <- ShortTTL
  Margin = 1
  MinJobTimeout = 1
  MaxQueueWait = 1
  Redelivers = FALSE
  ClaimBatch = 2
  RetryLimit = 1
  FactsChange = TRUE
  MaxQueued = 2
  MaxAge = 4
  MaxLosses = 2
  MaxTries = 9
  MaxRedone = 9
  MaxDownloadAttempts = 2
  MaxRetries = 3
SPECIFICATION Spec
INVARIANTS TypeOK ClaimsRecoverable ArtifactsMatchStatus ExclusiveRun AttemptsBounded
SYMMETRY Symmetry
PROPERTIES ImplementsLifecycle ReconcilerSparesLiveJobs
