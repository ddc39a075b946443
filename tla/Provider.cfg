SPECIFICATION FairSpec
CONSTANTS
  RetryLimit = 3
  SchemaRetryMax = 2
INVARIANTS CallsBounded TransientIsRetried
PROPERTIES RefusalStopsCalls PhaseEnds
CHECK_DEADLOCK FALSE
