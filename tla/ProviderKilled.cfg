SPECIFICATION Spec
CONSTANTS
  RetryLimit = 3
  SchemaRetryMax = 2
INVARIANT KilledIsInterrupted
CHECK_DEADLOCK FALSE
