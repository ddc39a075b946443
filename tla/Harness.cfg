SPECIFICATION FairSpec
CONSTANTS
  Jobs = {a, b}
  Operator = operator
  None = none
  Pids = {1, 2}
  Calls = {c1, c2}
  MaxStarts = 2
  Requests = TRUE
INVARIANTS CallsAreTrue NothingEscapes ReuseIsContained
PROPERTY StopsEnd
CHECK_DEADLOCK FALSE
