SPECIFICATION Spec
CONSTANTS
  Jobs = {a}
  Operator = operator
  None = none
  Pids = {1}
  Calls = {c1}
  MaxStarts = 2
  Requests = TRUE
INVARIANT RunsOn
CHECK_DEADLOCK FALSE
