SPECIFICATION Spec
CONSTANT MaxSteps = 2
INVARIANT GateExact
INVARIANT RefusalsReadTrue
INVARIANT LoopAbstractionExact
CHECK_DEADLOCK FALSE
