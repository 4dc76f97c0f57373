SPECIFICATION Spec
CONSTANTS
  Workers = {w1}
  MaxAttempts = 2
  MaxIterations = 2
  MaxMessages = 1
INVARIANT ResumedHasNextNode
CHECK_DEADLOCK FALSE
