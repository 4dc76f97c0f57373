SPECIFICATION Spec
CONSTANTS
  Workers = {w1}
  MaxAttempts = 2
  MaxIterations = 1
  MaxMessages = 1
INVARIANT RetryMayCallAgain
CHECK_DEADLOCK FALSE
