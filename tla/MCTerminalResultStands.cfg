SPECIFICATION Spec
CONSTANTS
  Workers = {w1, w2}
  MaxAttempts = 2
  MaxIterations = 1
  MaxMessages = 1
PROPERTY TerminalResultStands
CHECK_DEADLOCK FALSE
