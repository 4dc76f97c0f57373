SPECIFICATION FairSpec
CONSTANTS
  Workers = {w1}
  MaxAttempts = 2
  MaxIterations = 1
  MaxMessages = 1
PROPERTY RunningJobEnds
CHECK_DEADLOCK FALSE
