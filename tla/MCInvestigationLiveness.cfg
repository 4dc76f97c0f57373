SPECIFICATION FairSpec
CONSTANTS
  Workers = {w1, w2}
  MaxAttempts = 2
  MaxIterations = 1
  MaxMessages = 1
PROPERTY EventuallyEnds
CONSTRAINT FindsNothing
CHECK_DEADLOCK FALSE
