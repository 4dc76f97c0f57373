SPECIFICATION FairSpec
CONSTANTS
  Workers = {w1, w2}
  Batches = {b1}
  Policies = {p1}
  MaxVersion = 1
  MaxAttempts = 2
  MaxMessages = 1
INVARIANTS
  TypeOK
  StagesInOrder
  CasesMatchChecks
  AttemptsAreExclusive
PROPERTY JobEnds
CHECK_DEADLOCK FALSE
