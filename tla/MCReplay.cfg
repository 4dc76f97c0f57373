SPECIFICATION FairSpec
CONSTANTS
  Sources <- MCSources
  Videos = {"a"}
  Cases <- MCCases
  Scoped = {"v2"}
  Open <- MCOpen
  Findings = {"late error"}
  Inconclusive <- MCInconclusive
  Workers = {w1, w2}
  MaxAttempts = 2
INVARIANTS
  TypeOK
  ResultsAreReplayed
  SucceededIsSettled
PROPERTIES
  ResultStands
  ReplayEnds
CHECK_DEADLOCK FALSE
