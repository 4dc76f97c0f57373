SPECIFICATION Spec
CONSTANTS
  Workers = {w1, w2}
  MaxAttempts = 2
  MaxIterations = 2
  MaxMessages = 1
SYMMETRY WorkerSymmetry
INVARIANTS
  TypeOK
  OneHistory
  ResumesFromHistory
  EvidenceIsAccounted
  RoundsBounded
  CaseGatesRun
  CallsMatchHistory
PROPERTIES
  ImplementsAgentRun
  KeepsToCase
CONSTRAINTS OnlyFirstRoundFinds NoLateErrorsInSecondRound
CHECK_DEADLOCK FALSE
