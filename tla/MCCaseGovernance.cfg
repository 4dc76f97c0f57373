SPECIFICATION Spec
CONSTANTS
  Actors = {a1, a2}
  ReviewKeys = {k1, k2}
  Appeals = {p1}
  Inputs = {i1, i2}
  Decidable = {i1, i2}
  Cited = {i1}
  MaxDecisions = 3
SYMMETRY RequestSymmetry
INVARIANTS
  TypeOK
  MachineYieldsToHuman
  ReviewsMatchDecisions
  AppealsAreAnswered
  ResultsMatchDecision
  ConclusiveCitesEvidence
PROPERTIES
  ActsOnCurrent
  ResolutionsAreFinal
  ImplementsLedger
