SPECIFICATION Spec
CONSTANTS
  Actors = {a1}
  ReviewKeys = {k1}
  Appeals = {p1}
  Inputs = {i1}
  Decidable = {i1}
  Cited = {i1}
  MaxDecisions = 2
PROPERTY HumanDecisionStands
CHECK_DEADLOCK FALSE
