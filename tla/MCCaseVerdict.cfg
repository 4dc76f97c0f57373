SPECIFICATION Spec
CONSTANTS
  Workers = {w1, w2}
  Keys = {"r1", "r2"}
  Requests = {"context", "text"}
  KeyOf <- MCKeyOf
  Modalities = {"vision", "ocr"}
  Allowed <- MCAllowed
  Items <- MCItems
  Outputs <- MCOutputs
  Policies <- MCPolicies
  MaxVersion = 5
SYMMETRY MCSymmetry
INVARIANTS
  TypeOK
  EvidenceCounts
  VerdictsAgree
  VerdictsAreGrounded
PROPERTIES
  AnswersStand
