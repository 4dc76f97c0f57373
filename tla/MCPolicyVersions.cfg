SPECIFICATION Spec
CONSTANTS
  Editors = {e1, e2}
  Creators = {c1, c2}
  Clients = {r1}
  Keys = {"r1", "r2"}
  Visual = {"r1"}
  Hashes = {"s1", "s2"}
  Rules = {"p1", "p2"}
  Documents <- MCDocuments
  MaxVersion = 2
  Source = 1
  Target = 2
SYMMETRY MCSymmetry
INVARIANTS
  TypeOK
  VersionsAreDense
  CasesFollowPolicy
  PlansCoverTarget
PROPERTIES
  PublishedStands
  RowsAreWhole
