-------------------------- MODULE MCCaseGovernance --------------------------
(* Small instances of CaseGovernance for TLC. *)
EXTENDS CaseGovernance, TLC

\* Requests, request keys and appeals are interchangeable.
RequestSymmetry ==
  Permutations(Actors) \cup Permutations(ReviewKeys) \cup Permutations(Appeals)

=============================================================================
