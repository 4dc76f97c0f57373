--------------------------- MODULE MCInvestigation ---------------------------
(* Small instances of Investigation for TLC. *)
EXTENDS Investigation, TLC

\* Workers are interchangeable.
WorkerSymmetry == Permutations(Workers)

\* Bound on the data, not on the interleavings: the first round finds something
\* to look at, and what it verifies is free; a second follows one that verified
\* evidence, and finds nothing.
OnlyFirstRoundFinds ==
  /\ Len(log) >= 2 => log[2].items
  /\ Len(log) >= 5 /\ log[5].node = "PLAN" => log[5].evidence # {}
  /\ Len(log) >= 7 => ~log[7].items

\* A late error comes to a committed step while there is only one round.
NoLateErrorsInSecondRound ==
  Len(log) > 5 => \A v \in 0 .. Len(log) - 1 : calls[v] # "failed"

\* The same for the liveness run: the round finds nothing.
FindsNothing == Len(log) >= 2 => ~log[2].items

=============================================================================
