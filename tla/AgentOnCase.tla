----------------------------- MODULE AgentOnCase -----------------------------
(***************************************************************************)
(* The one thing the agent and the governance of a case share: the status  *)
(* of the case, which both write, and the status of the run, which the     *)
(* governance reads (finalize_case).  These are all the ways in which the  *)
(* agent changes the two, each in one transaction.                         *)
(***************************************************************************)

VARIABLES
  run,    \* ABSENT, UNFINISHED (pending, running or failed) or as it closed
  status  \* cases.status

\* prepare; the case was READY when it was read, and may be decided since.
Prepare ==
  /\ run = "ABSENT"
  /\ run' = "UNFINISHED"
  /\ UNCHANGED status

\* claim, defer_retry, fail and complete while the case is open.
Work ==
  /\ run = "UNFINISHED"
  /\ status \in {"READY", "INVESTIGATING"}
  /\ \/ run' = "UNFINISHED" /\ status' \in {status, "INVESTIGATING", "NEEDS_HUMAN_REVIEW"}
     \/ run' = "COMPLETED" /\ status' = "INVESTIGATED"
     \/ run' = "NEEDS_HUMAN_REVIEW" /\ status' = "NEEDS_HUMAN_REVIEW"

\* Late ones may leave any pair, but never open the case again.
WorkLate ==
  /\ run # "ABSENT"
  /\ status \notin {"READY", "INVESTIGATING"}
  /\ run' \in {"UNFINISHED", "COMPLETED", "NEEDS_HUMAN_REVIEW"}
  /\ status' \in {status, "INVESTIGATED", "NEEDS_HUMAN_REVIEW"}

Write == Work \/ WorkLate

Init == run = "ABSENT" /\ status = "READY"

Next == Prepare \/ Write

Spec == Init /\ [][Next]_<<run, status>>

=============================================================================
