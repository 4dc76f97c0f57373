---------------------------- MODULE CaseLifecycle ----------------------------
(***************************************************************************)
(* One case from its preparation to its formal decisions: Investigation    *)
(* and CaseGovernance together, on the same run and the same case status.  *)
(* Investigation has the agent's steps, which CaseGovernance only sums up; *)
(* CaseGovernance has the decisions, reviews and appeals, during which     *)
(* Investigation alone has no other writer of the case.                    *)
(***************************************************************************)
EXTENDS Investigation

CONSTANTS Actors, ReviewKeys, Appeals, Inputs, Decidable, Cited, MaxDecisions

VARIABLES decisions, current, results, input, reviews, appeals,
          actorPc, ask, view    \* of CaseGovernance, where pc is actorPc here

Governance == INSTANCE CaseGovernance
  WITH status <- caseStatus, run <- RunAsSeen, pc <- actorPc

agentVars == <<run, job, log, evidence, calls, messages, pc, st, seen, outcome>>
governanceVars == <<decisions, current, results, input, reviews, appeals,
                    actorPc, ask, view>>

LifecycleInit == Init /\ Governance!Init

\* What the agent writes to the case waits for the row lock of an evaluation or
\* a review, and so does the new run, which refers to the case.  What it makes of
\* the run while its UPDATE leaves the case out might come before the evaluation
\* ends, but changes nothing in it: the evaluation has read the run.
AgentMoves ==
  /\ Next
  /\ Governance!CaseIsFree \/ UNCHANGED <<RunAsSeen, caseStatus>>
  /\ UNCHANGED governanceVars

\* Evidence committed by the agent is one of the changes of the input.
GovernanceMoves ==
  /\ UNCHANGED agentVars
  /\ (\E a \in Actors : Governance!Act(a)) \/ Governance!InputChanges

LifecycleNext == AgentMoves \/ GovernanceMoves

LifecycleSpec ==
  LifecycleInit /\ [][LifecycleNext]_<<agentVars, caseStatus, governanceVars>>

-----------------------------------------------------------------------------
(* Properties *)

(***************************************************************************)
(* The machine approves or rejects a case only on its own ground: either   *)
(* no step of an investigation was ever committed to it (triage decides    *)
(* such cases) nor ever will be, though a run may have been prepared at    *)
(* the same time, or the committed history has gone through DECIDE to its  *)
(* end, whatever late claims and closes have made of the run's status      *)
(* before and since (finalize_case, complete and claim).                   *)
(***************************************************************************)
VerdictsEndTheGraph ==
  (\E i \in 1 .. Len(decisions) :
     decisions[i].source = "MACHINE" /\ decisions[i].verdict = "CONCLUSIVE")
  => Len(log) = 0 \/ StateAt(Len(log)).node = Finished

\* A case with a decision never waits for an investigation again.
DecidedIsClosed == Len(decisions) > 0 => ~ClaimableCase

=============================================================================
