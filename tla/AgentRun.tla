------------------------------- MODULE AgentRun -------------------------------
(***************************************************************************)
(* What one investigation promises to whoever reads its rows               *)
(* (docs/agent-runtime.md): however many workers claim, resume and lose    *)
(* it, it looks like one process that walks through the graph, one         *)
(* committed step after another, within its budget of rounds.  Evidence    *)
(* comes with the step that verified it, and a verdict only at the end,    *)
(* and once the investigation has ended it is never at work again.         *)
(***************************************************************************)
EXTENDS Naturals

CONSTANTS
  Graph,         \* the nodes that may follow each node
  First,         \* the node of the first step
  Last,          \* what follows the last step
  MaxIterations  \* settings.agent_max_iterations

VARIABLES
  status,  \* agent_runs.status
  open,    \* the case waits for the investigation's result
  step,    \* the steps committed so far
  node,    \* the node of the next step
  round,   \* the planning rounds begun
  found    \* the steps that have verified evidence

walk == <<step, node, round, found>>

Init ==
  /\ status = "ABSENT"
  /\ open = TRUE
  /\ step = 0
  /\ node = First
  /\ round = 0
  /\ found = {}

Prepare ==
  /\ status = "ABSENT"
  /\ status' = "PENDING"
  /\ UNCHANGED <<open, walk>>

\* A claim, a late one over another's included.
Work ==
  /\ open
  /\ status \in {"PENDING", "RUNNING"}
  /\ status' = "RUNNING"
  /\ UNCHANGED <<open, walk>>

WithinBudget == node \in {"PLAN", "DECIDE"} => round < MaxIterations

Step ==
  /\ open
  /\ status = "RUNNING"
  /\ node # Last
  /\ WithinBudget
  /\ node' \in Graph[node]
  /\ round' = IF node = "PLAN" THEN round + 1 ELSE round
  /\ step' = step + 1
  /\ \/ UNCHANGED found
     \/ node = "VERIFY" /\ found' = found \cup {step}
  /\ UNCHANGED <<status, open>>

\* Deferred; a late one also takes back the status of a run that has ended.
Defer ==
  /\ status # "ABSENT"
  /\ status' = "PENDING"
  /\ UNCHANGED <<open, walk>>

\* Failed, or closed for review; the walk stays where it is.
Interrupt ==
  /\ status # "ABSENT"
  /\ status' \in {"FAILED", "NEEDS_HUMAN_REVIEW"}
  /\ open' = FALSE
  /\ UNCHANGED walk

Complete ==
  /\ status # "ABSENT"
  /\ node = Last
  /\ status' = "COMPLETED"
  /\ open' = FALSE
  /\ UNCHANGED walk

\* Decided by others, which only happens before the run is there.
Close ==
  /\ status = "ABSENT"
  /\ open' = FALSE
  /\ UNCHANGED <<status, walk>>

Next == Prepare \/ Work \/ Step \/ Defer \/ Interrupt \/ Complete \/ Close

Spec == Init /\ [][Next]_<<status, open, walk>>

=============================================================================
