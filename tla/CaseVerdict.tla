------------------------------ MODULE CaseVerdict ------------------------------
(***************************************************************************)
(* From the tools' answers to the machine's verdict, for one case: the     *)
(* tool_runs rows of evistream/tools/executor.py, the audited verifier     *)
(* calls, the evidence a checkpoint appends, and what                      *)
(* evistream/governance makes of it, by evidence.py, aggregation.py and    *)
(* rule_evaluator.py, whenever the case is evaluated.                      *)
(*                                                                         *)
(* Workers execute the run at the same time when a lease ran out.  Of the  *)
(* nodes of a round RETRIEVE and VERIFY are left, the others touch neither *)
(* evidence nor verdict; Investigation has all of them, and the claims,    *)
(* failures and retries that change the run's status, which are one action *)
(* here (StatusChanges).                                                   *)
(***************************************************************************)
EXTENDS Naturals, FiniteSets

CONSTANTS
  Workers,       \* worker processes that execute the run
  Keys,          \* requirement keys
  Requests,      \* tool requests of the run, each of one requirement
  KeyOf,         \* the requirement of a request
  Modalities,    \* modalities of items; all the visual ones of evidence.py are one
  Allowed,       \* the modalities a requirement allows
  Items,         \* the modalities of the items a request finds, if it finds any
  Outputs,       \* what a verifier may answer: sets of evidence drafts
  Policies,      \* compiled policies
  MaxVersion     \* bound on the run's state versions

Sentinels == {"unresolved_exception", "contradictory_evidence"}

\* A draft cites an item, which stands here for its modality.
Draft == [stance: {"SUPPORT", "CONTRADICT", "UNCERTAIN"}, sure: BOOLEAN, source: Modalities]

\* An expression has one operator over leaves and other expressions, which are
\* nested once here.
Operators == {"all", "any"}
Flat(names) == [op: Operators, leaves: SUBSET names]
Expression(names) ==
  [op: Operators, leaves: SUBSET names, nested: SUBSET Flat(names)]

\* Exceptions are compiled into required requirements; reject_when names only
\* requirements.
Policy ==
  [required: SUBSET Keys, exceptions: SUBSET Keys,
   support: Nat \ {0}, contradict: Nat \ {0},
   reject: Expression(Keys), escalate: Expression(Keys \cup Sentinels)]

ASSUME VerdictConstants ==
  /\ KeyOf \in [Requests -> Keys]
  /\ Allowed \in [Keys -> SUBSET Modalities]
  /\ Items \in [Requests -> SUBSET Modalities]
  /\ Outputs \subseteq SUBSET Draft
  /\ Policies \subseteq Policy
  /\ \A p \in Policies : p.exceptions \subseteq p.required
  /\ MaxVersion \in Nat

VARIABLES
  policy,     \* the case's compiled policy
  run,        \* the agent_runs row: its status and the state of its snapshot
  tools,      \* the tool_runs row of each request
  calls,      \* the model_calls row of the verifier at each version
  evidence,   \* the evidence rows
  verdicts,   \* the decisions that approve or reject, with the evidence each saw
  worker      \* where each worker is and the state it holds

vars == <<policy, run, tools, calls, evidence, verdicts, worker>>

-----------------------------------------------------------------------------
(* Data *)

Version == 0 .. MaxVersion
Finished == "NONE"
State == [version: Version, node: {"RETRIEVE", "VERIFY", "DECIDE", Finished},
          request: Requests, found: BOOLEAN, missing: SUBSET Keys]

\* OPEN: pending, failed, or left to a human; no such run gets a verdict.
Status == {"RUNNING", "COMPLETED", "OPEN"}

\* found: a success or a partial one, with items; empty: no items, or a failure.
Answers == {"found", "empty"}
Tool == {"absent", "running"} \cup Answers
Call == [status: {"absent", "running", "success", "failed"}, drafts: SUBSET Draft]
Evidence == [request: Requests, version: Version, draft: Draft]

Idle == [pc |-> "idle"]

\* The requirements that have to be resolved by the investigation.
FirstMissing(p) == p.required \ p.exceptions

Init ==
  /\ policy \in Policies
  /\ \E q \in Requests :
       run = [status |-> "RUNNING",
              state |-> [version |-> 0, node |-> "RETRIEVE", request |-> q,
                         found |-> FALSE, missing |-> FirstMissing(policy)]]
  /\ tools = [q \in Requests |-> "absent"]
  /\ calls = [v \in Version |-> [status |-> "absent", drafts |-> {}]]
  /\ evidence = {}
  /\ verdicts = {}
  /\ worker = [w \in Workers |-> Idle]

-----------------------------------------------------------------------------
(* A worker and its run *)

\* A worker claims the run, or goes on with it, from the committed state.
Resume(w) ==
  /\ worker[w].pc = "idle"
  /\ run.status = "RUNNING" /\ run.state.node # Finished
  /\ worker' = [worker EXCEPT ![w] = [pc |-> "ready", state |-> run.state]]
  /\ UNCHANGED <<policy, run, tools, calls, evidence, verdicts>>

\* The worker dies, meets a state conflict or an error.
Drop(w) ==
  /\ worker[w].pc # "idle"
  /\ worker' = [worker EXCEPT ![w] = Idle]
  /\ UNCHANGED <<policy, run, tools, calls, evidence, verdicts>>

\* claim, fail, defer_retry and a budget that ran out: they keep the version,
\* and none of them makes a run COMPLETED.
StatusChanges ==
  /\ \E s \in Status \ {"COMPLETED"} : run' = [run EXCEPT !.status = s]
  /\ UNCHANGED <<policy, tools, calls, evidence, verdicts, worker>>

\* checkpoint: UPDATE ... WHERE state_version = previous AND status = 'RUNNING'
MayCheckpoint(w) ==
  run.status = "RUNNING" /\ run.state.version = worker[w].state.version

-----------------------------------------------------------------------------
(* RETRIEVE: the tool executor *)

\* Seeded fault: a request that is running is executed again.
NotAnswered(q) == tools[q] \in {"absent", "running"}

NotStarted(q) == tools[q] = "absent"

\* The row of the request is inserted before the tool is called.
StartTool(w) ==
  LET q == worker[w].state.request IN
  /\ worker[w].pc = "ready" /\ worker[w].state.node = "RETRIEVE"
  /\ NotStarted(q)
  /\ tools' = [tools EXCEPT ![q] = "running"]
  /\ worker' = [worker EXCEPT ![w].pc = "executing"]
  /\ UNCHANGED <<policy, run, calls, evidence, verdicts>>

Answered(w, found) ==
  worker' = [worker EXCEPT ![w] = [pc |-> "answered", state |-> [@.state EXCEPT !.found = found]]]

\* A search whose vectors are unavailable is partial, or fails when it has no
\* keywords to search by; a tool that raises fails.  A failure has no items.
ToolReturns(w) ==
  /\ worker[w].pc = "executing"
  /\ \E answer \in Answers :
       /\ tools' = [tools EXCEPT ![worker[w].state.request] = answer]
       /\ Answered(w, answer = "found")
  /\ UNCHANGED <<policy, run, calls, evidence, verdicts>>

\* The stored answer, or TOOL_ALREADY_RUNNING: a failure without items.
ToolKnown(w) ==
  LET q == worker[w].state.request IN
  /\ worker[w].pc = "ready" /\ worker[w].state.node = "RETRIEVE"
  /\ ~NotStarted(q)
  /\ Answered(w, tools[q] = "found")
  /\ UNCHANGED <<policy, run, tools, calls, evidence, verdicts>>

Retrieved(w) ==
  /\ worker[w].pc = "answered"
  /\ MayCheckpoint(w)
  /\ worker[w].state.version < MaxVersion
  /\ run' = [run EXCEPT !.state = [worker[w].state EXCEPT !.version = @ + 1, !.node = "VERIFY"]]
  /\ worker' = [worker EXCEPT ![w] = Idle]
  /\ UNCHANGED <<policy, tools, calls, evidence, verdicts>>

-----------------------------------------------------------------------------
(* VERIFY: an audited call and the evidence it gives *)

\* The call's row is claimed when it is new or its lease ran out; two workers
\* may then be waiting for an answer.
StartCall(w) ==
  LET v == worker[w].state.version IN
  /\ worker[w].pc = "ready" /\ worker[w].state.node = "VERIFY" /\ worker[w].state.found
  /\ calls[v].status \in {"absent", "running"}
  /\ calls' = [calls EXCEPT ![v].status = "running"]
  /\ worker' = [worker EXCEPT ![w].pc = "calling"]
  /\ UNCHANGED <<policy, run, tools, evidence, verdicts>>

Verified(w, drafts) ==
  worker' = [worker EXCEPT ![w] = [pc |-> "verified", state |-> @.state, drafts |-> drafts]]

CallSucceeds(w) ==
  /\ worker[w].pc = "calling"
  /\ \E drafts \in Outputs :
       /\ calls' = [calls EXCEPT ![worker[w].state.version] =
                      [status |-> "success", drafts |-> drafts]]
       /\ Verified(w, drafts)
  /\ UNCHANGED <<policy, run, tools, evidence, verdicts>>

\* The error is written whatever another worker has written.
CallFails(w) ==
  /\ worker[w].pc = "calling"
  /\ calls' = [calls EXCEPT ![worker[w].state.version].status = "failed"]
  /\ worker' = [worker EXCEPT ![w] = Idle]
  /\ UNCHANGED <<policy, run, tools, evidence, verdicts>>

\* The stored answer; without items nobody is asked.
CallKnown(w) ==
  LET state == worker[w].state IN
  /\ worker[w].pc = "ready" /\ state.node = "VERIFY"
  /\ state.found => calls[state.version].status = "success"
  /\ Verified(w, IF state.found THEN calls[state.version].drafts ELSE {})
  /\ UNCHANGED <<policy, run, tools, calls, evidence, verdicts>>

\* What is not among the items is a forged source, which raises.
FromItems(state, drafts) == \A d \in drafts : d.source \in Items[state.request]

\* The modality is the item's, whatever the requirement allows.
PendingEvidence(state, drafts) ==
  {[request |-> state.request, version |-> state.version, draft |-> d] : d \in drafts}

\* Evidence for or against resolves a requirement for the agent, however sure and
\* of whatever modality.
Resolved(state, drafts) ==
  IF \E d \in drafts : d.stance # "UNCERTAIN" THEN {KeyOf[state.request]} ELSE {}

\* The evidence and the state come in one transaction.  The next round plans a
\* request.
Verify(w) ==
  LET state == worker[w].state
      drafts == worker[w].drafts
  IN
  /\ worker[w].pc = "verified"
  /\ FromItems(state, drafts)
  /\ MayCheckpoint(w)
  /\ state.version < MaxVersion
  /\ evidence' = evidence \cup PendingEvidence(state, drafts)
  /\ \E node \in {"RETRIEVE", "DECIDE"}, q \in Requests :
       /\ node = "DECIDE" => q = state.request
       /\ run' = [run EXCEPT !.state =
                    [version |-> state.version + 1, node |-> node, request |-> q,
                     found |-> FALSE,
                     missing |-> state.missing \ Resolved(state, drafts)]]
  /\ worker' = [worker EXCEPT ![w] = Idle]
  /\ UNCHANGED <<policy, tools, calls, verdicts>>

-----------------------------------------------------------------------------
(* DECIDE: the end of the run *)

StancesOf(rows, key) == {e.draft.stance : e \in {r \in rows : KeyOf[r.request] = key}}

\* Seeded fault: only evidence that is sure enough is compared.
SureConflicts(rows) ==
  {key \in Keys : Cardinality(StancesOf({r \in rows : r.draft.sure}, key)) > 1}

\* Evidence for and against one requirement, whatever its confidence.
Conflicts(rows) == {key \in Keys : {"SUPPORT", "CONTRADICT"} \subseteq StancesOf(rows, key)}

\* Seeded fault: a run that is not conclusive fails, whatever its evidence says.
FailedOutcome(conclusive, state) ==
  IF conclusive /\ evidence # {} /\ state.missing = {} THEN "COMPLETED" ELSE "FAILED"

\* _enforce_decision: what the model proposes stands only if nothing is missing.
Outcome(conclusive, state) ==
  IF conclusive /\ evidence # {} /\ state.missing = {} /\ Conflicts(evidence) = {}
  THEN "COMPLETED" ELSE "OPEN"

Decide(w) ==
  LET state == worker[w].state IN
  /\ worker[w].pc = "ready" /\ state.node = "DECIDE"
  /\ MayCheckpoint(w)
  /\ state.version < MaxVersion
  /\ \E conclusive \in BOOLEAN :
       LET closed == [state EXCEPT !.version = @ + 1, !.node = Finished] IN
       /\ run' = [run EXCEPT !.state = closed]
       /\ worker' = [worker EXCEPT ![w] =
                       [pc |-> "closing", state |-> closed, outcome |-> Outcome(conclusive, state)]]
  /\ UNCHANGED <<policy, tools, calls, evidence, verdicts>>

\* complete looks at the version only.
Complete(w) ==
  /\ worker[w].pc = "closing"
  /\ run.state.version = worker[w].state.version
  /\ run' = [run EXCEPT !.status = worker[w].outcome]
  /\ worker' = [worker EXCEPT ![w] = Idle]
  /\ UNCHANGED <<policy, tools, calls, evidence, verdicts>>

-----------------------------------------------------------------------------
(* Governance: evidence, results, rules *)

\* The requirement of a row allows the row's modality.
Fits(e) == e.draft.source \in Allowed[KeyOf[e.request]]

\* classify: the modality, the tool run and the model call; the time range and
\* the artifact are as the tool gave them.
IsValid(e) ==
  /\ Fits(e)
  /\ tools[e.request] = "found"
  /\ calls[e.version].status = "success"

ValidEvidence == {e \in evidence : IsValid(e)}

Counted(rows, key, stance) ==
  Cardinality({e \in rows : KeyOf[e.request] = key /\ e.draft.stance = stance /\ e.draft.sure})

\* aggregate: what valid evidence of enough confidence amounts to.
Aggregate(rows, key) ==
  LET support == Counted(rows, key, "SUPPORT") >= policy.support
      contradict == Counted(rows, key, "CONTRADICT") >= policy.contradict
  IN  CASE support /\ contradict  -> "CONFLICTED"
        [] support /\ ~contradict -> "SATISFIED"
        [] ~support /\ contradict -> "NOT_SATISFIED"
        [] OTHER                  -> "UNKNOWN"

\* Seeded fault: what is unknown counts as false.
TwoValued(status) == IF status = "SATISFIED" THEN "TRUE" ELSE "FALSE"

Leaf(status) ==
  CASE status = "SATISFIED"     -> "TRUE"
    [] status = "NOT_SATISFIED" -> "FALSE"
    [] OTHER                    -> "UNKNOWN"

Open == {"UNKNOWN", "CONFLICTED"}
Truth(holds) == IF holds THEN "TRUE" ELSE "FALSE"

\* _leaf: the sentinels come first, also for a requirement of the same name.
Value(rows, name) ==
  CASE name = "unresolved_exception" ->
         Truth(\E key \in policy.exceptions : Aggregate(rows, key) \in Open)
    [] name = "contradictory_evidence" ->
         Truth(\E key \in Keys : Aggregate(rows, key) = "CONFLICTED")
    [] OTHER -> Leaf(Aggregate(rows, name))

Combine(op, values) ==
  IF op = "all"
  THEN CASE "FALSE" \in values -> "FALSE"
         [] values \subseteq {"TRUE"} -> "TRUE"
         [] OTHER -> "UNKNOWN"
  ELSE CASE "TRUE" \in values -> "TRUE"
         [] values \subseteq {"FALSE"} -> "FALSE"
         [] OTHER -> "UNKNOWN"

\* evaluate_expression, for a flat expression and for one with nested ones.
EvalFlat(rows, e) == Combine(e.op, {Value(rows, name) : name \in e.leaves})

Eval(rows, e) ==
  Combine(e.op, {Value(rows, name) : name \in e.leaves} \cup {EvalFlat(rows, n) : n \in e.nested})

\* The rules in their order: incomplete investigation, requirements that are
\* open, escalation, rejection, exceptions, and evidence there must be.
IsOpen(rows) ==
  \/ run.status # "COMPLETED"
  \/ \E key \in policy.required : Aggregate(rows, key) \in Open
  \/ Eval(rows, policy.escalate) # "FALSE"
  \/ Eval(rows, policy.reject) = "UNKNOWN"
  \/ rows = {}

IsExcepted(rows) == \E key \in policy.exceptions : Aggregate(rows, key) = "SATISFIED"

Verdict(rows) ==
  IF IsOpen(rows) THEN "NEEDS_HUMAN_REVIEW"
  ELSE IF Eval(rows, policy.reject) = "TRUE" /\ ~IsExcepted(rows) THEN "REJECT"
  ELSE "APPROVE"

\* finalize_case; the same inputs give the decision there is, and one that
\* leaves the case to a human changes nothing here.
Evaluate ==
  /\ Verdict(ValidEvidence) # "NEEDS_HUMAN_REVIEW"
  /\ verdicts' = verdicts \cup {[verdict |-> Verdict(ValidEvidence), rows |-> ValidEvidence]}
  /\ UNCHANGED <<policy, run, tools, calls, evidence, worker>>

-----------------------------------------------------------------------------
Next ==
  \/ \E w \in Workers :
       \/ Resume(w) \/ Drop(w)
       \/ StartTool(w) \/ ToolReturns(w) \/ ToolKnown(w) \/ Retrieved(w)
       \/ StartCall(w) \/ CallSucceeds(w) \/ CallFails(w) \/ CallKnown(w) \/ Verify(w)
       \/ Decide(w) \/ Complete(w)
  \/ StatusChanges
  \/ Evaluate

Spec == Init /\ [][Next]_vars

-----------------------------------------------------------------------------
(* Properties *)

Decision == [verdict: {"APPROVE", "REJECT"}, rows: SUBSET Evidence]

Worker ==
  {Idle} \cup
  [pc: {"ready", "executing", "answered", "calling"}, state: State] \cup
  [pc: {"verified"}, state: State, drafts: SUBSET Draft] \cup
  [pc: {"closing"}, state: State, outcome: {"COMPLETED", "OPEN"}]

TypeOK ==
  /\ policy \in Policies
  /\ run \in [status: Status, state: State]
  /\ tools \in [Requests -> Tool]
  /\ calls \in [Version -> Call]
  /\ evidence \subseteq Evidence
  /\ verdicts \subseteq Decision
  /\ worker \in [Workers -> Worker]

(***************************************************************************)
(* What a request of a run was answered stays its answer, although workers *)
(* die between the row and the answer and others take the run over: a      *)
(* request is executed at most once (ToolExecutor.execute).                *)
(***************************************************************************)
AnswersStand ==
  [][\A q \in Requests : tools[q] \in Answers => tools'[q] = tools[q]]_vars

(***************************************************************************)
(* What the agent took for evidence cites an item that answered its        *)
(* request, and counts for governance, which checks it by rules of its     *)
(* own, unless its requirement does not allow the item's modality (OCR     *)
(* found around a time range, a clip) or a late worker's error replaced    *)
(* the answer of its call (_validate_evidence, classify, _finish_error).   *)
(***************************************************************************)
EvidenceCounts ==
  \A e \in evidence :
    /\ e.draft.source \in Items[e.request]
    /\ IsValid(e) \/ ~Fits(e) \/ calls[e.version].status = "failed"

(***************************************************************************)
(* However often a case is evaluated, and whatever calls fail late between *)
(* two evaluations, the machine never both approves and rejects it: losing *)
(* evidence makes a requirement unknown, never its opposite (aggregate,    *)
(* evaluate_expression, _enforce_decision).                                *)
(***************************************************************************)
VerdictsAgree ==
  \A d, e \in verdicts : ~(d.verdict = "APPROVE" /\ e.verdict = "REJECT")

(***************************************************************************)
(* A verdict of the machine rests on evidence about every requirement that *)
(* is required, exceptions included, and on none that other valid evidence *)
(* speaks against, however weak (evaluate, _enforce_decision).             *)
(***************************************************************************)
VerdictsAreGrounded ==
  \A d \in verdicts :
    /\ \A key \in policy.required :
         \E e \in d.rows : KeyOf[e.request] = key /\ e.draft.sure
    /\ \A key \in Keys : ~({"SUPPORT", "CONTRADICT"} \subseteq StancesOf(d.rows, key))

=============================================================================
