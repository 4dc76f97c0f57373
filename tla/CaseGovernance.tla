---------------------------- MODULE CaseGovernance ----------------------------
(***************************************************************************)
(* The formal decisions of one case: the rows decisions, reviews, appeals, *)
(* appeal_events and cases that evistream/governance/service.py and        *)
(* review.py keep.  Workers and the CLI evaluate the case, people review   *)
(* it, appeal and resolve appeals, all at the same time, while the agent   *)
(* goes on writing the run, the case status and the evidence.              *)
(*                                                                         *)
(* A request looks its request_key up without a lock, takes the row locks  *)
(* (of the appeal first, then of the case), reads, and commits or rolls    *)
(* back; these are its steps.  Decisions are named by their sequence.      *)
(***************************************************************************)
EXTENDS Naturals, Sequences

CONSTANTS
  Actors,      \* requests and workers that may be busy with the case at once
  ReviewKeys,  \* request keys of reviews and of appeal resolutions
  Appeals,     \* request keys of appeals, which name the appeals
  Inputs,      \* what an aggregation of the case can read (its input hashes)
  Decidable,   \* the inputs for which the policy expressions give a verdict
  Cited,       \* the inputs with at least one valid evidence row
  MaxDecisions \* bound on the length of the history

ASSUME InputsAssumption ==
  /\ Decidable \subseteq Inputs
  /\ Cited \subseteq Inputs
  /\ MaxDecisions \in Nat

VARIABLES
  decisions,  \* the decisions of the case, by sequence
  current,    \* cases.current_decision_id, 0 for none
  results,    \* the input the requirements' current results were made from
  status,     \* cases.status
  run,        \* status of the case's investigation run
  input,      \* what an aggregation would read now
  reviews,    \* the review rows
  appeals,    \* the appeal rows and their events
  pc,         \* where each request is
  ask,        \* what each request asks for
  view        \* what a request read once it held the case row

vars == <<decisions, current, results, status, run, input, reviews, appeals,
           pc, ask, view>>
records == <<decisions, current, results, reviews>>
surroundings == <<run, input>>

-----------------------------------------------------------------------------
(* Data *)

None == "none"    \* no key, no appeal, no results

ClosedStatus == {"COMPLETED", "NEEDS_HUMAN_REVIEW"}
\* PENDING, RUNNING and FAILED are all the same to an evaluation.
RunStatus == {"ABSENT", "UNFINISHED"} \cup ClosedStatus
CaseStatus == {"READY", "INVESTIGATING", "INVESTIGATED", "NEEDS_HUMAN_REVIEW",
               "DECIDED"}
\* APPROVE and REJECT are not told apart.
Verdict == {"CONCLUSIVE", "NEEDS_HUMAN_REVIEW"}

Decision == [source: {"MACHINE", "HUMAN"}, results: Inputs \cup {None},
             incomplete: BOOLEAN, verdict: Verdict, evidence: BOOLEAN,
             supersedes: Nat]

NoAppeal == [status |-> "ABSENT", challenged |-> 0, resolution |-> 0]

NoRequest == [op |-> None, key |-> None, appeal |-> None]
Requests ==
       {[op |-> "review", key |-> k, appeal |-> None] : k \in ReviewKeys}
  \cup {[op |-> "resolve", key |-> k, appeal |-> p] : k \in ReviewKeys, p \in Appeals}
  \cup {[op |-> "appeal", key |-> None, appeal |-> p] : p \in Appeals}

EvaluationRequest == [op |-> "evaluate", key |-> None, appeal |-> None]

NoView == [current |-> 0, length |-> 0]

-----------------------------------------------------------------------------
Init ==
  /\ decisions = <<>>
  /\ current = 0
  /\ results = None
  /\ status = "READY"
  /\ run = "ABSENT"
  /\ input \in Inputs
  /\ reviews = {}
  /\ appeals = [p \in Appeals |-> NoAppeal]
  /\ pc = [a \in Actors |-> "idle"]
  /\ ask = [a \in Actors |-> NoRequest]
  /\ view = [a \in Actors |-> NoView]

\* The transaction of a request ends and its row locks are released.
Finish(a) ==
  /\ pc' = [pc EXCEPT ![a] = "idle"]
  /\ ask' = [ask EXCEPT ![a] = NoRequest]
  /\ view' = [view EXCEPT ![a] = NoView]

-----------------------------------------------------------------------------
(* Requests and locks *)

\* Seeded fault: neither looked up nor unique.
KeyNotUnique(key) == FALSE

KeyUsed(key) == \E r \in reviews : r.key = key

\* A request whose key has a row is answered from that row.
Answered(r) ==
  \/ r.op \in {"review", "resolve"} /\ KeyUsed(r.key)
  \/ r.op = "appeal" /\ appeals[r.appeal].status # "ABSENT"

Ask(a) ==
  /\ pc[a] = "idle"
  /\ \E r \in Requests : ~Answered(r) /\ ask' = [ask EXCEPT ![a] = r]
  /\ pc' = [pc EXCEPT ![a] = "asked"]
  /\ UNCHANGED <<records, status, surroundings, appeals, view>>

\* Seeded fault: the case is read without FOR UPDATE.
CaseNotLocked == TRUE

CaseIsFree == \A a \in Actors : pc[a] # "caseLocked"

\* Seeded fault: the appeal is read without FOR UPDATE.
AppealNotLocked(p) == TRUE

AppealIsFree(p) ==
  \A a \in Actors : ~(ask[a].appeal = p /\ ask[a].op = "resolve"
                      /\ pc[a] \in {"appealLocked", "caseLocked"})

LockAppeal(a) ==
  /\ pc[a] = "asked"
  /\ ask[a].op = "resolve"
  /\ AppealIsFree(ask[a].appeal)
  /\ appeals[ask[a].appeal].status = "OPEN"
  /\ pc' = [pc EXCEPT ![a] = "appealLocked"]
  /\ UNCHANGED <<records, status, surroundings, appeals, ask, view>>

Lock(a) ==
  /\ CaseIsFree
  /\ pc' = [pc EXCEPT ![a] = "caseLocked"]
  /\ view' = [view EXCEPT ![a] = [current |-> current, length |-> Len(decisions)]]
  /\ UNCHANGED <<records, status, surroundings, appeals>>

LockCase(a) ==
  /\ pc[a] = IF ask[a].op = "resolve" THEN "appealLocked" ELSE "asked"
  /\ Lock(a)
  /\ UNCHANGED ask

\* An evaluation has no key to look up.
StartEvaluation(a) ==
  /\ pc[a] = "idle"
  /\ ask' = [ask EXCEPT ![a] = EvaluationRequest]
  /\ Lock(a)

\* A request that is refused (its input is invalid, the policy is disabled),
\* whose insert breaks a unique constraint or whose process dies: the
\* transaction rolls back.
Drop(a) ==
  /\ pc[a] # "idle"
  /\ Finish(a)
  /\ UNCHANGED <<records, status, surroundings, appeals>>

-----------------------------------------------------------------------------
(* Writing decisions *)

\* Seeded fault: the pointer moves but the decision is not added.
PointOnly(a, d) ==
  /\ Len(decisions) = view[a].length
  /\ Len(decisions) < MaxDecisions
  /\ UNCHANGED decisions
  /\ current' = view[a].length + 1
  /\ status' = "DECIDED"

\* decisions has a unique (case_id, sequence); the sequence was read before.
AddDecision(a, d) ==
  /\ Len(decisions) = view[a].length
  /\ Len(decisions) < MaxDecisions
  /\ decisions' = Append(decisions, d)
  /\ current' = view[a].length + 1
  /\ status' = IF d.verdict = "CONCLUSIVE" THEN "DECIDED" ELSE "NEEDS_HUMAN_REVIEW"

\* _create_review; cites: the reviewer names evidence of the case, otherwise
\* the evidence of the reviewed decision stands for it.
CreateReview(a) ==
  /\ view[a].current # 0
  /\ ~KeyUsed(ask[a].key)
  /\ \E verdict \in Verdict, cites \in BOOLEAN :
       LET evidence == cites \/ decisions[view[a].current].evidence
       IN  /\ verdict = "CONCLUSIVE" => evidence
           /\ AddDecision(a, [source |-> "HUMAN", results |-> results,
                          incomplete |-> FALSE, verdict |-> verdict,
                          evidence |-> evidence, supersedes |-> view[a].current])
  /\ reviews' = reviews \cup {[key |-> ask[a].key, reviewed |-> view[a].current,
                               decision |-> view[a].length + 1]}
  /\ UNCHANGED results

SubmitReview(a) ==
  /\ pc[a] = "caseLocked"
  /\ ask[a].op = "review"
  /\ CreateReview(a)
  /\ Finish(a)
  /\ UNCHANGED <<surroundings, appeals>>

\* Seeded fault: the resolution names the decision under review.
ResolveAppealByReviewed(a) ==
  /\ pc[a] = "caseLocked"
  /\ ask[a].op = "resolve"
  /\ CreateReview(a)
  /\ appeals' = [appeals EXCEPT ![ask[a].appeal].status = "RESOLVED",
                                ![ask[a].appeal].resolution = view[a].current]
  /\ Finish(a)
  /\ UNCHANGED surroundings

ResolveAppeal(a) ==
  /\ pc[a] = "caseLocked"
  /\ ask[a].op = "resolve"
  /\ CreateReview(a)
  /\ appeals' = [appeals EXCEPT ![ask[a].appeal].status = "RESOLVED",
                                ![ask[a].appeal].resolution = view[a].length + 1]
  /\ Finish(a)
  /\ UNCHANGED surroundings

SubmitAppeal(a) ==
  /\ pc[a] = "caseLocked"
  /\ ask[a].op = "appeal"
  /\ view[a].current # 0
  /\ appeals[ask[a].appeal].status = "ABSENT"
  /\ appeals' = [appeals EXCEPT ![ask[a].appeal] =
                   [status |-> "OPEN", challenged |-> view[a].current, resolution |-> 0]]
  /\ status' = "NEEDS_HUMAN_REVIEW"
  /\ Finish(a)
  /\ UNCHANGED <<records, surroundings>>

-----------------------------------------------------------------------------
(* finalize_case *)

\* The run is closed, or absent where the caller (triage) allows it.
MayEvaluate(a) ==
  /\ pc[a] = "caseLocked"
  /\ ask[a].op = "evaluate"
  /\ run # "UNFINISHED"

\* Seeded fault: a verdict needs no evidence.
EvaluationWithoutEvidence ==
  [source |-> "MACHINE", results |-> input, incomplete |-> run = "NEEDS_HUMAN_REVIEW",
   verdict |-> IF run # "NEEDS_HUMAN_REVIEW" /\ input \in Decidable
               THEN "CONCLUSIVE" ELSE "NEEDS_HUMAN_REVIEW",
   evidence |-> input \in Cited]

\* RuleEvaluator: an incomplete investigation and a verdict without evidence
\* need a human.
Evaluation ==
  LET incomplete == run = "NEEDS_HUMAN_REVIEW"
  IN  [source |-> "MACHINE", results |-> input, incomplete |-> incomplete,
       verdict |-> IF ~incomplete /\ input \in Decidable \cap Cited
                   THEN "CONCLUSIVE" ELSE "NEEDS_HUMAN_REVIEW",
       evidence |-> input \in Cited]

\* Seeded fault: the source is left out of the lookup.
SameInput(d, e) == d.results = e.results /\ d.incomplete = e.incomplete

\* Equal results, verdict and reason make an equal input_sha256.
SameEvaluation(d, e) ==
  /\ d.source = "MACHINE"
  /\ d.results = e.results
  /\ d.incomplete = e.incomplete

\* Seeded fault: only the decision pointer moves.
EvaluateAgainKeepResults(a) ==
  /\ MayEvaluate(a)
  /\ \E i \in 1 .. Len(decisions) :
       SameEvaluation(decisions[i], Evaluation) /\ current' = i
  /\ Finish(a)
  /\ UNCHANGED <<decisions, results, status, surroundings, reviews, appeals>>

\* A known evaluation only moves the pointers.
EvaluateAgain(a) ==
  /\ MayEvaluate(a)
  /\ \E i \in 1 .. Len(decisions) :
       SameEvaluation(decisions[i], Evaluation) /\ current' = i
  /\ results' = input
  /\ Finish(a)
  /\ UNCHANGED <<decisions, status, surroundings, reviews, appeals>>

\* Seeded fault: the source of the current decision is not checked.
NobodyStands(a) == FALSE

HumanStands(a) ==
  view[a].current # 0 /\ decisions[view[a].current].source = "HUMAN"

EvaluateNew(a) ==
  /\ MayEvaluate(a)
  /\ \A i \in 1 .. Len(decisions) : ~SameEvaluation(decisions[i], Evaluation)
  /\ ~HumanStands(a)
  /\ AddDecision(a, [source |-> "MACHINE", results |-> input,
                 incomplete |-> Evaluation.incomplete,
                 verdict |-> Evaluation.verdict, evidence |-> Evaluation.evidence,
                 supersedes |-> view[a].current])
  /\ results' = input
  /\ Finish(a)
  /\ UNCHANGED <<surroundings, reviews, appeals>>

-----------------------------------------------------------------------------
(* What goes on around: the agent, as far as it touches the case (module    *)
(* Investigation says when it writes what), and new evidence.              *)

Agent == INSTANCE AgentOnCase

Surroundings == UNCHANGED <<records, appeals, pc, ask, view>>

\* The new run refers to the case, so that its INSERT waits for the row lock.
AgentPrepares ==
  /\ CaseIsFree
  /\ Agent!Prepare
  /\ Surroundings /\ UNCHANGED input

\* An UPDATE of the case row waits for the transaction that locks it.
AgentWrites ==
  /\ CaseIsFree
  /\ Agent!Write
  /\ Surroundings /\ UNCHANGED input

\* Evidence is appended, or a tool run or model call it rests on changes.
InputChanges ==
  /\ input' \in Inputs \ {input}
  /\ Surroundings /\ UNCHANGED <<status, run>>

-----------------------------------------------------------------------------
Act(a) ==
  \/ Ask(a) \/ LockAppeal(a) \/ LockCase(a) \/ StartEvaluation(a) \/ Drop(a)
  \/ SubmitReview(a) \/ SubmitAppeal(a) \/ ResolveAppeal(a)
  \/ EvaluateAgain(a) \/ EvaluateNew(a)

Environment ==
  AgentPrepares \/ AgentWrites \/ InputChanges

Next == (\E a \in Actors : Act(a)) \/ Environment

Spec == Init /\ [][Next]_vars

-----------------------------------------------------------------------------
(* Properties *)

TypeOK ==
  /\ decisions \in Seq(Decision)
  /\ current \in 0 .. Len(decisions)
  /\ results \in Inputs \cup {None}
  /\ status \in CaseStatus
  /\ run \in RunStatus
  /\ input \in Inputs
  /\ reviews \subseteq [key: ReviewKeys, reviewed: 1 .. Len(decisions),
                        decision: 1 .. Len(decisions)]
  /\ appeals \in [Appeals -> [status: {"ABSENT", "OPEN", "RESOLVED"},
                              challenged: 0 .. Len(decisions),
                              resolution: 0 .. Len(decisions)]]
  /\ pc \in [Actors -> {"idle", "asked", "appealLocked", "caseLocked"}]
  /\ ask \in [Actors -> Requests \cup {EvaluationRequest, NoRequest}]
  /\ view \in [Actors -> [current: 0 .. Len(decisions), length: 0 .. Len(decisions)]]

(***************************************************************************)
(* A machine decision never supersedes a human one, a review always        *)
(* supersedes an earlier decision, and one evaluation input makes at most  *)
(* one machine decision, whatever evaluations and reviews overlap.         *)
(***************************************************************************)
MachineYieldsToHuman ==
  \A i \in 1 .. Len(decisions) :
    LET d == decisions[i] IN
    /\ d.supersedes < i
    /\ d.source = "HUMAN" => d.supersedes # 0
    /\ d.source = "MACHINE" =>
         /\ d.supersedes # 0 => decisions[d.supersedes].source = "MACHINE"
         /\ \A j \in 1 .. Len(decisions) : SameEvaluation(decisions[j], d) => j = i

(***************************************************************************)
(* Human decisions and reviews are two sides of one record: each human     *)
(* decision has exactly one review, of the decision it supersedes, and no  *)
(* request_key, retried or shared by two requests, is recorded twice.      *)
(***************************************************************************)
ReviewsMatchDecisions ==
  /\ \A i \in 1 .. Len(decisions) : decisions[i].source = "HUMAN" =>
       \E r \in reviews : r.decision = i
  /\ \A r \in reviews :
       /\ decisions[r.decision].source = "HUMAN"
       /\ decisions[r.decision].supersedes = r.reviewed
       /\ \A q \in reviews : q.key = r.key \/ q.decision = r.decision => q = r

(***************************************************************************)
(* An appeal is resolved by a human decision made after the decision it    *)
(* challenges, even when that decision is no longer the current one.       *)
(***************************************************************************)
AppealsAreAnswered ==
  \A p \in Appeals : appeals[p].status = "RESOLVED" =>
    /\ appeals[p].resolution > appeals[p].challenged
    /\ appeals[p].challenged # 0
    /\ decisions[appeals[p].resolution].source = "HUMAN"

(***************************************************************************)
(* While a machine decision is current, the requirements' current results  *)
(* are the ones it was made from: the two pointers move in one transaction *)
(* and a refused evaluation moves neither.                                 *)
(***************************************************************************)
ResultsMatchDecision ==
  current # 0 /\ decisions[current].source = "MACHINE" =>
    decisions[current].results = results

(***************************************************************************)
(* Every conclusive decision, of a human or of the machine, cites          *)
(* evidence.                                                               *)
(***************************************************************************)
ConclusiveCitesEvidence ==
  \A i \in 1 .. Len(decisions) :
    decisions[i].verdict = "CONCLUSIVE" => decisions[i].evidence

(***************************************************************************)
(* A new decision supersedes, and a new appeal challenges, the decision    *)
(* that is current at the moment of the commit, not one that was current   *)
(* when the request came in.                                               *)
(***************************************************************************)
ActsOnCurrent ==
  [][/\ decisions' # decisions =>
          decisions'[Len(decisions')].supersedes = current
     /\ \A p \in Appeals :
          appeals[p].status = "ABSENT" /\ appeals'[p].status # "ABSENT" =>
            appeals'[p].challenged = current]_vars

(***************************************************************************)
(* An appeal can be resolved once: its resolution never changes.           *)
(***************************************************************************)
ResolutionsAreFinal ==
  [][\A p \in Appeals : appeals[p].status = "RESOLVED" => appeals'[p] = appeals[p]]_vars

\* The decisions and the pointer, as the abstract history sees them.
Ledger == INSTANCE DecisionLedger WITH
  ledger <- [i \in 1 .. Len(decisions) |->
               [source |-> decisions[i].source, supersedes |-> decisions[i].supersedes]],
  pointer <- current

(***************************************************************************)
(* The case keeps the promise of the abstract history of decisions.        *)
(***************************************************************************)
ImplementsLedger == Ledger!Spec

(***************************************************************************)
(* "automatic evaluation cannot supersede a human decision"                *)
(* (governance/service.py:124): while a human decision is current, no      *)
(* evaluation makes a machine decision current again.                      *)
(***************************************************************************)
HumanDecisionStands ==
  [][current # 0 /\ decisions[current].source = "HUMAN" /\ current' # current =>
       decisions'[current'].source = "HUMAN"]_vars

=============================================================================
