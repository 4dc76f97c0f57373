---------------------------- MODULE Investigation ----------------------------
(***************************************************************************)
(* One agent investigation of one case: the rows agent_runs,               *)
(* processing_jobs, cases, agent_steps, evidence and model_calls that      *)
(* evistream/agent/service.py, engine.py and audit.py keep, and the worker *)
(* processes that execute the job.  Deliveries may be duplicated, workers  *)
(* may be slow or die anywhere, and leases run out at any moment.          *)
(*                                                                         *)
(* Every statement that reads a row without a lock is an action of its     *)
(* own, and so is the end of the transaction, which writes the rows.  The  *)
(* unit of work writes only the columns whose value differs from the one   *)
(* read, so a column that had its new value then keeps what others have    *)
(* made of it since.  Statements that hold the lock of the row they rest   *)
(* on (checkpoint, the API's retry) are one action with their commit.      *)
(***************************************************************************)
EXTENDS Naturals, Sequences

CONSTANTS
  Workers,        \* worker processes that execute job messages
  MaxAttempts,    \* settings.job_max_attempts, the job row's max_attempts
  MaxIterations,  \* settings.agent_max_iterations
  MaxMessages     \* bound on the queue: messages waiting at one time

ASSUME BoundsAssumption ==
  /\ MaxAttempts \in Nat \ {0}
  /\ MaxIterations \in Nat \ {0}
  /\ MaxMessages \in Nat \ {0}

VARIABLES
  run,         \* the agent_runs row: status, version, snapshot, lease
  job,         \* the processing_jobs row: status, attempt, retryable, lease
  caseStatus,  \* cases.status
  log,         \* agent_steps: the state each committed step led to
  evidence,    \* evidence rows, named by the version that verified them
  calls,       \* model_calls: one row per state version
  messages,    \* job messages waiting in the queue
  pc,          \* where each worker is
  st,          \* the InvestigationState a worker holds in memory
  seen,        \* what the transaction a worker is in has read
  outcome      \* the status a worker is about to close the run with

rows == <<run, job, caseStatus>>
history == <<log, evidence>>
local == <<pc, st, seen, outcome>>
vars == <<run, job, caseStatus, log, evidence, calls, messages,
          pc, st, seen, outcome>>

-----------------------------------------------------------------------------
(* Data *)

Node == {"PLAN", "RETRIEVE", "INSPECT", "VERIFY", "CHALLENGE", "DECIDE"}
Finished == "NONE"    \* next_node is None: nothing is left to execute

\* A round has five nodes; DECIDE is a sixth step, of all rounds but the last.
MaxVersion == 5 * MaxIterations
Version == 0 .. MaxVersion

State == [version: Version, node: Node \cup {Finished},
          iteration: 0 .. MaxIterations, items: BOOLEAN,
          evidence: SUBSET Version]

FirstState == [version |-> 0, node |-> "PLAN", iteration |-> 0,
               items |-> FALSE, evidence |-> {}]

ClosedStatus == {"COMPLETED", "NEEDS_HUMAN_REVIEW"}
RunStatus == {"ABSENT", "PENDING", "RUNNING", "FAILED"} \cup ClosedStatus
JobStatus == {"ABSENT", "PENDING", "RUNNING", "RETRY_WAIT", "SUCCEEDED", "FAILED"}
\* DECIDED is what the governance of the case makes of it (module CaseLifecycle).
CaseStatus == {"READY", "INVESTIGATING", "INVESTIGATED", "NEEDS_HUMAN_REVIEW",
               "DECIDED"}
\* "running" rows are split by whether their lease still holds.
CallStatus == {"absent", "leased", "lapsed", "success", "failed"}
\* lease_until: none, in the future or in the past.
Lease == {"none", "live", "expired"}
\* The columns of the three rows that a transaction may leave out of its
\* UPDATE; "runFailed" is the run's status when it is to be FAILED.
Column == {"run", "runFailed", "runLease", "job", "jobLease", "retryable", "case"}
\* Where a worker is, mostly named for the statement that comes next.
Control == {"idle", "claimRun", "claimFlush", "running", "calling", "ready",
            "closeRun", "closeJob", "closeCase", "closeFlush",
            "failRun", "failFlush",
            "deferRun", "deferJob", "deferFlush", "exhaustFlush"}

\* attempt: as claim read it; same: the columns that already had the value
\* this transaction gives them when it read them.
Nothing == [attempt |-> 0, same |-> {}]

-----------------------------------------------------------------------------
(* The investigation graph *)

AllowedTransitions ==
  [n \in Node |-> CASE n = "PLAN"      -> {"RETRIEVE"}
                    [] n = "RETRIEVE"  -> {"INSPECT"}
                    [] n = "INSPECT"   -> {"VERIFY"}
                    [] n = "VERIFY"    -> {"CHALLENGE"}
                    [] n = "CHALLENGE" -> {"PLAN", "DECIDE"}
                    [] n = "DECIDE"    -> {Finished}]

\* INSPECT and VERIFY have nothing to ask a model about without items.
NeedsCall(s) ==
  \/ s.node \in {"PLAN", "CHALLENGE", "DECIDE"}
  \/ s.node \in {"INSPECT", "VERIFY"} /\ s.items

\* The part of _budget_stop that the state alone decides; the deadline, the
\* call and failure counters may stop a worker at any node.
Exhausted(s) == s.node \in {"PLAN", "DECIDE"} /\ s.iteration >= MaxIterations

\* What executing a node makes of the state.
Advance(s) ==
  {[version |-> s.version + 1,
    node |-> next,
    iteration |-> IF s.node = "PLAN" THEN s.iteration + 1 ELSE s.iteration,
    items |-> IF s.node = "RETRIEVE" THEN found ELSE s.items,
    evidence |-> IF verified THEN s.evidence \cup {s.version} ELSE s.evidence] :
      next \in AllowedTransitions[s.node],
      found \in BOOLEAN,
      verified \in (IF s.node = "VERIFY" /\ s.items THEN BOOLEAN ELSE {FALSE})}

\* The state that the committed steps have reached at a version.
StateAt(v) == IF v = 0 THEN FirstState ELSE log[v]

-----------------------------------------------------------------------------
Init ==
  /\ run = [status |-> "ABSENT", version |-> 0, snapshot |-> FirstState,
            lease |-> "none"]
  /\ job = [status |-> "ABSENT", attempt |-> 0, retryable |-> FALSE, lease |-> "none"]
  /\ caseStatus = "READY"
  /\ log = <<>>
  /\ evidence = {}
  /\ calls = [v \in Version |-> "absent"]
  /\ messages = 0
  /\ pc = [w \in Workers |-> "idle"]
  /\ st = [w \in Workers |-> FirstState]
  /\ seen = [w \in Workers |-> Nothing]
  /\ outcome = [w \in Workers |-> "COMPLETED"]

\* A worker's memory is gone once it stops executing the job.
Stop(w) ==
  /\ pc' = [pc EXCEPT ![w] = "idle"]
  /\ st' = [st EXCEPT ![w] = FirstState]
  /\ seen' = [seen EXCEPT ![w] = Nothing]
  /\ outcome' = [outcome EXCEPT ![w] = "COMPLETED"]

Goto(w, label) ==
  /\ pc' = [pc EXCEPT ![w] = label]
  /\ UNCHANGED <<st, seen, outcome>>

\* The handler ends the run by its id: the state is no longer held.
GiveUp(w, label) ==
  /\ pc' = [pc EXCEPT ![w] = label]
  /\ st' = [st EXCEPT ![w] = FirstState]
  /\ UNCHANGED <<seen, outcome>>

\* A read that goes on to label and found these columns as they are to be.
Reads(w, label, columns) ==
  /\ pc' = [pc EXCEPT ![w] = label]
  /\ seen' = [seen EXCEPT ![w].same = @ \cup columns]
  /\ UNCHANGED <<st, outcome>>

Same(column, equal) == IF equal THEN {column} ELSE {}

\* What the flush makes of a column that is to be new and now is current.
Written(w, column, current, new) == IF column \in seen[w].same THEN current ELSE new

CloseAs(w, status) ==
  /\ pc' = [pc EXCEPT ![w] = "closeRun"]
  /\ outcome' = [outcome EXCEPT ![w] = status]

-----------------------------------------------------------------------------
(* The API, the queue and time *)

\* prepare: the first request creates the job and the run.  The case was READY
\* when it was read; triage may have decided it since.
Prepare ==
  /\ run.status = "ABSENT"
  /\ run' = [run EXCEPT !.status = "PENDING"]
  /\ job' = [job EXCEPT !.status = "PENDING"]
  /\ UNCHANGED <<caseStatus, history, calls, messages, local>>

Enqueue ==
  /\ messages < MaxMessages
  /\ messages' = messages + 1
  /\ UNCHANGED <<rows, history, calls, local>>

\* A later prepare returns the existing job, which is dispatched again.
Resubmit ==
  /\ run.status \notin {"ABSENT", "FAILED"}
  /\ Enqueue

\* Seeded fault: a job whose worker died is never due.
DueUnlessRunning ==
  /\ job.status \in {"PENDING", "RETRY_WAIT"}
  /\ job.attempt < MaxAttempts

\* jobs-requeue --due-only; RETRY_WAIT is due once its delay has passed.
Due ==
  /\ \/ job.status \in {"PENDING", "RETRY_WAIT"}
     \/ job.status = "RUNNING" /\ job.lease = "expired"
  /\ job.attempt < MaxAttempts

Requeue == Due /\ Enqueue

QueueLost ==
  /\ messages > 0
  /\ messages' = 0
  /\ UNCHANGED <<rows, history, calls, local>>

\* POST /jobs/{id}/retry, which also dispatches the job.
Retry ==
  /\ job.status \in {"RETRY_WAIT", "FAILED"}
  /\ job.retryable
  /\ job.attempt < MaxAttempts
  /\ job' = [job EXCEPT !.status = "PENDING"]
  /\ messages' = IF messages < MaxMessages THEN messages + 1 ELSE messages
  /\ UNCHANGED <<run, caseStatus, history, calls, local>>

Lapsed(lease) == IF lease = "live" THEN "expired" ELSE lease

\* Leases that both hold were set by one transaction to one time.
LeaseExpires ==
  /\ "live" \in {run.lease, job.lease}
  /\ run' = [run EXCEPT !.lease = Lapsed(@)]
  /\ job' = [job EXCEPT !.lease = Lapsed(@)]
  /\ UNCHANGED <<caseStatus, history, calls, messages, local>>

CallLeaseExpires(v) ==
  /\ calls[v] = "leased"
  /\ calls' = [calls EXCEPT ![v] = "lapsed"]
  /\ UNCHANGED <<rows, history, messages, local>>

-----------------------------------------------------------------------------
(* Claiming the run *)

Receive(w) ==
  /\ pc[w] = "idle"
  /\ messages > 0
  /\ messages' = messages - 1

\* What the checks of claim demand of each row.
ClaimableJob ==
  /\ job.status \in {"PENDING", "RUNNING", "RETRY_WAIT"}
  /\ ~(job.status = "RUNNING" /\ job.lease = "live")

ClaimableRun ==
  /\ run.status \in {"PENDING", "RUNNING"}
  /\ ~(run.status = "RUNNING" /\ run.lease = "live")

ClaimableCase == caseStatus \in {"READY", "INVESTIGATING"}

ClaimReadJob(w) ==
  /\ Receive(w)
  /\ ClaimableJob
  /\ pc' = [pc EXCEPT ![w] = "claimRun"]
  /\ seen' = [seen EXCEPT ![w] = [attempt |-> job.attempt,
                                  same |-> Same("job", job.status = "RUNNING")]]
  /\ UNCHANGED <<rows, history, calls, st, outcome>>

\* Whatever the run is, a job that cannot be claimed changes nothing.
ClaimRefused(w) ==
  /\ Receive(w)
  /\ ~ClaimableJob
  /\ UNCHANGED <<rows, history, calls, local>>

\* A terminal run returns its result, a failed or leased one an error.
ClaimReadRun(w) ==
  /\ pc[w] = "claimRun"
  /\ IF ClaimableRun
       THEN /\ pc' = [pc EXCEPT ![w] = "claimFlush"]
            /\ st' = [st EXCEPT ![w] = run.snapshot]
            /\ seen' = [seen EXCEPT ![w].same = @ \cup Same("run", run.status = "RUNNING")]
            /\ UNCHANGED outcome
       ELSE Stop(w)
  /\ UNCHANGED <<rows, history, calls, messages>>

\* Seeded fault: the constraint is missing.
UnboundedAttempts(w) == ClaimableCase

\* Seeded fault: the case is not looked at once the rows are locked.
MayCommitUnseen(w) == seen[w].attempt < MaxAttempts

\* attempt <= max_attempts is a CHECK constraint of processing_jobs, and the
\* case is read when job and run are flushed, hence locked.
MayCommit(w) ==
  /\ seen[w].attempt < MaxAttempts
  /\ ClaimableCase

ClaimCommit(w) ==
  /\ pc[w] = "claimFlush"
  /\ MayCommit(w)
  /\ run' = [run EXCEPT !.status = Written(w, "run", @, "RUNNING"),
                        !.snapshot = st[w], !.lease = "live"]
  /\ job' = [job EXCEPT !.status = Written(w, "job", @, "RUNNING"),
                        !.attempt = seen[w].attempt + 1, !.lease = "live"]
  /\ caseStatus' = "INVESTIGATING"
  /\ pc' = [pc EXCEPT ![w] = "running"]
  /\ seen' = [seen EXCEPT ![w] = Nothing]
  /\ UNCHANGED <<history, calls, messages, st, outcome>>

ClaimRolledBack(w) ==
  /\ pc[w] = "claimFlush"
  /\ ~MayCommit(w)
  /\ Stop(w)
  /\ UNCHANGED <<rows, history, calls, messages>>

-----------------------------------------------------------------------------
(* Executing the graph *)

\* Seeded fault: what is known so far stands as the verdict.
BudgetStopAccepts(w) ==
  /\ pc[w] = "running"
  /\ st[w].node # Finished
  /\ CloseAs(w, "COMPLETED")
  /\ UNCHANGED <<rows, history, calls, messages, st, seen>>

\* A budget is exhausted: the run is closed for human review.
BudgetStop(w) ==
  /\ pc[w] = "running"
  /\ st[w].node # Finished
  /\ CloseAs(w, "NEEDS_HUMAN_REVIEW")
  /\ UNCHANGED <<rows, history, calls, messages, st, seen>>

\* A state without a next node cannot be resumed.
NothingToExecute(w) ==
  /\ pc[w] = "running"
  /\ st[w].node = Finished
  /\ GiveUp(w, "failRun")
  /\ UNCHANGED <<rows, history, calls, messages>>

Executing(w) ==
  /\ pc[w] = "running"
  /\ st[w].node # Finished
  /\ ~Exhausted(st[w])

\* AuditedModelGateway._claim: a new or lapsed row is leased and sent.
CallClaim(w) ==
  /\ Executing(w)
  /\ NeedsCall(st[w])
  /\ calls[st[w].version] \in {"absent", "lapsed"}
  /\ calls' = [calls EXCEPT ![st[w].version] = "leased"]
  /\ Goto(w, "calling")
  /\ UNCHANGED <<rows, history, messages>>

\* ... a finished one answers from its row, and a leased one is an error.
CallAnswered(w) ==
  /\ Executing(w)
  /\ NeedsCall(st[w])
  /\ \/ /\ calls[st[w].version] = "success"
        /\ Goto(w, "ready")
     \/ /\ calls[st[w].version] = "failed"
        /\ CloseAs(w, "NEEDS_HUMAN_REVIEW")
        /\ UNCHANGED <<st, seen>>
     \/ /\ calls[st[w].version] = "leased"
        /\ GiveUp(w, "failRun")
  /\ UNCHANGED <<rows, history, calls, messages>>

\* The answer is stored whatever has become of the row.
CallSucceeds(w) ==
  /\ pc[w] = "calling"
  /\ calls' = [calls EXCEPT ![st[w].version] = "success"]
  /\ Goto(w, "ready")
  /\ UNCHANGED <<rows, history, messages>>

\* A retryable error defers the job, any other closes the run for review.
CallFails(w) ==
  /\ pc[w] = "calling"
  /\ calls' = [calls EXCEPT ![st[w].version] = "failed"]
  /\ \/ GiveUp(w, "deferRun")
     \/ CloseAs(w, "NEEDS_HUMAN_REVIEW") /\ UNCHANGED <<st, seen>>
  /\ UNCHANGED <<rows, history, messages>>

\* Output that breaks a runtime check (tool, source, range) fails the run.
OutputRejected(w) ==
  /\ pc[w] = "ready"
  /\ GiveUp(w, "failRun")
  /\ UNCHANGED <<rows, history, calls, messages>>

\* Seeded fault: the step does not wait for the answer of its call.
AnswerNotAwaited(w) ==
  \/ pc[w] \in {"calling", "ready"}
  \/ Executing(w) /\ ~NeedsCall(st[w])

NodeDone(w) ==
  \/ pc[w] = "ready"
  \/ Executing(w) /\ ~NeedsCall(st[w])

\* Seeded fault: the update is not conditional on the version.
HoldsRunningRun(w) == run.status = "RUNNING"

\* Seeded fault: whether the run still runs is not compared.
HoldsVersionOnly(w) == run.version = st[w].version

HoldsCurrentVersion(w) ==
  /\ run.version = st[w].version
  /\ run.status = "RUNNING"

\* checkpoint: the optimistic update, the evidence and the step commit in one
\* transaction; after DECIDE the worker goes on to close the run.
Checkpoint(w) ==
  /\ NodeDone(w)
  /\ HoldsCurrentVersion(w)
  /\ \E s \in Advance(st[w]) :
       /\ run' = [run EXCEPT !.version = s.version, !.snapshot = s, !.lease = "live"]
       /\ log' = Append(log, s)
       /\ evidence' = evidence \cup (s.evidence \ st[w].evidence)
       /\ st' = [st EXCEPT ![w] = s]
       /\ IF s.node = Finished
            THEN \E status \in ClosedStatus : CloseAs(w, status)
            ELSE pc' = [pc EXCEPT ![w] = "running"] /\ UNCHANGED outcome
  /\ job' = [job EXCEPT !.lease = "live"]
  /\ UNCHANGED <<caseStatus, calls, messages, seen>>

\* Seeded fault: the evidence is committed before the version is compared.
ConflictKeepsEvidence(w) ==
  /\ NodeDone(w)
  /\ ~HoldsCurrentVersion(w)
  /\ \E s \in Advance(st[w]) : evidence' = evidence \cup s.evidence
  /\ Stop(w)
  /\ UNCHANGED <<rows, log, calls, messages>>

\* Seeded fault: the worker goes on with the state it could not commit.
ConflictIgnored(w) ==
  /\ NodeDone(w)
  /\ ~HoldsCurrentVersion(w)
  /\ \E s \in Advance(st[w]) : st' = [st EXCEPT ![w] = s]
  /\ pc' = [pc EXCEPT ![w] = "running"]
  /\ UNCHANGED <<rows, history, calls, messages, seen, outcome>>

\* AGENT_STATE_CONFLICT: the worker gives up and leaves the rows alone.
CheckpointConflict(w) ==
  /\ NodeDone(w)
  /\ ~HoldsCurrentVersion(w)
  /\ Stop(w)
  /\ UNCHANGED <<rows, history, calls, messages>>

-----------------------------------------------------------------------------
(* Ending an execution *)

\* complete checks the version it read, and nothing else.  (The snapshot it
\* stores is never resumed from; that a PLAN whose call failed has already
\* counted its round in it is left out.)
CloseReadRun(w) ==
  /\ pc[w] = "closeRun"
  /\ IF run.version = st[w].version
       THEN Reads(w, "closeJob", Same("run", run.status = outcome[w])
                                 \cup Same("runLease", run.lease = "none"))
       ELSE Stop(w)
  /\ UNCHANGED <<rows, history, calls, messages>>

CloseReadJob(w) ==
  /\ pc[w] = "closeJob"
  /\ Reads(w, "closeCase", Same("job", job.status = "SUCCEEDED")
                           \cup Same("jobLease", job.lease = "none"))
  /\ UNCHANGED <<rows, history, calls, messages>>

\* Seeded fault: the case counts as investigated whatever the outcome.
AlwaysInvestigated(w) == "INVESTIGATED"

CaseOutcome(w) ==
  IF outcome[w] = "COMPLETED" THEN "INVESTIGATED" ELSE "NEEDS_HUMAN_REVIEW"

CloseReadCase(w) ==
  /\ pc[w] = "closeCase"
  /\ Reads(w, "closeFlush", Same("case", caseStatus = CaseOutcome(w)))
  /\ UNCHANGED <<rows, history, calls, messages>>

CloseCommit(w) ==
  /\ pc[w] = "closeFlush"
  /\ run' = [run EXCEPT !.status = Written(w, "run", @, outcome[w]),
                        !.snapshot = [st[w] EXCEPT !.node = Finished],
                        !.lease = Written(w, "runLease", @, "none")]
  /\ job' = [job EXCEPT !.status = Written(w, "job", @, "SUCCEEDED"),
                        !.lease = Written(w, "jobLease", @, "none")]
  /\ caseStatus' = Written(w, "case", caseStatus, CaseOutcome(w))
  /\ Stop(w)
  /\ UNCHANGED <<history, calls, messages>>

RunFailed(w) ==
  [run EXCEPT !.status = Written(w, "runFailed", @, "FAILED"),
              !.lease = Written(w, "runLease", @, "none")]

\* The case is read after a flush has locked the run; a decision made from then
\* on, before the case is written, stands.
CaseForReview == {"NEEDS_HUMAN_REVIEW"} \cup ({caseStatus} \cap {"DECIDED"})

FailReadRun(w) ==
  /\ pc[w] = "failRun"
  /\ Reads(w, "failFlush", Same("runFailed", run.status = "FAILED")
                           \cup Same("runLease", run.lease = "none"))
  /\ UNCHANGED <<rows, history, calls, messages>>

\* The job is read once the run is locked: nothing is left out but what is so.
FailCommit(w) ==
  /\ pc[w] = "failFlush"
  /\ run' = RunFailed(w)
  /\ job' = [job EXCEPT !.status = "FAILED", !.lease = "none"]
  /\ caseStatus' \in CaseForReview
  /\ Stop(w)
  /\ UNCHANGED <<history, calls, messages>>

\* defer_retry does not know yet what it will make of the run.
DeferReadRun(w) ==
  /\ pc[w] = "deferRun"
  /\ Reads(w, "deferJob", Same("run", run.status = "PENDING")
                          \cup Same("runFailed", run.status = "FAILED")
                          \cup Same("runLease", run.lease = "none"))
  /\ UNCHANGED <<rows, history, calls, messages>>

DeferReadJob(w) ==
  /\ pc[w] = "deferJob"
  /\ LET lease == Same("jobLease", job.lease = "none")
     IN  IF job.attempt < MaxAttempts
           THEN Reads(w, "deferFlush",
                      Same("job", job.status = "RETRY_WAIT")
                      \cup Same("retryable", job.retryable) \cup lease)
           ELSE Reads(w, "exhaustFlush",
                      Same("job", job.status = "FAILED")
                      \cup Same("retryable", ~job.retryable) \cup lease)
  /\ UNCHANGED <<rows, history, calls, messages>>

\* The status and the retryability that the flush gives the job.
JobBecomes(w, status, retryable) ==
  [job EXCEPT !.status = Written(w, "job", @, status),
              !.retryable = Written(w, "retryable", @, retryable),
              !.lease = Written(w, "jobLease", @, "none")]

DeferCommit(w) ==
  /\ pc[w] = "deferFlush"
  /\ run' = [run EXCEPT !.status = Written(w, "run", @, "PENDING"),
                        !.lease = Written(w, "runLease", @, "none")]
  /\ job' = JobBecomes(w, "RETRY_WAIT", TRUE)
  /\ Stop(w)
  /\ UNCHANGED <<caseStatus, history, calls, messages>>

\* The attempts are used up: the job, the run and the case are ended.
ExhaustCommit(w) ==
  /\ pc[w] = "exhaustFlush"
  /\ run' = RunFailed(w)
  /\ job' = JobBecomes(w, "FAILED", FALSE)
  /\ caseStatus' \in CaseForReview
  /\ Stop(w)
  /\ UNCHANGED <<history, calls, messages>>

\* The process dies, or an error the handler does not catch ends the job.
Crash(w) ==
  /\ pc[w] # "idle"
  /\ Stop(w)
  /\ UNCHANGED <<rows, history, calls, messages>>

-----------------------------------------------------------------------------
Claim(w) ==
  \/ ClaimReadJob(w) \/ ClaimRefused(w) \/ ClaimReadRun(w)
  \/ ClaimCommit(w) \/ ClaimRolledBack(w)

Execute(w) ==
  \/ BudgetStop(w) \/ NothingToExecute(w)
  \/ CallClaim(w) \/ CallAnswered(w) \/ CallSucceeds(w) \/ CallFails(w)
  \/ OutputRejected(w) \/ Checkpoint(w) \/ CheckpointConflict(w)

End(w) ==
  \/ CloseReadRun(w) \/ CloseReadJob(w) \/ CloseReadCase(w) \/ CloseCommit(w)
  \/ FailReadRun(w) \/ FailCommit(w)
  \/ DeferReadRun(w) \/ DeferReadJob(w) \/ DeferCommit(w) \/ ExhaustCommit(w)

Environment ==
  \/ Prepare \/ Resubmit \/ Requeue \/ QueueLost \/ Retry \/ LeaseExpires
  \/ \E v \in Version : CallLeaseExpires(v)

Next ==
  \/ Environment
  \/ \E w \in Workers : Claim(w) \/ Execute(w) \/ End(w) \/ Crash(w)

Spec == Init /\ [][Next]_vars

(***************************************************************************)
(* What liveness rests on: leases run out, jobs-requeue --due-only runs    *)
(* again and again, a worker goes on with what it started unless it dies,  *)
(* and neither the loss of the queue nor the death of a worker always      *)
(* comes in the short time of taking a message or committing a claim.      *)
(***************************************************************************)
Fairness ==
  /\ WF_vars(LeaseExpires)
  /\ WF_vars(Requeue)
  /\ SF_vars(\E w \in Workers : ClaimReadJob(w) \/ ClaimRefused(w))
  /\ SF_vars(\E w \in Workers : ClaimReadRun(w))
  /\ SF_vars(\E w \in Workers : ClaimCommit(w) \/ ClaimRolledBack(w))
  /\ \A w \in Workers : WF_vars(Execute(w) \/ End(w))

FairSpec == Spec /\ Fairness

-----------------------------------------------------------------------------
(* Properties *)

RowsOK ==
  /\ run \in [status: RunStatus, version: Version, snapshot: State, lease: Lease]
  /\ job \in [status: JobStatus, attempt: 0 .. MaxAttempts, retryable: BOOLEAN,
              lease: Lease]
  /\ caseStatus \in CaseStatus

HistoryOK == log \in Seq(State) /\ evidence \subseteq Version

QueueOK == calls \in [Version -> CallStatus] /\ messages \in 0 .. MaxMessages

LocalOK ==
  /\ pc \in [Workers -> Control]
  /\ st \in [Workers -> State]
  /\ seen \in [Workers -> [attempt: 0 .. MaxAttempts, same: SUBSET Column]]
  /\ outcome \in [Workers -> ClosedStatus]

TypeOK == RowsOK /\ HistoryOK /\ QueueOK /\ LocalOK

Recorded(s) == s.version <= Len(log) /\ s = StateAt(s.version)

(***************************************************************************)
(* The history is one walk through the graph: every committed step         *)
(* advances the state of the step before it, whichever workers committed   *)
(* the two, and its length is the run's state_version (the optimistic      *)
(* update and ALLOWED_TRANSITIONS in checkpoint).                          *)
(***************************************************************************)
OneHistory ==
  /\ Len(log) = run.version
  /\ \A v \in 1 .. Len(log) : log[v] \in Advance(StateAt(v - 1))

(***************************************************************************)
(* What a worker works with, and what the next claim would resume from,    *)
(* is a state of that history, even after claims that raced and snapshots  *)
(* written back late (claim stores the snapshot it read; what it reads of  *)
(* a run that has ended it gives up again).                                *)
(***************************************************************************)
ResumesFromHistory ==
  /\ \A w \in Workers : pc[w] # "claimFlush" \/ ClaimableCase => Recorded(st[w])
  /\ ClaimableCase => Recorded(run.snapshot)

(***************************************************************************)
(* The evidence rows are exactly those the last committed state lists:     *)
(* none is lost by a resume and none is left by a step that lost its       *)
(* version (evidence and step commit in one transaction).                  *)
(***************************************************************************)
EvidenceIsAccounted == evidence = StateAt(Len(log)).evidence

(***************************************************************************)
(* No mix of resumes, duplicates and retries buys an investigation more    *)
(* planning rounds than agent_max_iterations, and a provisional verdict    *)
(* that stands was decided by a DECIDE step of the history.                *)
(***************************************************************************)
RoundsBounded ==
  /\ \A v \in 1 .. Len(log) : log[v].iteration <= MaxIterations
  /\ run.status = "COMPLETED" => StateAt(Len(log)).node = Finished

(***************************************************************************)
(* The case gates its run.  The run and its job may come to tell different *)
(* stories (their rows are read one after the other, and columns are left  *)
(* out), but while the case is open both can still be claimed, and once it *)
(* is closed no execution, however late, sets the run running again: no    *)
(* step is committed to a case that was handed on (claim reads the case    *)
(* last, with the rows it flushed locked).                                 *)
(***************************************************************************)
CaseGatesRun ==
  /\ ClaimableCase /\ run.status # "ABSENT" =>
       /\ run.status \in {"PENDING", "RUNNING"}
       /\ job.status \in {"PENDING", "RUNNING", "RETRY_WAIT"}
  /\ run.status = "RUNNING" => caseStatus = "INVESTIGATING"

(***************************************************************************)
(* The audit is complete and nothing in it is made up: every committed     *)
(* step that asks a model has a finished call at its version, and no call  *)
(* was ever sent at a version that no step reached or that has nothing to  *)
(* ask (a row per step in audit.py, whoever leased, lost and leased it).   *)
(***************************************************************************)
CallsMatchHistory ==
  \A v \in Version :
    /\ calls[v] # "absent" => v <= Len(log) /\ NeedsCall(StateAt(v))
    /\ v < Len(log) /\ NeedsCall(StateAt(v)) => calls[v] \in {"success", "failed"}

(***************************************************************************)
(* To its readers the run is one process: what workers interleave, lose    *)
(* and repeat is a run of AgentRun, whose next step is the one the last    *)
(* committed state names (module AgentRun; agent/service.py).              *)
(***************************************************************************)
Agent == INSTANCE AgentRun
  WITH Graph <- AllowedTransitions, First <- "PLAN", Last <- Finished,
       status <- run.status, open <- ClaimableCase, step <- Len(log), node <- StateAt(Len(log)).node,
       round <- StateAt(Len(log)).iteration, found <- evidence

ImplementsAgentRun == Agent!Spec

(***************************************************************************)
(* Towards the case the agent keeps to what module CaseGovernance assumes  *)
(* of it, late claims and closes included: the status of the case changes  *)
(* with the run's as module AgentOnCase says, and in no other way.         *)
(***************************************************************************)
RunAsSeen ==
  IF run.status \in {"ABSENT"} \cup ClosedStatus THEN run.status ELSE "UNFINISHED"

Case == INSTANCE AgentOnCase WITH run <- RunAsSeen, status <- caseStatus

KeepsToCase == Case!Spec

Ended == run.status \in ClosedStatus \cup {"FAILED"}

\* The attempts are used up and nobody works on the job any more.
Abandoned ==
  job.attempt = MaxAttempts /\ \A w \in Workers : pc[w] \in {"idle", "claimRun", "claimFlush"}

(***************************************************************************)
(* A prepared investigation reaches a terminal status through any deaths,  *)
(* lost queues and retries, unless its last attempt was lost with its      *)
(* worker (requeue and leases).                                            *)
(***************************************************************************)
EventuallyEnds == run.status = "PENDING" /\ job.attempt = 0 ~> Ended \/ Abandoned

(***************************************************************************)
(* "A worker that loses its process after commit can reclaim an expired    *)
(* lease and continue from `next_node`" (docs/agent-runtime.md): whoever   *)
(* executes the run has a node to continue from.                           *)
(***************************************************************************)
ResumedHasNextNode ==
  \A w \in Workers : pc[w] = "running" => st[w].node # Finished

(***************************************************************************)
(* "Transient model and database failures enter `RETRY_WAIT`"              *)
(* (docs/task-runtime.md): a job that waits for its retry can still        *)
(* repeat the call that failed.                                            *)
(***************************************************************************)
RetryMayCallAgain == job.status = "RETRY_WAIT" => calls[run.version] # "failed"

(***************************************************************************)
(* "Duplicate queue messages reuse terminal results"                       *)
(* (docs/task-runtime.md): a terminal result is not taken back.            *)
(***************************************************************************)
TerminalResultStands ==
  [][run.status \in ClosedStatus => run'.status = run.status]_vars

(***************************************************************************)
(* Running jobs use finite leases, so that none is occupied for ever      *)
(* (development document, section 5.3): no job is running for ever.        *)
(***************************************************************************)
RunningJobEnds == job.status = "RUNNING" ~> job.status # "RUNNING"

=============================================================================
