------------------------- MODULE InvestigationProofs -------------------------
(***************************************************************************)
(* Proofs about Investigation, for any number of workers, attempts, rounds *)
(* and messages.                                                           *)
(***************************************************************************)
EXTENDS Investigation, TLAPS

\* The node of a state says where in its round of five versions it stands.
Placed(s) ==
  /\ s.node # "PLAN" => s.iteration >= 1
  /\ s.node \in {"PLAN", "DECIDE"} => s.version = 5 * s.iteration
  /\ s.node = "RETRIEVE" => s.version + 4 = 5 * s.iteration
  /\ s.node = "INSPECT" => s.version + 3 = 5 * s.iteration
  /\ s.node = "VERIFY" => s.version + 2 = 5 * s.iteration
  /\ s.node = "CHALLENGE" => s.version + 1 = 5 * s.iteration
  /\ s.node = Finished => s.version = 5 * s.iteration + 1

\* Every version is placed, and nothing follows the state without a next node.
VersionsPlaced ==
  \A v \in 1 .. Len(log) :
    /\ log[v].version = v
    /\ Placed(log[v])
    /\ v < Len(log) => log[v].node # Finished

Unread == {"idle", "running", "calling", "ready", "closeRun", "failRun", "deferRun"}
Closing == {"closeRun", "closeJob", "closeCase", "closeFlush"}
Failing == {"failFlush", "deferJob", "exhaustFlush"}

\* What brought a worker where it is still holds of its memory.
Knows(w) ==
  /\ pc[w] \in {"calling", "ready"} => st[w].node # Finished /\ ~Exhausted(st[w])
  /\ pc[w] \in Closing /\ outcome[w] = "COMPLETED" => st[w].node = Finished

WorkersKnow == \A w \in Workers : Knows(w)

\* Nothing has been read outside the transactions that read row by row, nobody
\* works on a run that was never prepared, and a column that already had the
\* value of an end was read of a case that is closed.
Told(w) ==
  /\ pc[w] \in Unread => seen[w] = Nothing
  /\ pc[w] \in {"closeJob", "closeCase"} => "case" \notin seen[w].same
  /\ pc[w] \notin {"idle", "claimRun"} => run.status # "ABSENT"
  /\ \/ pc[w] \in Closing /\ {"run", "case"} \cap seen[w].same # {}
     \/ pc[w] \in Failing /\ "runFailed" \in seen[w].same
     => ~ClaimableCase

RowsTold == \A w \in Workers : Told(w)

IInv ==
  /\ TypeOK
  /\ OneHistory
  /\ VersionsPlaced
  /\ WorkersKnow
  /\ ResumesFromHistory
  /\ EvidenceIsAccounted
  /\ RoundsBounded
  /\ RowsTold
  /\ CaseGatesRun

-----------------------------------------------------------------------------
(* Lemmas about the graph *)

(***************************************************************************)
(* The fields of a state that executing a node leads to.                   *)
(***************************************************************************)
LEMMA AdvanceFields ==
  ASSUME NEW s \in State, NEW t \in Advance(s)
  PROVE  /\ t.version = s.version + 1
         /\ t.node \in AllowedTransitions[s.node]
         /\ t.iteration = IF s.node = "PLAN" THEN s.iteration + 1 ELSE s.iteration
         /\ t.items \in BOOLEAN
         /\ t.evidence = s.evidence \/ t.evidence = s.evidence \cup {s.version}
         /\ s.node # "VERIFY" => t.evidence = s.evidence
         /\ t = [version |-> t.version, node |-> t.node, iteration |-> t.iteration,
                 items |-> t.items, evidence |-> t.evidence]
<1> DEFINE V == IF s.node = "VERIFY" /\ s.items THEN BOOLEAN ELSE {FALSE}
           T(next, found, verified) ==
             [version |-> s.version + 1,
              node |-> next,
              iteration |-> IF s.node = "PLAN" THEN s.iteration + 1 ELSE s.iteration,
              items |-> IF s.node = "RETRIEVE" THEN found ELSE s.items,
              evidence |-> IF verified THEN s.evidence \cup {s.version}
                           ELSE s.evidence]
<1>1. Advance(s) = {T(next, found, verified) : next \in AllowedTransitions[s.node],
                                               found \in BOOLEAN, verified \in V}
  BY DEF Advance
<1> HIDE DEF T, V
<1>2. PICK next \in AllowedTransitions[s.node], found \in BOOLEAN, verified \in V :
        t = T(next, found, verified)
  BY <1>1
<1>3. s.items \in BOOLEAN
  BY DEF State
<1>4. s.node # "VERIFY" => verified = FALSE
  BY DEF V
<1> USE DEF T
<1>5. t.items \in BOOLEAN
  BY <1>2, <1>3, Zenon
<1>6. s.node # "VERIFY" => t.evidence = s.evidence
  BY <1>2, <1>4
<1> QED
  BY <1>2, <1>5, <1>6

(***************************************************************************)
(* Executing a node of a placed state within the iteration limit gives a   *)
(* state of the model, placed in its round, that drops no evidence.        *)
(***************************************************************************)
LEMMA AdvanceType ==
  ASSUME NEW s \in State, Placed(s), s.node # Finished, ~Exhausted(s),
         NEW t \in Advance(s)
  PROVE  t \in State /\ Placed(t) /\ t.version = s.version + 1
         /\ s.evidence \subseteq t.evidence
<1>1. /\ t.version = s.version + 1
      /\ t.node \in AllowedTransitions[s.node]
      /\ t.iteration = IF s.node = "PLAN" THEN s.iteration + 1 ELSE s.iteration
      /\ t.items \in BOOLEAN
      /\ t.evidence = s.evidence \/ t.evidence = s.evidence \cup {s.version}
      /\ t = [version |-> t.version, node |-> t.node, iteration |-> t.iteration,
              items |-> t.items, evidence |-> t.evidence]
  BY AdvanceFields
<1>2. /\ s.version \in 0 .. 5 * MaxIterations
      /\ s.iteration \in 0 .. MaxIterations
      /\ s.node \in Node
      /\ s.evidence \subseteq Version
  BY DEF State, Version, MaxVersion
<1>3. MaxIterations \in Nat
  BY BoundsAssumption
<1>4. /\ s.node = "PLAN" => t.node = "RETRIEVE"
      /\ s.node = "RETRIEVE" => t.node = "INSPECT"
      /\ s.node = "INSPECT" => t.node = "VERIFY"
      /\ s.node = "VERIFY" => t.node = "CHALLENGE"
      /\ s.node = "CHALLENGE" => t.node \in {"PLAN", "DECIDE"}
      /\ s.node = "DECIDE" => t.node = Finished
  BY <1>1, <1>2 DEF AllowedTransitions, Node
<1>5. /\ s.node # "PLAN" => s.iteration >= 1
      /\ s.node \in {"PLAN", "DECIDE"} => s.version = 5 * s.iteration
      /\ s.node = "RETRIEVE" => s.version + 4 = 5 * s.iteration
      /\ s.node = "INSPECT" => s.version + 3 = 5 * s.iteration
      /\ s.node = "VERIFY" => s.version + 2 = 5 * s.iteration
      /\ s.node = "CHALLENGE" => s.version + 1 = 5 * s.iteration
  BY DEF Placed
<1>6. s.node \in {"PLAN", "DECIDE"} => s.iteration < MaxIterations
  BY <1>2, <1>3 DEF Exhausted
<1>7. /\ t.iteration \in 0 .. MaxIterations
      /\ t.version \in 0 .. 5 * MaxIterations
  BY <1>1, <1>2, <1>3, <1>5, <1>6 DEF Node
<1>8. t.node \in Node \cup {Finished}
  BY <1>2, <1>4 DEF Node, Finished
<1>9. t.evidence \subseteq Version /\ s.evidence \subseteq t.evidence
  BY <1>1, <1>2 DEF Version, MaxVersion
<1>10. t \in State
  BY <1>1, <1>7, <1>8, <1>9 DEF State, Version, MaxVersion
<1>11. Placed(t)
  BY <1>1, <1>2, <1>3, <1>4, <1>5, <1>6 DEF Placed, Node, Finished
<1> QED
  BY <1>1, <1>9, <1>10, <1>11

-----------------------------------------------------------------------------
(* Type correctness *)

(***************************************************************************)
(* The state before the first step is a state of the model, and placed.    *)
(***************************************************************************)
LEMMA FirstStateType == FirstState \in State /\ Placed(FirstState)
BY BoundsAssumption DEF FirstState, State, Placed, Version, MaxVersion, Node, Finished

(***************************************************************************)
(* What a worker remembers is a placed state.                              *)
(***************************************************************************)
LEMMA Remembered ==
  ASSUME TypeOK, VersionsPlaced, ResumesFromHistory, NEW w \in Workers,
         pc[w] # "claimFlush"
  PROVE  st[w] \in State /\ Placed(st[w]) /\ st[w].version \in 0 .. Len(log)
<1>1. st[w] \in State
  BY DEF TypeOK, LocalOK
<1>2. st[w].version \in Nat
  BY <1>1, BoundsAssumption DEF State, Version, MaxVersion
<1>3. Recorded(st[w])
  BY DEF ResumesFromHistory
<1>4. st[w].version <= Len(log) /\ st[w] = StateAt(st[w].version)
  BY <1>3 DEF Recorded
<1>5. log \in Seq(State)
  BY DEF TypeOK, HistoryOK
<1>6. CASE st[w].version = 0
  BY <1>1, <1>4, <1>5, <1>6, FirstStateType DEF StateAt
<1>7. CASE st[w].version # 0
  <2>1. st[w].version \in 1 .. Len(log)
    BY <1>2, <1>4, <1>5, <1>7
  <2>2. st[w] = log[st[w].version]
    BY <1>4, <1>7 DEF StateAt
  <2> QED
    BY <1>1, <2>1, <2>2 DEF VersionsPlaced
<1> QED
  BY <1>6, <1>7

(***************************************************************************)
(* Having read nothing is well typed.                                      *)
(***************************************************************************)
LEMMA NothingType ==
  Nothing \in [attempt: 0 .. MaxAttempts, same: SUBSET Column]
BY BoundsAssumption DEF Nothing

(***************************************************************************)
(* What a flush gives a column is what it had or what it is to be.         *)
(***************************************************************************)
LEMMA WrittenIs ==
  ASSUME NEW w, NEW column, NEW current, NEW new
  PROVE  /\ Written(w, column, current, new) \in {current, new}
         /\ column \notin seen[w].same => Written(w, column, current, new) = new
         /\ column \in seen[w].same => Written(w, column, current, new) = current
BY DEF Written

(***************************************************************************)
(* Moving on, closing and stopping keep a worker well typed.               *)
(***************************************************************************)
LEMMA LocalType ==
  ASSUME LocalOK, NEW w \in Workers
  PROVE  /\ Stop(w) => LocalOK'
         /\ \A label \in Control : Goto(w, label) \/ GiveUp(w, label) => LocalOK'
         /\ \A label \in Control, columns \in SUBSET Column :
              Reads(w, label, columns) => LocalOK'
         /\ \A status \in ClosedStatus :
              CloseAs(w, status) /\ UNCHANGED <<st, seen>> => LocalOK'
<1>1. ASSUME Stop(w) PROVE LocalOK'
  <2>1. "idle" \in Control /\ "COMPLETED" \in ClosedStatus
    BY DEF Control, ClosedStatus
  <2> QED
    BY <1>1, <2>1, FirstStateType, NothingType DEF LocalOK, Stop
<1>2. ASSUME NEW label \in Control, Goto(w, label) \/ GiveUp(w, label) PROVE LocalOK'
  BY <1>2, FirstStateType DEF LocalOK, Goto, GiveUp
<1>3. ASSUME NEW label \in Control, NEW columns \in SUBSET Column,
             Reads(w, label, columns)
      PROVE  LocalOK'
  <2>1. pc' \in [Workers -> Control] /\ UNCHANGED <<st, outcome>>
    BY <1>3 DEF LocalOK, Reads
  <2>2. seen' \in [Workers -> [attempt: 0 .. MaxAttempts, same: SUBSET Column]]
    BY <1>3 DEF LocalOK, Reads
  <2> QED
    BY <2>1, <2>2 DEF LocalOK
<1>4. ASSUME NEW status \in ClosedStatus, CloseAs(w, status), UNCHANGED <<st, seen>>
      PROVE  LocalOK'
  BY <1>4 DEF LocalOK, CloseAs, Control
<1> QED
  BY <1>1, <1>2, <1>3, <1>4

(***************************************************************************)
(* What a step leaves alone stays well typed.                              *)
(***************************************************************************)
LEMMA TypeKept ==
  /\ RowsOK /\ UNCHANGED rows => RowsOK'
  /\ HistoryOK /\ UNCHANGED history => HistoryOK'
  /\ LocalOK /\ UNCHANGED local => LocalOK'
  /\ QueueOK /\ UNCHANGED <<calls, messages>> => QueueOK'
BY DEF RowsOK, HistoryOK, QueueOK, LocalOK, rows, history, local

(***************************************************************************)
(* The queue and the operator keep the types.                              *)
(***************************************************************************)
LEMMA EnvironmentType == TypeOK /\ Environment => TypeOK'
<1> SUFFICES ASSUME TypeOK, Environment PROVE TypeOK'
  OBVIOUS
<1> USE TypeKept DEF TypeOK
<1>1. MaxMessages \in Nat /\ MaxAttempts \in Nat
  BY BoundsAssumption
<1>2. CASE Prepare
  <2>1. RowsOK'
    BY <1>2 DEF Prepare, RowsOK, RunStatus, JobStatus
  <2> QED
    BY <1>2, <2>1 DEF Prepare
<1>3. CASE Enqueue
  BY <1>1, <1>3 DEF Enqueue, QueueOK
<1>4. CASE QueueLost
  BY <1>1, <1>4 DEF QueueLost, QueueOK
<1>5. CASE Retry
  <2>1. RowsOK'
    BY <1>5 DEF Retry, RowsOK, JobStatus
  <2>2. QueueOK'
    BY <1>1, <1>5 DEF Retry, QueueOK
  <2> QED
    BY <1>5, <2>1, <2>2 DEF Retry
<1>6. CASE LeaseExpires
  <2>1. RowsOK'
    BY <1>6 DEF LeaseExpires, RowsOK, Lapsed, Lease
  <2> QED
    BY <1>6, <2>1 DEF LeaseExpires
<1>7. ASSUME NEW v \in Version, CallLeaseExpires(v) PROVE TypeOK'
  <2>1. QueueOK'
    BY <1>7 DEF CallLeaseExpires, QueueOK, CallStatus
  <2> QED
    BY <1>7, <2>1 DEF CallLeaseExpires
<1> QED
  BY <1>2, <1>3, <1>4, <1>5, <1>6, <1>7 DEF Environment, Resubmit, Requeue

(***************************************************************************)
(* Claiming keeps the types; the CHECK constraint bounds the attempt.      *)
(***************************************************************************)
LEMMA ClaimType ==
  ASSUME TypeOK, NEW w \in Workers, Claim(w)
  PROVE  TypeOK'
<1> USE TypeKept DEF TypeOK
<1>1. CASE ClaimReadJob(w)
  <2>1. /\ job.attempt \in 0 .. MaxAttempts
        /\ Same("job", job.status = "RUNNING") \in SUBSET Column
    BY DEF RowsOK, Same, Column
  <2>2. LocalOK'
    BY <1>1, <2>1 DEF ClaimReadJob, LocalOK, Control
  <2>3. QueueOK'
    BY <1>1, BoundsAssumption DEF ClaimReadJob, Receive, QueueOK
  <2> QED
    BY <1>1, <2>2, <2>3 DEF ClaimReadJob
<1>2. CASE ClaimRefused(w)
  <2>1. QueueOK'
    BY <1>2, BoundsAssumption DEF ClaimRefused, Receive, QueueOK
  <2> QED
    BY <1>2, <2>1 DEF ClaimRefused
<1>3. CASE ClaimReadRun(w)
  <2>1. CASE ClaimableRun
    <3>1. /\ run.snapshot \in State
          /\ Same("run", run.status = "RUNNING") \in SUBSET Column
      BY DEF RowsOK, Same, Column
    <3>2. LocalOK'
      BY <1>3, <2>1, <3>1 DEF ClaimReadRun, LocalOK, Control
    <3> QED
      BY <1>3, <3>2 DEF ClaimReadRun
  <2>2. CASE ~ClaimableRun
    BY <1>3, <2>2, LocalType DEF ClaimReadRun
  <2> QED
    BY <2>1, <2>2
<1>4. CASE ClaimCommit(w)
  <2>1. st[w] \in State /\ seen[w].attempt \in 0 .. MaxAttempts
    BY DEF LocalOK
  <2>2. seen[w].attempt + 1 \in 0 .. MaxAttempts
    BY <1>4, <2>1, BoundsAssumption DEF ClaimCommit, MayCommit
  <2>3. /\ Written(w, "run", run.status, "RUNNING") \in RunStatus
        /\ Written(w, "job", job.status, "RUNNING") \in JobStatus
    BY WrittenIs DEF RowsOK, RunStatus, JobStatus
  <2>4. RowsOK'
    BY <1>4, <2>1, <2>2, <2>3 DEF ClaimCommit, RowsOK, CaseStatus, Lease
  <2>5. LocalOK'
    BY <1>4, NothingType DEF ClaimCommit, LocalOK, Control
  <2> QED
    BY <1>4, <2>4, <2>5 DEF ClaimCommit
<1>5. CASE ClaimRolledBack(w)
  BY <1>5, LocalType DEF ClaimRolledBack
<1> QED
  BY <1>1, <1>2, <1>3, <1>4, <1>5 DEF Claim

(***************************************************************************)
(* A worker that commits a step holds the last recorded state, and the new *)
(* state is a placed one that keeps its evidence.                          *)
(***************************************************************************)
LEMMA StepTaken ==
  ASSUME TypeOK, OneHistory, VersionsPlaced, WorkersKnow, ResumesFromHistory,
         NEW w \in Workers, NodeDone(w), HoldsCurrentVersion(w),
         NEW s \in Advance(st[w])
  PROVE  /\ st[w] \in State /\ st[w] = StateAt(Len(log)) /\ st[w].node # Finished
         /\ s \in State /\ Placed(s) /\ s.version = Len(log) + 1
         /\ st[w].evidence \subseteq s.evidence
<1>0. pc[w] # "claimFlush"
  BY DEF NodeDone, Executing
<1>1. st[w] \in State /\ Placed(st[w])
  BY <1>0, Remembered
<1>2. st[w].node # Finished /\ ~Exhausted(st[w])
  BY DEF NodeDone, Executing, WorkersKnow, Knows
<1>3. st[w].version = Len(log)
  BY DEF HoldsCurrentVersion, OneHistory
<1>4. st[w] = StateAt(Len(log))
  BY <1>0, <1>3 DEF ResumesFromHistory, Recorded
<1>5. /\ s \in State /\ Placed(s) /\ s.version = st[w].version + 1
      /\ st[w].evidence \subseteq s.evidence
  BY <1>1, <1>2, AdvanceType
<1> QED
  BY <1>1, <1>2, <1>3, <1>4, <1>5

(***************************************************************************)
(* Executing the graph keeps the types.                                    *)
(***************************************************************************)
LEMMA ExecuteType ==
  ASSUME TypeOK, OneHistory, VersionsPlaced, WorkersKnow, ResumesFromHistory,
         NEW w \in Workers, Execute(w)
  PROVE  TypeOK'
<1> USE TypeKept DEF TypeOK
<1>1. /\ {"failRun", "calling", "ready", "deferRun"} \subseteq Control
      /\ "NEEDS_HUMAN_REVIEW" \in ClosedStatus
  BY DEF Control, ClosedStatus
<1>2. CASE BudgetStop(w)
  BY <1>1, <1>2, LocalType DEF BudgetStop
<1>3. CASE NothingToExecute(w)
  BY <1>1, <1>3, LocalType DEF NothingToExecute
<1>4. CASE CallClaim(w)
  <2>1. QueueOK'
    BY <1>4 DEF CallClaim, QueueOK, CallStatus
  <2> QED
    BY <1>1, <1>4, <2>1, LocalType DEF CallClaim
<1>5. CASE CallAnswered(w)
  BY <1>1, <1>5, LocalType DEF CallAnswered
<1>6. CASE CallSucceeds(w)
  <2>1. QueueOK'
    BY <1>6 DEF CallSucceeds, QueueOK, CallStatus
  <2> QED
    BY <1>1, <1>6, <2>1, LocalType DEF CallSucceeds
<1>7. CASE CallFails(w)
  <2>1. QueueOK'
    BY <1>7 DEF CallFails, QueueOK, CallStatus
  <2> QED
    BY <1>1, <1>7, <2>1, LocalType DEF CallFails
<1>8. CASE OutputRejected(w)
  BY <1>1, <1>8, LocalType DEF OutputRejected
<1>9. CASE Checkpoint(w)
  <2>1. PICK s \in Advance(st[w]) :
          /\ run' = [run EXCEPT !.version = s.version, !.snapshot = s, !.lease = "live"]
          /\ log' = Append(log, s)
          /\ evidence' = evidence \cup (s.evidence \ st[w].evidence)
          /\ st' = [st EXCEPT ![w] = s]
          /\ IF s.node = Finished
               THEN \E status \in ClosedStatus : CloseAs(w, status)
               ELSE pc' = [pc EXCEPT ![w] = "running"] /\ UNCHANGED outcome
    BY <1>9 DEF Checkpoint
  <2>2. s \in State
    BY <1>9, StepTaken DEF Checkpoint
  <2>3. s.version \in Version /\ s.evidence \subseteq Version
    BY <2>2 DEF State
  <2>4. RowsOK'
    BY <1>9, <2>1, <2>2, <2>3 DEF Checkpoint, RowsOK, Lease
  <2>5. HistoryOK'
    BY <2>1, <2>2, <2>3 DEF HistoryOK
  <2>6. LocalOK'
    <3>1. CASE s.node = Finished
      <4>1. PICK status \in ClosedStatus : CloseAs(w, status)
        BY <2>1, <3>1
      <4> QED
        BY <1>9, <2>1, <2>2, <4>1 DEF Checkpoint, CloseAs, LocalOK, Control
    <3>2. CASE s.node # Finished
      BY <1>9, <2>1, <2>2, <3>2 DEF Checkpoint, LocalOK, Control
    <3> QED
      BY <3>1, <3>2
  <2> QED
    BY <1>9, <2>4, <2>5, <2>6 DEF Checkpoint
<1>10. CASE CheckpointConflict(w)
  BY <1>10, LocalType DEF CheckpointConflict
<1> QED
  BY <1>2, <1>3, <1>4, <1>5, <1>6, <1>7, <1>8, <1>9, <1>10 DEF Execute

(***************************************************************************)
(* Closing, failing and deferring keep the types.                          *)
(***************************************************************************)
LEMMA EndType ==
  ASSUME TypeOK, NEW w \in Workers, End(w)
  PROVE  TypeOK'
<1> USE TypeKept DEF TypeOK
<1>1. ASSUME CloseReadRun(w) \/ CloseReadJob(w) \/ CloseReadCase(w)
               \/ FailReadRun(w) \/ DeferReadRun(w) \/ DeferReadJob(w)
      PROVE  TypeOK'
  <2>1. \A column \in Column, equal \in BOOLEAN : Same(column, equal) \in SUBSET Column
    BY DEF Same
  <2>2. /\ {"closeJob", "closeCase", "closeFlush", "failFlush", "deferJob",
            "deferFlush", "exhaustFlush"} \subseteq Control
        /\ Column = {"run", "runFailed", "runLease", "job", "jobLease", "retryable", "case"}
    BY DEF Control, Column
  <2>3. UNCHANGED <<rows, history, calls, messages>>
    BY <1>1 DEF CloseReadRun, CloseReadJob, CloseReadCase, FailReadRun, DeferReadRun,
                DeferReadJob
  <2>4. Stop(w) \/ \E label \in Control, columns \in SUBSET Column :
                     Reads(w, label, columns)
    <3>1. CASE CloseReadRun(w)
      BY <2>1, <2>2, <3>1 DEF CloseReadRun, Same
    <3>2. CASE CloseReadJob(w)
      BY <2>1, <2>2, <3>2 DEF CloseReadJob, Same
    <3>3. CASE CloseReadCase(w)
      BY <2>1, <2>2, <3>3 DEF CloseReadCase, Same
    <3>4. CASE FailReadRun(w)
      BY <2>1, <2>2, <3>4 DEF FailReadRun, Same
    <3>5. CASE DeferReadRun(w)
      BY <2>1, <2>2, <3>5 DEF DeferReadRun, Same
    <3>6. CASE DeferReadJob(w)
      BY <2>1, <2>2, <3>6 DEF DeferReadJob, Same
    <3> QED
      BY <1>1, <3>1, <3>2, <3>3, <3>4, <3>5, <3>6
  <2> QED
    BY <2>3, <2>4, LocalType
<1>2. /\ \A status \in RunStatus : \A column : Written(w, column, run.status, status) \in RunStatus
      /\ \A status \in JobStatus : Written(w, "job", job.status, status) \in JobStatus
      /\ \A column : Written(w, column, run.lease, "none") \in Lease
      /\ Written(w, "jobLease", job.lease, "none") \in Lease
      /\ \A retryable \in BOOLEAN :
           Written(w, "retryable", job.retryable, retryable) \in BOOLEAN
  BY DEF Written, RowsOK, Lease
<1>3. CASE CloseCommit(w)
  <2>1. st[w] \in State /\ outcome[w] \in ClosedStatus
    BY DEF LocalOK
  <2>2. [st[w] EXCEPT !.node = Finished] \in State
    BY <2>1 DEF State
  <2>3. Written(w, "case", caseStatus, CaseOutcome(w)) \in CaseStatus
    BY WrittenIs DEF CaseOutcome, CaseStatus, RowsOK
  <2>4. outcome[w] \in RunStatus /\ "SUCCEEDED" \in JobStatus
    BY <2>1 DEF RunStatus, JobStatus
  <2>5. RowsOK'
    BY <1>2, <1>3, <2>2, <2>3, <2>4 DEF CloseCommit, RowsOK
  <2> QED
    BY <1>3, <2>5, LocalType DEF CloseCommit
<1>4. /\ RunFailed(w) \in [status: RunStatus, version: Version, snapshot: State,
                            lease: Lease]
      /\ CaseForReview \subseteq CaseStatus
  <2>1. "FAILED" \in RunStatus
    BY DEF RunStatus
  <2> QED
    BY <1>2, <2>1 DEF RunFailed, RowsOK, CaseForReview, CaseStatus
<1>5. CASE FailCommit(w)
  <2>1. RowsOK'
    BY <1>4, <1>5 DEF FailCommit, RowsOK, JobStatus, Lease
  <2> QED
    BY <1>5, <2>1, LocalType DEF FailCommit
<1>6. ASSUME NEW status \in JobStatus, NEW retryable \in BOOLEAN
      PROVE  JobBecomes(w, status, retryable) \in
               [status: JobStatus, attempt: 0 .. MaxAttempts, retryable: BOOLEAN,
                lease: Lease]
  BY <1>2, <1>6 DEF JobBecomes, RowsOK
<1>7. CASE DeferCommit(w)
  <2>1. "PENDING" \in RunStatus /\ "RETRY_WAIT" \in JobStatus
    BY DEF RunStatus, JobStatus
  <2>2. JobBecomes(w, "RETRY_WAIT", TRUE) \in
          [status: JobStatus, attempt: 0 .. MaxAttempts, retryable: BOOLEAN, lease: Lease]
    BY <1>6, <2>1
  <2>3. RowsOK'
    BY <1>2, <1>7, <2>1, <2>2 DEF DeferCommit, RowsOK
  <2> QED
    BY <1>7, <2>3, LocalType DEF DeferCommit
<1>8. CASE ExhaustCommit(w)
  <2>1. "FAILED" \in JobStatus
    BY DEF JobStatus
  <2>2. JobBecomes(w, "FAILED", FALSE) \in
          [status: JobStatus, attempt: 0 .. MaxAttempts, retryable: BOOLEAN, lease: Lease]
    BY <1>6, <2>1
  <2>3. RowsOK'
    BY <1>4, <1>8, <2>2 DEF ExhaustCommit, RowsOK
  <2> QED
    BY <1>8, <2>3, LocalType DEF ExhaustCommit
<1> QED
  BY <1>1, <1>3, <1>5, <1>7, <1>8 DEF End

(***************************************************************************)
(* Every step keeps the types.                                             *)
(***************************************************************************)
LEMMA TypeNext == IInv /\ [Next]_vars => TypeOK'
<1> SUFFICES ASSUME IInv, [Next]_vars PROVE TypeOK'
  OBVIOUS
<1>0. TypeOK /\ OneHistory /\ VersionsPlaced /\ WorkersKnow /\ ResumesFromHistory
  BY DEF IInv
<1>1. CASE Environment
  BY <1>0, <1>1, EnvironmentType
<1>2. ASSUME NEW w \in Workers, Claim(w) PROVE TypeOK'
  BY <1>0, <1>2, ClaimType
<1>3. ASSUME NEW w \in Workers, Execute(w) PROVE TypeOK'
  BY <1>0, <1>3, ExecuteType
<1>4. ASSUME NEW w \in Workers, End(w) PROVE TypeOK'
  BY <1>0, <1>4, EndType
<1>5. ASSUME NEW w \in Workers, Crash(w) PROVE TypeOK'
  BY <1>0, <1>5, LocalType, TypeKept DEF Crash, TypeOK
<1>6. CASE UNCHANGED vars
  BY <1>0, <1>6, TypeKept DEF vars, rows, history, local, TypeOK
<1> QED
  BY <1>1, <1>2, <1>3, <1>4, <1>5, <1>6 DEF Next

-----------------------------------------------------------------------------
(* The history *)

(***************************************************************************)
(* What commits a step appends the state it leads to, which the state of   *)
(* the last version advances to; the run, the worker and the evidence      *)
(* follow it.                                                              *)
(***************************************************************************)
LEMMA HistoryGrows ==
  ASSUME IInv, NEW w \in Workers, Checkpoint(w)
  PROVE  \E s \in State :
           /\ s \in Advance(StateAt(Len(log))) /\ StateAt(Len(log)).node # Finished
           /\ s.version = Len(log) + 1 /\ Placed(s)
           /\ log' = Append(log, s)
           /\ evidence' = s.evidence
           /\ run' = [run EXCEPT !.version = s.version, !.snapshot = s, !.lease = "live"]
           /\ st' = [st EXCEPT ![w] = s]
           /\ IF s.node = Finished
                THEN \E status \in ClosedStatus : CloseAs(w, status)
                ELSE pc' = [pc EXCEPT ![w] = "running"] /\ UNCHANGED outcome
<1>1. PICK s \in Advance(st[w]) :
        /\ run' = [run EXCEPT !.version = s.version, !.snapshot = s, !.lease = "live"]
        /\ log' = Append(log, s)
        /\ evidence' = evidence \cup (s.evidence \ st[w].evidence)
        /\ st' = [st EXCEPT ![w] = s]
        /\ IF s.node = Finished
             THEN \E status \in ClosedStatus : CloseAs(w, status)
             ELSE pc' = [pc EXCEPT ![w] = "running"] /\ UNCHANGED outcome
  BY DEF Checkpoint
<1>2. /\ st[w] = StateAt(Len(log)) /\ st[w].node # Finished
      /\ s \in State /\ Placed(s) /\ s.version = Len(log) + 1
      /\ st[w].evidence \subseteq s.evidence
  BY StepTaken DEF Checkpoint, IInv
<1>3. evidence' = s.evidence
  BY <1>1, <1>2 DEF IInv, EvidenceIsAccounted
<1> QED
  BY <1>1, <1>2, <1>3

(***************************************************************************)
(* Nothing else touches the history or the version of the run.             *)
(***************************************************************************)
LEMMA HistoryStays ==
  ASSUME TypeOK, [Next]_vars, ~(\E w \in Workers : Checkpoint(w))
  PROVE  UNCHANGED <<log, evidence>> /\ run'.version = run.version
<1> USE DEF TypeOK, RowsOK, rows, history
<1>1. CASE Environment
  BY <1>1 DEF Environment, Prepare, Resubmit, Requeue, Enqueue, QueueLost, Retry,
              LeaseExpires, CallLeaseExpires
<1>2. ASSUME NEW w \in Workers, Claim(w)
      PROVE  UNCHANGED <<log, evidence>> /\ run'.version = run.version
  BY <1>2 DEF Claim, ClaimReadJob, ClaimRefused, ClaimReadRun, ClaimCommit,
              ClaimRolledBack
<1>3. ASSUME NEW w \in Workers, Execute(w)
      PROVE  UNCHANGED <<log, evidence>> /\ run'.version = run.version
  BY <1>3 DEF Execute, BudgetStop, NothingToExecute, CallClaim, CallAnswered,
              CallSucceeds, CallFails, OutputRejected, CheckpointConflict
<1>4. ASSUME NEW w \in Workers, End(w)
      PROVE  UNCHANGED <<log, evidence>> /\ run'.version = run.version
  BY <1>4 DEF End, CloseReadRun, CloseReadJob, CloseReadCase, CloseCommit, FailReadRun,
              FailCommit, RunFailed, DeferReadRun, DeferReadJob, DeferCommit, ExhaustCommit
<1>5. ASSUME NEW w \in Workers, Crash(w)
      PROVE  UNCHANGED <<log, evidence>> /\ run'.version = run.version
  BY <1>5 DEF Crash
<1>6. CASE UNCHANGED vars
  BY <1>6 DEF vars
<1> QED
  BY <1>1, <1>2, <1>3, <1>4, <1>5, <1>6 DEF Next

(***************************************************************************)
(* The history stays one walk, its versions stay placed, and its last      *)
(* state goes on listing the evidence rows.                                *)
(***************************************************************************)
LEMMA HistoryNext ==
  IInv /\ [Next]_vars => OneHistory' /\ VersionsPlaced' /\ EvidenceIsAccounted'
<1> SUFFICES ASSUME IInv, [Next]_vars
             PROVE  OneHistory' /\ VersionsPlaced' /\ EvidenceIsAccounted'
  OBVIOUS
<1>0. TypeOK /\ OneHistory /\ VersionsPlaced /\ EvidenceIsAccounted
  BY DEF IInv
<1>1. log \in Seq(State) /\ Len(log) \in Nat
  BY <1>0 DEF TypeOK, HistoryOK
<1>2. ASSUME NEW w \in Workers, Checkpoint(w)
      PROVE  OneHistory' /\ VersionsPlaced' /\ EvidenceIsAccounted'
  <2>1. PICK s \in State :
          /\ s \in Advance(StateAt(Len(log))) /\ StateAt(Len(log)).node # Finished
          /\ s.version = Len(log) + 1 /\ Placed(s)
          /\ log' = Append(log, s)
          /\ evidence' = s.evidence
          /\ run' = [run EXCEPT !.version = s.version, !.snapshot = s, !.lease = "live"]
    BY <1>2, HistoryGrows
  <2>2. /\ Len(log') = Len(log) + 1
        /\ log'[Len(log) + 1] = s
        /\ \A v \in 1 .. Len(log) : log'[v] = log[v]
    BY <1>1, <2>1
  <2>3. run'.version = Len(log) + 1
    BY <1>0, <2>1 DEF TypeOK, RowsOK
  <2>4. OneHistory'
    <3>1. ASSUME NEW v \in 1 .. Len(log)'
          PROVE  log'[v] \in Advance(IF v - 1 = 0 THEN FirstState ELSE log'[v - 1])
      <4>1. CASE v = Len(log) + 1
        BY <1>1, <2>1, <2>2, <4>1 DEF StateAt
      <4>2. CASE v \in 1 .. Len(log)
        <5>1. log[v] \in Advance(IF v - 1 = 0 THEN FirstState ELSE log[v - 1])
          BY <1>0, <4>2 DEF OneHistory, StateAt
        <5>2. v - 1 # 0 => log'[v - 1] = log[v - 1]
          BY <1>1, <2>2, <4>2
        <5>3. (IF v - 1 = 0 THEN FirstState ELSE log'[v - 1])
                = (IF v - 1 = 0 THEN FirstState ELSE log[v - 1])
          BY <5>2
        <5> QED
          BY <2>2, <4>2, <5>1, <5>3
      <4> QED
        BY <1>1, <2>2, <4>1, <4>2
    <3> QED
      BY <2>2, <2>3, <3>1 DEF OneHistory, StateAt
  <2>5. VersionsPlaced'
    <3> SUFFICES ASSUME NEW v \in 1 .. Len(log)'
                 PROVE  /\ log'[v].version = v
                        /\ Placed(log'[v])
                        /\ v < Len(log)' => log'[v].node # Finished
      BY DEF VersionsPlaced
    <3>1. CASE v = Len(log) + 1
      BY <1>1, <2>1, <2>2, <3>1
    <3>2. CASE v = Len(log)
      <4>1. log'[v] = StateAt(Len(log)) /\ log'[v] = log[v] /\ v \in 1 .. Len(log)
        BY <1>1, <2>2, <3>2 DEF StateAt
      <4> QED
        BY <1>0, <2>1, <4>1 DEF VersionsPlaced
    <3>3. CASE v \in 1 .. Len(log) - 1
      BY <1>0, <1>1, <2>2, <3>3 DEF VersionsPlaced
    <3> QED
      BY <1>1, <2>2, <3>1, <3>2, <3>3
  <2>6. EvidenceIsAccounted'
    BY <1>1, <2>1, <2>2 DEF EvidenceIsAccounted, StateAt
  <2> QED
    BY <2>4, <2>5, <2>6
<1>3. CASE ~(\E w \in Workers : Checkpoint(w))
  <2>1. UNCHANGED <<log, evidence>> /\ run'.version = run.version
    BY <1>0, <1>3, HistoryStays
  <2> QED
    BY <1>0, <2>1 DEF OneHistory, VersionsPlaced, EvidenceIsAccounted, StateAt
<1> QED
  BY <1>2, <1>3

-----------------------------------------------------------------------------
(* What workers know *)

(***************************************************************************)
(* Ending an execution is reading on, from where to where the code says,   *)
(* or the last of it.                                                      *)
(***************************************************************************)
LEMMA EndsReading ==
  ASSUME NEW w \in Workers, End(w)
  PROVE  \/ Stop(w)
         \/ \E label \in {"closeJob", "closeCase", "closeFlush", "failFlush",
                          "deferJob", "deferFlush", "exhaustFlush"} : \E columns :
              /\ Reads(w, label, columns)
              /\ pc[w] \in {"closeRun", "closeJob", "closeCase", "failRun", "deferRun",
                           "deferJob"}
              /\ label \in Closing <=> pc[w] \in Closing
<1>1. CASE CloseReadRun(w)
  BY <1>1 DEF CloseReadRun, Closing
<1>2. CASE CloseReadJob(w)
  BY <1>2 DEF CloseReadJob, Closing
<1>3. CASE CloseReadCase(w)
  BY <1>3 DEF CloseReadCase, Closing
<1>4. CASE FailReadRun(w)
  BY <1>4 DEF FailReadRun, Closing
<1>5. CASE DeferReadRun(w)
  BY <1>5 DEF DeferReadRun, Closing
<1>6. CASE DeferReadJob(w)
  BY <1>6 DEF DeferReadJob, Closing
<1>7. CASE CloseCommit(w) \/ FailCommit(w) \/ DeferCommit(w) \/ ExhaustCommit(w)
  BY <1>7 DEF CloseCommit, FailCommit, DeferCommit, ExhaustCommit
<1> QED
  BY <1>1, <1>2, <1>3, <1>4, <1>5, <1>6, <1>7 DEF End

(***************************************************************************)
(* Going on to a place nothing new is known of, closing for review and     *)
(* stopping leave every worker knowing what it has to.                     *)
(***************************************************************************)
LEMMA KnowingKept ==
  ASSUME LocalOK, WorkersKnow, NEW w \in Workers
  PROVE  /\ Stop(w) => WorkersKnow'
         /\ \A label \in {"failRun", "deferRun"} : GiveUp(w, label) => WorkersKnow'
         /\ \A label \in Closing \cup Failing \cup {"deferFlush"} : \A columns :
              (label \in Closing => pc[w] \in Closing) /\ Reads(w, label, columns) =>
                WorkersKnow'
         /\ CloseAs(w, "NEEDS_HUMAN_REVIEW") /\ UNCHANGED <<st, seen>> => WorkersKnow'
         /\ UNCHANGED local => WorkersKnow'
<1> USE DEF WorkersKnow, Knows, LocalOK, Closing
<1>1. Stop(w) => WorkersKnow'
  BY DEF Stop
<1>2. ASSUME NEW label \in {"failRun", "deferRun"}, GiveUp(w, label)
      PROVE  WorkersKnow'
  BY <1>2 DEF GiveUp
<1>3. ASSUME NEW label \in Closing \cup Failing \cup {"deferFlush"}, NEW columns,
             label \in Closing => pc[w] \in Closing, Reads(w, label, columns)
      PROVE  WorkersKnow'
  <2>1. /\ pc' = [pc EXCEPT ![w] = label] /\ UNCHANGED <<st, outcome>>
        /\ label \notin {"calling", "ready"}
    BY <1>3 DEF Reads, Failing
  <2> QED
    BY <1>3, <2>1
<1>4. CloseAs(w, "NEEDS_HUMAN_REVIEW") /\ UNCHANGED <<st, seen>> => WorkersKnow'
  BY DEF CloseAs
<1>5. UNCHANGED local => WorkersKnow'
  BY DEF local
<1> QED
  BY <1>1, <1>2, <1>3, <1>4, <1>5

(***************************************************************************)
(* Every step leaves every worker knowing what it has to.                  *)
(***************************************************************************)
LEMMA WorkersKnowNext == IInv /\ [Next]_vars => WorkersKnow'
<1> SUFFICES ASSUME IInv, [Next]_vars PROVE WorkersKnow'
  OBVIOUS
<1>0. TypeOK /\ LocalOK /\ WorkersKnow
  BY DEF IInv, TypeOK
<1> USE <1>0, KnowingKept
<1>1. CASE Environment
  <2>1. UNCHANGED local
    BY <1>1 DEF Environment, Prepare, Resubmit, Requeue, Enqueue, QueueLost, Retry,
                LeaseExpires, CallLeaseExpires
  <2>2. CASE Workers = {}
    BY <2>2 DEF WorkersKnow
  <2> QED
    BY <2>1, <2>2
<1>2. ASSUME NEW w \in Workers, ClaimReadJob(w) \/ ClaimCommit(w) PROVE WorkersKnow'
  BY <1>2 DEF ClaimReadJob, ClaimCommit, WorkersKnow, Knows, LocalOK, Closing
<1>3. ASSUME NEW w \in Workers, ClaimReadRun(w) PROVE WorkersKnow'
  <2>1. CASE ClaimableRun
    BY <1>3, <2>1 DEF ClaimReadRun, WorkersKnow, Knows, LocalOK, Closing
  <2>2. CASE ~ClaimableRun
    BY <1>3, <2>2 DEF ClaimReadRun
  <2> QED
    BY <2>1, <2>2
<1>4. ASSUME NEW w \in Workers, ClaimRefused(w) \/ ClaimRolledBack(w)
      PROVE  WorkersKnow'
  BY <1>4 DEF ClaimRefused, ClaimRolledBack
<1>5. ASSUME NEW w \in Workers,
             BudgetStop(w) \/ NothingToExecute(w) \/ CallFails(w)
               \/ OutputRejected(w) \/ CheckpointConflict(w)
      PROVE  WorkersKnow'
  BY <1>5 DEF BudgetStop, NothingToExecute, CallFails, OutputRejected,
              CheckpointConflict
<1>6. ASSUME NEW w \in Workers, CallClaim(w) PROVE WorkersKnow'
  BY <1>6 DEF CallClaim, Executing, Goto, WorkersKnow, Knows, LocalOK, Closing
<1>7. ASSUME NEW w \in Workers, CallAnswered(w) PROVE WorkersKnow'
  <2>1. CASE Goto(w, "ready")
    BY <1>7, <2>1 DEF CallAnswered, Executing, Goto, WorkersKnow, Knows, LocalOK, Closing
  <2>2. CASE ~Goto(w, "ready")
    BY <1>7, <2>2 DEF CallAnswered
  <2> QED
    BY <2>1, <2>2
<1>8. ASSUME NEW w \in Workers, CallSucceeds(w) PROVE WorkersKnow'
  BY <1>8 DEF CallSucceeds, Goto, WorkersKnow, Knows, LocalOK, Closing
<1>9. ASSUME NEW w \in Workers, Checkpoint(w) PROVE WorkersKnow'
  <2>1. PICK s \in State :
          /\ st' = [st EXCEPT ![w] = s]
          /\ IF s.node = Finished
               THEN \E status \in ClosedStatus : CloseAs(w, status)
               ELSE pc' = [pc EXCEPT ![w] = "running"] /\ UNCHANGED outcome
    BY <1>9, HistoryGrows
  <2>2. CASE s.node = Finished
    <3>1. PICK status \in ClosedStatus : CloseAs(w, status)
      BY <2>1, <2>2
    <3> QED
      BY <2>1, <2>2, <3>1 DEF CloseAs, WorkersKnow, Knows, LocalOK, Closing
  <2>3. CASE s.node # Finished
    BY <2>1, <2>3 DEF WorkersKnow, Knows, LocalOK, Closing
  <2> QED
    BY <2>2, <2>3
<1>10. ASSUME NEW w \in Workers, End(w) PROVE WorkersKnow'
  BY <1>10, EndsReading DEF Closing, Failing
<1>11. ASSUME NEW w \in Workers, Crash(w) PROVE WorkersKnow'
  BY <1>11 DEF Crash
<1>12. CASE UNCHANGED vars
  BY <1>12 DEF vars, WorkersKnow, Knows
<1> QED
  BY <1>1, <1>2, <1>3, <1>4, <1>5, <1>6, <1>7, <1>8, <1>9, <1>10, <1>11, <1>12
     DEF Next, Claim, Execute

-----------------------------------------------------------------------------
(* The rows and the case *)

(***************************************************************************)
(* What a commit that ends an execution writes: the columns it found as    *)
(* they are to be keep what others have made of them.                      *)
(***************************************************************************)
LEMMA CommitWrites ==
  ASSUME TypeOK, NEW w \in Workers
  PROVE  /\ ClaimCommit(w) =>
              /\ run'.status = Written(w, "run", run.status, "RUNNING")
              /\ job'.status = Written(w, "job", job.status, "RUNNING")
         /\ CloseCommit(w) => run'.status = Written(w, "run", run.status, outcome[w])
         /\ FailCommit(w) \/ ExhaustCommit(w) =>
              run'.status = Written(w, "runFailed", run.status, "FAILED")
         /\ DeferCommit(w) =>
              /\ run'.status = Written(w, "run", run.status, "PENDING")
              /\ job'.status = Written(w, "job", job.status, "RETRY_WAIT")
BY DEF TypeOK, RowsOK, ClaimCommit, CloseCommit, FailCommit, ExhaustCommit, DeferCommit,
       RunFailed, JobBecomes

Commits(w) ==
  ClaimCommit(w) \/ CloseCommit(w) \/ FailCommit(w) \/ DeferCommit(w) \/ ExhaustCommit(w)

(***************************************************************************)
(* Nothing but the commits that claim or end changes the status of the     *)
(* prepared run or the case's; of the job's, only a retry does.            *)
(***************************************************************************)
LEMMA StatusesKept ==
  ASSUME TypeOK, [Next]_vars, ~Prepare, \A w \in Workers : ~Commits(w)
  PROVE  /\ run'.status = run.status /\ caseStatus' = caseStatus
         /\ job'.status = job.status \/ job'.status = "PENDING"
<1> USE DEF TypeOK, RowsOK, rows
<1> DEFINE Kept == /\ run'.status = run.status /\ caseStatus' = caseStatus
                   /\ job'.status = job.status \/ job'.status = "PENDING"
<1>1. CASE Environment
  BY <1>1 DEF Environment, Resubmit, Requeue, Enqueue, QueueLost, Retry,
              LeaseExpires, CallLeaseExpires
<1>2. ASSUME NEW w \in Workers, Claim(w) PROVE Kept
  BY <1>2 DEF Claim, ClaimReadJob, ClaimRefused, ClaimReadRun, ClaimRolledBack, Commits
<1>3. ASSUME NEW w \in Workers, Execute(w) PROVE Kept
  BY <1>3 DEF Execute, BudgetStop, NothingToExecute, CallClaim, CallAnswered,
              CallSucceeds, CallFails, OutputRejected, Checkpoint, CheckpointConflict
<1>4. ASSUME NEW w \in Workers, End(w) \/ Crash(w) PROVE Kept
  BY <1>4 DEF End, CloseReadRun, CloseReadJob, CloseReadCase, FailReadRun, DeferReadRun,
              DeferReadJob, Crash, Commits
<1>5. CASE UNCHANGED vars
  BY <1>5 DEF vars
<1> QED
  BY <1>1, <1>2, <1>3, <1>4, <1>5 DEF Next

(***************************************************************************)
(* A commit that ends an execution closes an open case, with the status    *)
(* that it gives the run; on a closed one it leaves the case closed and    *)
(* the run running no more.                                                *)
(***************************************************************************)
LEMMA EndsClose ==
  ASSUME IInv, NEW w \in Workers, CloseCommit(w) \/ FailCommit(w) \/ ExhaustCommit(w)
  PROVE  /\ run.status # "ABSENT"
         /\ \/ run'.status \notin {"ABSENT", "PENDING", "RUNNING"}
            \/ ~ClaimableCase /\ run'.status = run.status
         /\ caseStatus' \in {caseStatus, "INVESTIGATED", "NEEDS_HUMAN_REVIEW"}
         /\ ~ClaimableCase'
         /\ ClaimableCase => \/ run'.status = "COMPLETED" /\ caseStatus' = "INVESTIGATED"
                             \/ /\ run'.status \in {"NEEDS_HUMAN_REVIEW", "FAILED"}
                                /\ caseStatus' = "NEEDS_HUMAN_REVIEW"
<1>0. TypeOK /\ outcome[w] \in ClosedStatus /\ Told(w)
  BY DEF IInv, TypeOK, LocalOK, RowsTold
<1>1. run.status # "ABSENT"
  BY <1>0 DEF Told, CloseCommit, FailCommit, ExhaustCommit
<1>2. CASE CloseCommit(w)
  <2>1. pc[w] = "closeFlush" /\ caseStatus' = Written(w, "case", caseStatus, CaseOutcome(w))
    BY <1>2 DEF CloseCommit
  <2>2. run'.status = Written(w, "run", run.status, outcome[w])
    BY <1>0, <1>2, CommitWrites
  <2>3. "run" \in seen[w].same \/ "case" \in seen[w].same => ~ClaimableCase
    BY <1>0, <2>1 DEF Told, Closing
  <2>4. CaseOutcome(w) = IF outcome[w] = "COMPLETED" THEN "INVESTIGATED"
                         ELSE "NEEDS_HUMAN_REVIEW"
    BY DEF CaseOutcome
  <2> QED
    BY <1>0, <1>1, <2>1, <2>2, <2>3, <2>4 DEF Written, ClosedStatus, ClaimableCase
<1>3. CASE FailCommit(w) \/ ExhaustCommit(w)
  <2>1. pc[w] \in {"failFlush", "exhaustFlush"} /\ caseStatus' \in CaseForReview
    BY <1>3 DEF FailCommit, ExhaustCommit
  <2>2. run'.status = Written(w, "runFailed", run.status, "FAILED")
    BY <1>0, <1>3, CommitWrites
  <2>3. "runFailed" \in seen[w].same => ~ClaimableCase
    BY <1>0, <2>1 DEF Told, Failing
  <2> QED
    BY <1>1, <2>1, <2>2, <2>3 DEF Written, CaseForReview, ClaimableCase
<1> QED
  BY <1>2, <1>3

(***************************************************************************)
(* Every step is one the case expects of the agent, or none of its         *)
(* business.                                                               *)
(***************************************************************************)
LEMMA CaseStep ==
  IInv /\ [Next]_vars => [Case!Next]_<<RunAsSeen, caseStatus>>
<1> SUFFICES ASSUME IInv, [Next]_vars
             PROVE  Case!Next \/ UNCHANGED <<RunAsSeen, caseStatus>>
  OBVIOUS
<1>0. TypeOK /\ CaseGatesRun /\ run.status \in RunStatus
  BY DEF IInv, TypeOK, RowsOK
<1>1. ClaimableCase <=> caseStatus \in {"READY", "INVESTIGATING"}
  BY DEF ClaimableCase
<1>2. ClaimableCase /\ run.status # "ABSENT" => RunAsSeen = "UNFINISHED"
  BY <1>0 DEF CaseGatesRun, RunAsSeen, ClosedStatus
<1>3. CASE Prepare
  <2>1. run.status = "ABSENT" /\ run'.status = "PENDING" /\ UNCHANGED caseStatus
    BY <1>0, <1>3 DEF Prepare, TypeOK, RowsOK
  <2> QED
    BY <2>1 DEF Case!Next, Case!Prepare, RunAsSeen, ClosedStatus
<1>4. ASSUME NEW w \in Workers, ClaimCommit(w)
      PROVE  Case!Next \/ UNCHANGED <<RunAsSeen, caseStatus>>
  <2>1. ClaimableCase /\ run.status # "ABSENT" /\ caseStatus' = "INVESTIGATING"
    BY <1>4 DEF ClaimCommit, MayCommit, IInv, RowsTold, Told
  <2>2. run'.status \in {run.status, "RUNNING"}
    BY <1>0, <1>4, CommitWrites, WrittenIs
  <2>3. RunAsSeen = "UNFINISHED" /\ RunAsSeen' = "UNFINISHED"
    BY <1>0, <1>2, <2>1, <2>2 DEF RunAsSeen, CaseGatesRun, ClosedStatus
  <2> QED
    BY <1>1, <2>1, <2>3 DEF Case!Next, Case!Write, Case!Work
<1>5. ASSUME NEW w \in Workers, CloseCommit(w) \/ FailCommit(w) \/ ExhaustCommit(w)
      PROVE  Case!Next
  <2>1. /\ run.status # "ABSENT" /\ run'.status # "ABSENT"
        /\ caseStatus' \in {caseStatus, "INVESTIGATED", "NEEDS_HUMAN_REVIEW"}
        /\ ClaimableCase => \/ run'.status = "COMPLETED" /\ caseStatus' = "INVESTIGATED"
                            \/ /\ run'.status \in {"NEEDS_HUMAN_REVIEW", "FAILED"}
                               /\ caseStatus' = "NEEDS_HUMAN_REVIEW"
    BY <1>5, EndsClose
  <2>2. /\ RunAsSeen # "ABSENT"
        /\ RunAsSeen' \in {"UNFINISHED", "COMPLETED", "NEEDS_HUMAN_REVIEW"}
    BY <2>1 DEF RunAsSeen, ClosedStatus
  <2>3. CASE ClaimableCase
    <3>1. RunAsSeen = "UNFINISHED"
      BY <1>2, <2>1, <2>3
    <3>2. \/ RunAsSeen' = "COMPLETED" /\ caseStatus' = "INVESTIGATED"
          \/ /\ RunAsSeen' \in {"NEEDS_HUMAN_REVIEW", "UNFINISHED"}
             /\ caseStatus' = "NEEDS_HUMAN_REVIEW"
      BY <2>1, <2>3 DEF RunAsSeen, ClosedStatus
    <3> QED
      BY <1>1, <2>3, <3>1, <3>2 DEF Case!Next, Case!Write, Case!Work
  <2>4. CASE ~ClaimableCase
    BY <1>1, <2>1, <2>2, <2>4 DEF Case!Next, Case!Write, Case!WorkLate
  <2> QED
    BY <2>3, <2>4
<1>6. ASSUME NEW w \in Workers, DeferCommit(w) PROVE Case!Next
  <2>1. run.status # "ABSENT" /\ UNCHANGED caseStatus
    BY <1>6 DEF DeferCommit, IInv, RowsTold, Told
  <2>2. run'.status \in {run.status, "PENDING"}
    BY <1>0, <1>6, CommitWrites, WrittenIs
  <2>3. CASE ClaimableCase
    <3>1. RunAsSeen = "UNFINISHED" /\ RunAsSeen' = "UNFINISHED"
      BY <1>0, <1>2, <2>1, <2>2, <2>3 DEF RunAsSeen, CaseGatesRun, ClosedStatus
    <3> QED
      BY <1>1, <2>1, <2>3, <3>1 DEF Case!Next, Case!Write, Case!Work
  <2>4. CASE ~ClaimableCase
    <3>1. /\ RunAsSeen # "ABSENT"
          /\ RunAsSeen' \in {"UNFINISHED", "COMPLETED", "NEEDS_HUMAN_REVIEW"}
      BY <2>1, <2>2 DEF RunAsSeen, ClosedStatus
    <3> QED
      BY <1>1, <2>1, <2>4, <3>1 DEF Case!Next, Case!Write, Case!WorkLate
  <2> QED
    BY <2>3, <2>4
<1>7. CASE ~Prepare /\ \A w \in Workers : ~Commits(w)
  <2>1. run'.status = run.status /\ caseStatus' = caseStatus
    BY <1>0, <1>7, StatusesKept
  <2> QED
    BY <2>1 DEF RunAsSeen
<1> QED
  BY <1>3, <1>4, <1>5, <1>6, <1>7 DEF Case!Next, Commits

(***************************************************************************)
(* No step takes back the preparation of the run or the closing of the     *)
(* case.                                                                   *)
(***************************************************************************)
LEMMA CloseIsFinal ==
  ASSUME IInv, [Next]_vars
  PROVE  /\ run.status # "ABSENT" => run'.status # "ABSENT"
         /\ ~ClaimableCase => ~ClaimableCase'
<1>1. Case!Next \/ UNCHANGED <<RunAsSeen, caseStatus>>
  BY CaseStep
<1>2. /\ run.status = "ABSENT" <=> RunAsSeen = "ABSENT"
      /\ run'.status = "ABSENT" <=> RunAsSeen' = "ABSENT"
  BY DEF RunAsSeen, ClosedStatus
<1>3. RunAsSeen # "ABSENT" => RunAsSeen' # "ABSENT"
  BY <1>1 DEF Case!Next, Case!Prepare, Case!Write, Case!Work, Case!WorkLate
<1>4. caseStatus \notin {"READY", "INVESTIGATING"} =>
        caseStatus' \notin {"READY", "INVESTIGATING"}
  BY <1>1 DEF Case!Next, Case!Prepare, Case!Write, Case!Work, Case!WorkLate
<1> QED
  BY <1>2, <1>3, <1>4 DEF ClaimableCase

(***************************************************************************)
(* Every step leaves an open case with a run and a job that can be         *)
(* claimed, and a closed one with a run that does not run.                 *)
(***************************************************************************)
LEMMA CaseGatesRunNext == IInv /\ [Next]_vars => CaseGatesRun'
<1> SUFFICES ASSUME IInv, [Next]_vars PROVE CaseGatesRun'
  OBVIOUS
<1>0. TypeOK /\ CaseGatesRun
  BY DEF IInv
<1>1. ClaimableCase' <=> caseStatus' \in {"READY", "INVESTIGATING"}
  BY DEF ClaimableCase
<1>2. CASE Prepare
  <2>1. run'.status = "PENDING" /\ job'.status = "PENDING"
    BY <1>0, <1>2 DEF Prepare, TypeOK, RowsOK
  <2> QED
    BY <2>1 DEF CaseGatesRun
<1>3. ASSUME NEW w \in Workers, ClaimCommit(w) PROVE CaseGatesRun'
  <2>1. ClaimableCase /\ run.status # "ABSENT" /\ caseStatus' = "INVESTIGATING"
    BY <1>3 DEF ClaimCommit, MayCommit, IInv, RowsTold, Told
  <2>2. run'.status \in {run.status, "RUNNING"} /\ job'.status \in {job.status, "RUNNING"}
    BY <1>0, <1>3, CommitWrites, WrittenIs
  <2> QED
    BY <1>0, <2>1, <2>2 DEF CaseGatesRun
<1>4. ASSUME NEW w \in Workers, CloseCommit(w) \/ FailCommit(w) \/ ExhaustCommit(w)
      PROVE  CaseGatesRun'
  <2>1. /\ \/ run'.status \notin {"ABSENT", "PENDING", "RUNNING"}
           \/ ~ClaimableCase /\ run'.status = run.status
        /\ ~ClaimableCase'
    BY <1>4, EndsClose
  <2>2. ~ClaimableCase => run.status # "RUNNING"
    BY <1>0 DEF CaseGatesRun, ClaimableCase
  <2> QED
    BY <2>1, <2>2 DEF CaseGatesRun
<1>5. ASSUME NEW w \in Workers, DeferCommit(w) PROVE CaseGatesRun'
  <2>1. UNCHANGED caseStatus /\ (ClaimableCase' <=> ClaimableCase)
    BY <1>5 DEF DeferCommit, ClaimableCase
  <2>2. /\ run'.status \in {run.status, "PENDING"}
        /\ job'.status \in {job.status, "RETRY_WAIT"}
    BY <1>0, <1>5, CommitWrites, WrittenIs
  <2>3. run.status # "ABSENT"
    BY <1>5 DEF DeferCommit, IInv, RowsTold, Told
  <2> QED
    BY <1>0, <2>1, <2>2, <2>3 DEF CaseGatesRun
<1>6. CASE ~Prepare /\ \A w \in Workers : ~Commits(w)
  <2>1. /\ run'.status = run.status /\ caseStatus' = caseStatus
        /\ job'.status = job.status \/ job'.status = "PENDING"
    BY <1>0, <1>6, StatusesKept
  <2> QED
    BY <1>0, <2>1 DEF CaseGatesRun, ClaimableCase
<1> QED
  BY <1>2, <1>3, <1>4, <1>5, <1>6 DEF Commits

(***************************************************************************)
(* Workers that stay where they are with what they have read, or go where  *)
(* nothing has been read, go on having been told the truth.                *)
(***************************************************************************)
LEMMA TellingKept ==
  ASSUME IInv, [Next]_vars, NEW u \in Workers,
         \/ pc'[u] = pc[u] /\ seen'[u] = seen[u]
         \/ /\ pc'[u] \in Unread /\ seen'[u] = Nothing
            /\ pc'[u] = "idle" \/ pc[u] \notin {"idle", "claimRun"}
  PROVE  Told(u)'
<1>1. Told(u)
  BY DEF IInv, RowsTold
<1>2. /\ run.status # "ABSENT" => run'.status # "ABSENT"
      /\ ~ClaimableCase => ~ClaimableCase'
  BY CloseIsFinal
<1>3. CASE pc'[u] = pc[u] /\ seen'[u] = seen[u]
  BY <1>1, <1>2, <1>3 DEF Told
<1>4. CASE /\ pc'[u] \in Unread /\ seen'[u] = Nothing
           /\ pc'[u] = "idle" \/ pc[u] \notin {"idle", "claimRun"}
  <2>1. seen'[u].same = {}
    BY <1>4 DEF Nothing
  <2>2. pc'[u] \notin {"closeJob", "closeCase"}
    BY <1>4 DEF Unread
  <2>3. pc'[u] \notin {"idle", "claimRun"} => run'.status # "ABSENT"
    BY <1>1, <1>2, <1>4 DEF Told
  <2> QED
    BY <1>4, <2>1, <2>2, <2>3 DEF Told
<1> QED
  BY <1>3, <1>4

(***************************************************************************)
(* What a read finds to be as an end wants it tells of a closed case.      *)
(***************************************************************************)
LEMMA ReadingTold ==
  ASSUME IInv, NEW w \in Workers, UNCHANGED rows,
         \/ CloseReadRun(w) \/ CloseReadJob(w) \/ CloseReadCase(w)
         \/ FailReadRun(w) \/ DeferReadRun(w) \/ DeferReadJob(w)
  PROVE  Stop(w) \/ Told(w)'
<1>0. /\ pc \in [Workers -> Control] /\ outcome[w] \in ClosedStatus /\ Told(w)
      /\ seen \in [Workers -> [attempt: 0 .. MaxAttempts, same: SUBSET Column]]
      /\ run.status \in {"COMPLETED", "NEEDS_HUMAN_REVIEW", "FAILED"} => ~ClaimableCase
  BY DEF IInv, TypeOK, LocalOK, RowsTold, CaseGatesRun
<1>1. run' = run /\ (ClaimableCase' <=> ClaimableCase)
  BY DEF rows, ClaimableCase
<1>2. \A column, equal : Same(column, equal) = IF equal THEN {column} ELSE {}
  BY DEF Same
<1>3. ASSUME NEW label, NEW columns, Reads(w, label, columns)
      PROVE  pc'[w] = label /\ seen'[w].same = seen[w].same \cup columns
  BY <1>0, <1>3 DEF Reads
<1>4. CASE CloseReadRun(w)
  <2>1. CASE run.version = st[w].version
    <3>1. pc[w] = "closeRun" /\ seen[w].same = {} /\ run.status # "ABSENT"
      BY <1>0, <1>4 DEF CloseReadRun, Told, Unread, Nothing
    <3>2. /\ pc'[w] = "closeJob"
          /\ seen'[w].same = Same("run", run.status = outcome[w])
                              \cup Same("runLease", run.lease = "none")
      BY <1>3, <1>4, <2>1, <3>1 DEF CloseReadRun
    <3>3. /\ "run" \in seen'[w].same => ~ClaimableCase
          /\ "case" \notin seen'[w].same
      BY <1>0, <1>2, <3>2 DEF ClosedStatus
    <3> QED
      BY <1>1, <3>1, <3>2, <3>3 DEF Told, Unread, Failing
  <2>2. CASE run.version # st[w].version
    BY <1>4, <2>2 DEF CloseReadRun
  <2> QED
    BY <2>1, <2>2
<1>5. CASE CloseReadJob(w)
  <2>1. /\ pc[w] = "closeJob" /\ pc'[w] = "closeCase"
        /\ seen'[w].same = seen[w].same \cup (Same("job", job.status = "SUCCEEDED")
                                               \cup Same("jobLease", job.lease = "none"))
    BY <1>3, <1>5 DEF CloseReadJob
  <2>2. /\ "run" \in seen'[w].same => "run" \in seen[w].same
        /\ "case" \in seen'[w].same => "case" \in seen[w].same
    BY <1>2, <2>1
  <2>3. /\ "run" \in seen[w].same => ~ClaimableCase
        /\ "case" \notin seen[w].same /\ run.status # "ABSENT"
    BY <1>0, <2>1 DEF Told, Closing
  <2> QED
    BY <1>1, <2>1, <2>2, <2>3 DEF Told, Unread, Failing
<1>6. CASE CloseReadCase(w)
  <2>1. /\ pc[w] = "closeCase" /\ pc'[w] = "closeFlush"
        /\ seen'[w].same = seen[w].same \cup Same("case", caseStatus = CaseOutcome(w))
    BY <1>3, <1>6 DEF CloseReadCase
  <2>2. "run" \in seen'[w].same => "run" \in seen[w].same
    BY <1>2, <2>1
  <2>3. /\ "run" \in seen[w].same => ~ClaimableCase
        /\ "case" \notin seen[w].same /\ run.status # "ABSENT"
    BY <1>0, <2>1 DEF Told, Closing
  <2>4. caseStatus = CaseOutcome(w) => ~ClaimableCase
    BY DEF CaseOutcome, ClaimableCase
  <2>5. "case" \in seen'[w].same => caseStatus = CaseOutcome(w)
    BY <1>2, <2>1, <2>3
  <2> QED
    BY <1>1, <2>1, <2>2, <2>3, <2>4, <2>5 DEF Told, Unread, Failing
<1>7. CASE FailReadRun(w)
  <2>1. pc[w] = "failRun" /\ seen[w].same = {} /\ run.status # "ABSENT"
    BY <1>0, <1>7 DEF FailReadRun, Told, Unread, Nothing
  <2>2. /\ pc'[w] = "failFlush"
        /\ seen'[w].same = Same("runFailed", run.status = "FAILED")
                            \cup Same("runLease", run.lease = "none")
    BY <1>3, <1>7, <2>1 DEF FailReadRun
  <2>3. "runFailed" \in seen'[w].same => ~ClaimableCase
    BY <1>0, <1>2, <2>2
  <2> QED
    BY <1>1, <2>1, <2>2, <2>3 DEF Told, Unread, Closing
<1>8. CASE DeferReadRun(w)
  <2>1. pc[w] = "deferRun" /\ seen[w].same = {} /\ run.status # "ABSENT"
    BY <1>0, <1>8 DEF DeferReadRun, Told, Unread, Nothing
  <2>2. /\ pc'[w] = "deferJob"
        /\ seen'[w].same = Same("run", run.status = "PENDING")
                            \cup Same("runFailed", run.status = "FAILED")
                            \cup Same("runLease", run.lease = "none")
    BY <1>3, <1>8, <2>1 DEF DeferReadRun
  <2>3. "runFailed" \in seen'[w].same => ~ClaimableCase
    BY <1>0, <1>2, <2>2
  <2> QED
    BY <1>1, <2>1, <2>2, <2>3 DEF Told, Unread, Closing
<1>9. CASE DeferReadJob(w)
  <2>1. /\ pc[w] = "deferJob" /\ pc'[w] \in {"deferFlush", "exhaustFlush"}
        /\ "runFailed" \in seen'[w].same => "runFailed" \in seen[w].same
    <3>1. pc[w] = "deferJob" /\ \E label \in {"deferFlush", "exhaustFlush"} :
            \E columns \in SUBSET {"job", "retryable", "jobLease"} : Reads(w, label, columns)
      BY <1>2, <1>9 DEF DeferReadJob
    <3> QED
      BY <1>3, <3>1
  <2>2. /\ "runFailed" \in seen[w].same => ~ClaimableCase
        /\ run.status # "ABSENT"
    BY <1>0, <2>1 DEF Told, Failing
  <2> QED
    BY <1>1, <2>1, <2>2 DEF Told, Unread, Closing
<1> QED
  BY <1>4, <1>5, <1>6, <1>7, <1>8, <1>9

(***************************************************************************)
(* Every step leaves every worker told the truth by what it has read.      *)
(***************************************************************************)
LEMMA RowsToldNext == IInv /\ [Next]_vars => RowsTold'
<1> SUFFICES ASSUME IInv, [Next]_vars, NEW u \in Workers PROVE Told(u)'
  BY DEF RowsTold
<1>0. /\ TypeOK /\ Told(u)
      /\ pc \in [Workers -> Control]
      /\ seen \in [Workers -> [attempt: 0 .. MaxAttempts, same: SUBSET Column]]
  BY DEF IInv, TypeOK, LocalOK, RowsTold
<1>1. ASSUME pc'[u] = pc[u] /\ seen'[u] = seen[u] PROVE Told(u)'
  BY <1>1, TellingKept
<1>2. ASSUME NEW w \in Workers, Stop(w) PROVE Told(u)'
  <2>1. CASE u = w
    <3>1. pc'[u] = "idle" /\ seen'[u] = Nothing
      BY <1>0, <1>2, <2>1 DEF Stop
    <3> QED
      BY <3>1, TellingKept DEF Unread
  <2>2. CASE u # w
    BY <1>0, <1>1, <1>2, <2>2 DEF Stop
  <2> QED
    BY <2>1, <2>2
<1>3. CASE Environment
  BY <1>1, <1>3 DEF Environment, Prepare, Resubmit, Requeue, Enqueue, QueueLost, Retry,
                    LeaseExpires, CallLeaseExpires, local
<1>4. ASSUME NEW w \in Workers, ClaimReadJob(w) PROVE Told(u)'
  <2>1. CASE u = w
    <3>1. pc'[u] = "claimRun"
      BY <1>0, <1>4, <2>1 DEF ClaimReadJob
    <3> QED
      BY <3>1 DEF Told, Unread, Closing, Failing
  <2>2. CASE u # w
    BY <1>0, <1>1, <1>4, <2>2 DEF ClaimReadJob
  <2> QED
    BY <2>1, <2>2
<1>5. ASSUME NEW w \in Workers, ClaimReadRun(w) PROVE Told(u)'
  <2>1. CASE ~ClaimableRun
    BY <1>2, <1>5, <2>1 DEF ClaimReadRun
  <2>2. CASE ClaimableRun /\ u = w
    <3>1. pc'[u] = "claimFlush"
      BY <1>0, <1>5, <2>2 DEF ClaimReadRun
    <3>2. run'.status # "ABSENT"
      BY <1>5, <2>2 DEF ClaimReadRun, ClaimableRun, rows
    <3> QED
      BY <3>1, <3>2 DEF Told, Unread, Closing, Failing
  <2>3. CASE ClaimableRun /\ u # w
    BY <1>0, <1>1, <1>5, <2>3 DEF ClaimReadRun
  <2> QED
    BY <2>1, <2>2, <2>3
<1>6. ASSUME NEW w \in Workers, ClaimCommit(w) PROVE Told(u)'
  <2>1. CASE u = w
    <3>1. pc[u] = "claimFlush" /\ pc'[u] = "running" /\ seen'[u] = Nothing
      BY <1>0, <1>6, <2>1 DEF ClaimCommit
    <3> QED
      BY <3>1, TellingKept DEF Unread
  <2>2. CASE u # w
    BY <1>0, <1>1, <1>6, <2>2 DEF ClaimCommit
  <2> QED
    BY <2>1, <2>2
<1>7. ASSUME NEW w \in Workers, ClaimRefused(w) \/ ClaimRolledBack(w) \/ Crash(w)
      PROVE  Told(u)'
  BY <1>1, <1>2, <1>7 DEF ClaimRefused, ClaimRolledBack, Crash, local
<1>8. ASSUME NEW w \in Workers, Execute(w) PROVE Told(u)'
  <2>1. CASE Stop(w)
    BY <1>2, <2>1
  <2>2. CASE ~Stop(w)
    <3>1. /\ UNCHANGED seen /\ pc[w] \in {"running", "calling", "ready"}
          /\ \E label \in Unread : pc' = [pc EXCEPT ![w] = label]
      <4>1. CASE Checkpoint(w)
        <5>1. PICK s \in Advance(st[w]) :
                IF s.node = Finished
                  THEN \E status \in ClosedStatus : CloseAs(w, status)
                  ELSE pc' = [pc EXCEPT ![w] = "running"] /\ UNCHANGED outcome
          BY <4>1 DEF Checkpoint
        <5>2. pc' = [pc EXCEPT ![w] = "running"] \/ pc' = [pc EXCEPT ![w] = "closeRun"]
          BY <5>1 DEF CloseAs
        <5> QED
          BY <4>1, <5>2 DEF Checkpoint, NodeDone, Executing, Unread
      <4>2. CASE ~Checkpoint(w)
        BY <1>8, <2>2, <4>2 DEF Execute, BudgetStop, NothingToExecute, CallClaim,
             CallAnswered, CallSucceeds, CallFails, OutputRejected,
             CheckpointConflict, NodeDone, Executing, Goto, GiveUp, CloseAs, Unread
      <4> QED
        BY <4>1, <4>2
    <3>2. CASE u = w
      <4>1. seen'[u] = Nothing /\ pc'[u] \in Unread
        BY <1>0, <3>1, <3>2 DEF Told, Unread
      <4> QED
        BY <3>1, <3>2, <4>1, TellingKept
    <3>3. CASE u # w
      BY <1>0, <1>1, <3>1, <3>3
    <3> QED
      BY <3>2, <3>3
  <2> QED
    BY <2>1, <2>2
<1>9. ASSUME NEW w \in Workers, End(w) PROVE Told(u)'
  <2>1. CASE Stop(w)
    BY <1>2, <2>1
  <2>2. CASE ~Stop(w) /\ u = w
    <3>1. /\ UNCHANGED rows
          /\ \/ CloseReadRun(w) \/ CloseReadJob(w) \/ CloseReadCase(w)
             \/ FailReadRun(w) \/ DeferReadRun(w) \/ DeferReadJob(w)
      BY <1>9, <2>2 DEF End, CloseReadRun, CloseReadJob, CloseReadCase, FailReadRun,
           DeferReadRun, DeferReadJob, CloseCommit, FailCommit, DeferCommit,
           ExhaustCommit
    <3> QED
      BY <2>2, <3>1, ReadingTold
  <2>3. CASE ~Stop(w) /\ u # w
    <3>1. \E label, columns : Reads(w, label, columns)
      BY <1>9, <2>3, EndsReading
    <3> QED
      BY <1>0, <1>1, <2>3, <3>1 DEF Reads
  <2> QED
    BY <2>1, <2>2, <2>3
<1>10. CASE UNCHANGED vars
  BY <1>1, <1>10 DEF vars
<1> QED
  BY <1>3, <1>4, <1>5, <1>6, <1>7, <1>8, <1>9, <1>10 DEF Next, Claim

-----------------------------------------------------------------------------
(* Resuming *)

(***************************************************************************)
(* A recorded state stays recorded as the history grows.                   *)
(***************************************************************************)
LEMMA StaysRecorded ==
  ASSUME log \in Seq(State), NEW s \in State, Recorded(s),
         NEW t, log' = Append(log, t)
  PROVE  /\ s.version <= Len(log')
         /\ s = IF s.version = 0 THEN FirstState ELSE log'[s.version]
<1>1. s.version \in Nat
  BY BoundsAssumption DEF State, Version, MaxVersion
<1>2. s.version <= Len(log) /\ s = StateAt(s.version)
  BY DEF Recorded
<1>3. Len(log') = Len(log) + 1 /\ \A v \in 1 .. Len(log) : log'[v] = log[v]
  BY <1>1
<1> QED
  BY <1>1, <1>2, <1>3 DEF StateAt

(***************************************************************************)
(* The state before the first step is recorded.                            *)
(***************************************************************************)
LEMMA FirstRecorded == log \in Seq(State) => Recorded(FirstState)
BY DEF Recorded, StateAt, FirstState

(***************************************************************************)
(* While the history stays, workers that keep their state and place, go on *)
(* or forget it hold a recorded one, and a case that is open as before     *)
(* resumes from the snapshot it had.                                       *)
(***************************************************************************)
LEMMA ResumingKept ==
  ASSUME TypeOK, ResumesFromHistory, UNCHANGED log,
         ClaimableCase' => ClaimableCase /\ run'.snapshot = run.snapshot,
         \A w \in Workers :
           \/ st'[w] = FirstState
           \/ /\ st'[w] = st[w]
              /\ pc[w] = "claimFlush" => pc'[w] = "claimFlush"
  PROVE  ResumesFromHistory'
<1>1. log \in Seq(State)
  BY DEF TypeOK, HistoryOK
<1>2. Recorded(FirstState) /\ \A s : Recorded(s)' <=> Recorded(s)
  BY <1>1, FirstRecorded DEF Recorded, StateAt
<1>3. ASSUME NEW w \in Workers PROVE pc'[w] # "claimFlush" \/ ClaimableCase' => Recorded(st'[w])
  BY <1>2 DEF ResumesFromHistory
<1>4. ClaimableCase' => Recorded(run'.snapshot)
  BY DEF ResumesFromHistory
<1> QED
  BY <1>2, <1>3, <1>4 DEF ResumesFromHistory, Recorded, StateAt

(***************************************************************************)
(* Every step leaves memory and snapshot in the history.                   *)
(***************************************************************************)
LEMMA ResumesNext == IInv /\ [Next]_vars => ResumesFromHistory'
<1> SUFFICES ASSUME IInv, [Next]_vars PROVE ResumesFromHistory'
  OBVIOUS
<1>0. /\ TypeOK /\ ResumesFromHistory /\ log \in Seq(State) /\ st \in [Workers -> State]
      /\ pc \in [Workers -> Control]
      /\ run \in [status: RunStatus, version: Version, snapshot: State, lease: Lease]
  BY DEF IInv, TypeOK, HistoryOK, LocalOK, RowsOK
<1> USE <1>0 DEF rows, history, local
<1>c. UNCHANGED caseStatus => (ClaimableCase' <=> ClaimableCase)
  BY DEF ClaimableCase
<1>r. UNCHANGED log => \A s : Recorded(s)' <=> Recorded(s)
  BY DEF Recorded, StateAt
<1>1. CASE Environment
  <2>1. UNCHANGED <<log, caseStatus, st, pc>> /\ run'.snapshot = run.snapshot
    BY <1>1 DEF Environment, Prepare, Resubmit, Requeue, Enqueue, QueueLost, Retry,
                LeaseExpires, CallLeaseExpires
  <2> QED
    BY <1>c, <2>1, ResumingKept
<1>2. ASSUME NEW w \in Workers,
             ClaimReadJob(w) \/ ClaimRefused(w) \/ ClaimRolledBack(w)
      PROVE  ResumesFromHistory'
  <2>1. UNCHANGED <<log, caseStatus, run>>
    BY <1>2 DEF ClaimReadJob, ClaimRefused, ClaimRolledBack
  <2>2. ASSUME NEW u \in Workers
        PROVE  \/ st'[u] = FirstState
               \/ st'[u] = st[u] /\ (pc[u] = "claimFlush" => pc'[u] = "claimFlush")
    BY <1>2 DEF ClaimReadJob, ClaimRefused, ClaimRolledBack, Receive, Stop
  <2> QED
    BY <1>c, <2>1, <2>2, ResumingKept
<1>3. ASSUME NEW w \in Workers, ClaimReadRun(w) PROVE ResumesFromHistory'
  <2>1. UNCHANGED <<log, caseStatus, run>>
    BY <1>3 DEF ClaimReadRun
  <2>2. CASE ~ClaimableRun
    BY <1>3, <1>c, <2>1, <2>2, ResumingKept DEF ClaimReadRun, Stop
  <2>3. CASE ClaimableRun
    <3>1. /\ pc' = [pc EXCEPT ![w] = "claimFlush"]
          /\ st' = [st EXCEPT ![w] = run.snapshot]
      BY <1>3, <2>3 DEF ClaimReadRun
    <3>2. ASSUME NEW u \in Workers
          PROVE  pc'[u] # "claimFlush" \/ ClaimableCase => Recorded(st'[u])
      BY <3>1 DEF ResumesFromHistory
    <3> QED
      BY <1>c, <1>r, <2>1, <3>2 DEF ResumesFromHistory, Recorded, StateAt
  <2> QED
    BY <2>2, <2>3
<1>4. ASSUME NEW w \in Workers, ClaimCommit(w) PROVE ResumesFromHistory'
  <2>1. /\ run'.snapshot = st[w] /\ UNCHANGED <<log, st>>
        /\ ClaimableCase /\ pc' = [pc EXCEPT ![w] = "running"]
    BY <1>4 DEF ClaimCommit, MayCommit
  <2>2. ASSUME NEW u \in Workers PROVE Recorded(st[u])
    BY <2>1 DEF ResumesFromHistory
  <2> QED
    BY <1>r, <2>1, <2>2 DEF ResumesFromHistory, Recorded, StateAt
<1>5. ASSUME NEW w \in Workers, Execute(w), ~Checkpoint(w)
      PROVE  ResumesFromHistory'
  <2>1. UNCHANGED <<log, caseStatus, run>>
    BY <1>5 DEF Execute, BudgetStop, NothingToExecute, CallClaim, CallAnswered,
                CallSucceeds, CallFails, OutputRejected, CheckpointConflict
  <2>2. ASSUME NEW u \in Workers
        PROVE  \/ st'[u] = FirstState
               \/ st'[u] = st[u] /\ (pc[u] = "claimFlush" => pc'[u] = "claimFlush")
    BY <1>5 DEF Execute, BudgetStop, NothingToExecute, CallClaim, CallAnswered,
                CallSucceeds, CallFails, OutputRejected, CheckpointConflict,
                Executing, NodeDone, Goto, GiveUp, CloseAs, Stop
  <2> QED
    BY <1>c, <2>1, <2>2, ResumingKept
<1>6. ASSUME NEW w \in Workers, Checkpoint(w) PROVE ResumesFromHistory'
  <2>1. PICK s \in State :
          /\ s.version = Len(log) + 1
          /\ log' = Append(log, s)
          /\ run' = [run EXCEPT !.version = s.version, !.snapshot = s, !.lease = "live"]
          /\ st' = [st EXCEPT ![w] = s]
          /\ IF s.node = Finished
               THEN \E status \in ClosedStatus : CloseAs(w, status)
               ELSE pc' = [pc EXCEPT ![w] = "running"] /\ UNCHANGED outcome
    BY <1>6, HistoryGrows
  <2>2. Recorded(s)'
    BY <2>1 DEF Recorded, StateAt
  <2>3. /\ ClaimableCase' <=> ClaimableCase
        /\ \A u \in Workers \ {w} : pc'[u] = pc[u]
    BY <1>6, <1>c, <2>1 DEF Checkpoint, CloseAs
  <2>4. ASSUME NEW u \in Workers
        PROVE  pc'[u] # "claimFlush" \/ ClaimableCase => Recorded(st[u])'
    <3>1. CASE u = w
      BY <2>1, <2>2, <3>1
    <3>2. CASE u # w /\ (pc'[u] # "claimFlush" \/ ClaimableCase)
      <4>1. st'[u] = st[u] /\ st[u] \in State /\ Recorded(st[u])
        BY <2>1, <2>3, <3>2 DEF ResumesFromHistory
      <4>2. /\ st[u].version <= Len(log')
            /\ st[u] = IF st[u].version = 0 THEN FirstState ELSE log'[st[u].version]
        BY <2>1, <4>1, StaysRecorded
      <4> QED
        BY <4>1, <4>2 DEF Recorded, StateAt
    <3> QED
      BY <3>1, <3>2
  <2>5. run'.snapshot = s
    BY <2>1
  <2> QED
    BY <2>2, <2>3, <2>4, <2>5 DEF ResumesFromHistory, Recorded, StateAt
<1>7. ASSUME NEW w \in Workers, CloseCommit(w) \/ FailCommit(w) \/ ExhaustCommit(w)
      PROVE  ResumesFromHistory'
  <2>1. ~ClaimableCase' /\ UNCHANGED log /\ Stop(w)
    BY <1>7, EndsClose DEF CloseCommit, FailCommit, ExhaustCommit
  <2> QED
    BY <2>1, ResumingKept DEF Stop
<1>8. ASSUME NEW w \in Workers, DeferCommit(w) PROVE ResumesFromHistory'
  <2>1. UNCHANGED <<log, caseStatus>> /\ run'.snapshot = run.snapshot /\ Stop(w)
    BY <1>8 DEF DeferCommit
  <2> QED
    BY <1>c, <2>1, ResumingKept DEF Stop
<1>9. ASSUME NEW w \in Workers, UNCHANGED rows, UNCHANGED history, End(w) \/ Crash(w)
      PROVE  ResumesFromHistory'
  <2>1. ASSUME NEW u \in Workers
        PROVE  \/ st'[u] = FirstState
               \/ st'[u] = st[u] /\ (pc[u] = "claimFlush" => pc'[u] = "claimFlush")
    BY <1>9, EndsReading DEF Crash, Stop, Reads
  <2> QED
    BY <1>9, <1>c, <2>1, ResumingKept
<1>10. ASSUME NEW w \in Workers, End(w),
              ~CloseCommit(w), ~FailCommit(w), ~DeferCommit(w), ~ExhaustCommit(w)
       PROVE  UNCHANGED rows /\ UNCHANGED history
  BY <1>10 DEF End, CloseReadRun, CloseReadJob, CloseReadCase, FailReadRun, DeferReadRun,
               DeferReadJob
<1>11. CASE UNCHANGED vars
  BY <1>11, <1>c, ResumingKept DEF vars
<1> QED
  BY <1>1, <1>2, <1>3, <1>4, <1>5, <1>6, <1>7, <1>8, <1>9, <1>10, <1>11
     DEF Next, Claim, Crash

(***************************************************************************)
(* A step completes a run only with the last state of the history, and     *)
(* that is a state that DECIDE led to.                                     *)
(***************************************************************************)
LEMMA RoundsNext == IInv /\ [Next]_vars => RoundsBounded'
<1> SUFFICES ASSUME IInv, [Next]_vars PROVE RoundsBounded'
  OBVIOUS
<1>0. /\ TypeOK /\ RowsOK /\ VersionsPlaced /\ WorkersKnow /\ ResumesFromHistory
      /\ RoundsBounded
  BY DEF IInv, TypeOK
<1>1. log \in Seq(State) /\ log' \in Seq(State)
  BY <1>0, TypeNext DEF TypeOK, HistoryOK
<1>2. ASSUME NEW v \in 1 .. Len(log') PROVE log'[v].iteration <= MaxIterations
  <2>1. log'[v] \in State
    BY <1>1
  <2>2. log'[v].iteration \in 0 .. MaxIterations
    BY <2>1 DEF State
  <2> QED
    BY <2>2, BoundsAssumption
<1> DEFINE Completed == run.status = "COMPLETED" /\ UNCHANGED log
<1>3. ASSUME run'.status = "COMPLETED"
      PROVE  UNCHANGED log /\ StateAt(Len(log)).node = Finished
  <2> USE <1>0, <1>3 DEF rows, history
  <2>1. Completed => UNCHANGED log /\ StateAt(Len(log)).node = Finished
    BY DEF RoundsBounded
  <2>2. CASE Environment
    <3>1. Completed
      BY <2>2 DEF Environment, Prepare, Resubmit, Requeue, Enqueue, QueueLost, Retry,
                  LeaseExpires, CallLeaseExpires, RowsOK
    <3> QED
      BY <2>1, <3>1
  <2>3. ASSUME NEW w \in Workers, Claim(w) PROVE Completed
    <3>1. ASSUME ClaimCommit(w) PROVE Completed
      <4>1. run'.status = Written(w, "run", run.status, "RUNNING")
        BY <3>1, CommitWrites
      <4>2. run'.status \in {run.status, "RUNNING"}
        BY <4>1, WrittenIs
      <4> QED
        BY <3>1, <4>2 DEF ClaimCommit
    <3> QED
      BY <2>3, <3>1 DEF Claim, ClaimReadJob, ClaimRefused, ClaimReadRun, ClaimRolledBack
  <2>4. ASSUME NEW w \in Workers, Execute(w) PROVE Completed
    <3>1. ~Checkpoint(w)
      BY DEF Checkpoint, HoldsCurrentVersion, RowsOK
    <3> QED
      BY <2>4, <3>1 DEF Execute, BudgetStop, NothingToExecute, CallClaim,
           CallAnswered, CallSucceeds, CallFails, OutputRejected, CheckpointConflict
  <2>5. ASSUME NEW w \in Workers, CloseCommit(w), ~Completed
        PROVE  UNCHANGED log /\ StateAt(Len(log)).node = Finished
    <3>1. pc[w] = "closeFlush" /\ UNCHANGED log
      BY <2>5 DEF CloseCommit
    <3>2. run'.status \in {run.status, outcome[w]}
      BY <2>5, CommitWrites, WrittenIs
    <3>3. outcome[w] = "COMPLETED"
      BY <2>5, <3>1, <3>2
    <3>4. st[w].node = Finished
      BY <3>1, <3>3 DEF WorkersKnow, Knows, Closing
    <3>5. st[w].version \in 0 .. Len(log) /\ st[w] = StateAt(st[w].version)
      BY <3>1, Remembered DEF ResumesFromHistory, Recorded
    <3>6. st[w].version # 0
      BY <3>4, <3>5 DEF StateAt, FirstState, Finished
    <3>7. st[w].version \in 1 .. Len(log) /\ log[st[w].version].node = Finished
      BY <1>1, <3>4, <3>5, <3>6 DEF StateAt
    <3>8. st[w].version = Len(log)
      BY <1>1, <3>7 DEF VersionsPlaced
    <3> QED
      BY <3>1, <3>4, <3>5, <3>8
  <2>6. ASSUME NEW w \in Workers,
               FailCommit(w) \/ ExhaustCommit(w) \/ DeferCommit(w) \/ Crash(w)
        PROVE  Completed
    <3>1. ~Crash(w) => run'.status \in {run.status, "FAILED", "PENDING"}
      BY <2>6, CommitWrites, WrittenIs
    <3> QED
      BY <2>6, <3>1 DEF FailCommit, ExhaustCommit, DeferCommit, Crash
  <2>7. ASSUME NEW w \in Workers,
               \/ CloseReadRun(w) \/ CloseReadJob(w) \/ CloseReadCase(w)
               \/ FailReadRun(w) \/ DeferReadRun(w) \/ DeferReadJob(w)
        PROVE  Completed
    BY <2>7 DEF CloseReadRun, CloseReadJob, CloseReadCase, FailReadRun, DeferReadRun,
                DeferReadJob
  <2>8. CASE UNCHANGED vars
    BY <2>1, <2>8 DEF vars
  <2> QED
    BY <2>1, <2>2, <2>3, <2>4, <2>5, <2>6, <2>7, <2>8 DEF Next, End
<1> QED
  BY <1>2, <1>3 DEF RoundsBounded, StateAt

-----------------------------------------------------------------------------
(* The one process *)

(***************************************************************************)
(* A commit is the next step of the walk, taken while the run is running   *)
(* and within its budget; what it finds is named by the step that verified *)
(* it.                                                                     *)
(***************************************************************************)
LEMMA CheckpointIsStep ==
  ASSUME IInv, NEW w \in Workers, Checkpoint(w)
  PROVE  Agent!Step
<1> DEFINE last == StateAt(Len(log))
<1>0. /\ TypeOK
      /\ run \in [status: RunStatus, version: Version, snapshot: State, lease: Lease]
      /\ log \in Seq(State) /\ Len(log) \in Nat
  BY DEF IInv, TypeOK, RowsOK, HistoryOK
<1>1. PICK s \in State :
        /\ s \in Advance(last)
        /\ s.version = Len(log) + 1
        /\ log' = Append(log, s)
        /\ evidence' = s.evidence
        /\ run' = [run EXCEPT !.version = s.version, !.snapshot = s, !.lease = "live"]
  BY HistoryGrows
<1>2. NodeDone(w) /\ HoldsCurrentVersion(w)
  BY DEF Checkpoint
<1>3. st[w] \in State /\ st[w] = last /\ last.version = Len(log)
  BY <1>2, Remembered DEF NodeDone, Executing, HoldsCurrentVersion, IInv, OneHistory, ResumesFromHistory,
                          Recorded
<1>4. last.node # Finished /\ ~Exhausted(last)
  BY <1>2, <1>3 DEF NodeDone, Executing, IInv, WorkersKnow, Knows
<1>5. /\ run.status = "RUNNING" /\ run'.status = run.status
      /\ ClaimableCase /\ ClaimableCase'
  BY <1>0, <1>1, <1>2 DEF HoldsCurrentVersion, IInv, CaseGatesRun, ClaimableCase, Checkpoint
<1>6. last.node \in {"PLAN", "DECIDE"} => last.iteration < MaxIterations
  <2>1. last.iteration \in Nat /\ MaxIterations \in Nat
    BY <1>3, BoundsAssumption DEF State
  <2> QED
    BY <1>4, <2>1 DEF Exhausted
<1>7. /\ s.node \in AllowedTransitions[last.node]
      /\ s.iteration = IF last.node = "PLAN" THEN last.iteration + 1 ELSE last.iteration
      /\ \/ s.evidence = last.evidence
         \/ last.node = "VERIFY" /\ s.evidence = last.evidence \cup {last.version}
  BY <1>1, <1>3, AdvanceFields
<1>8. Len(log') = Len(log) + 1 /\ StateAt(Len(log))' = s
  BY <1>0, <1>1 DEF StateAt
<1>9. evidence = last.evidence
  BY DEF IInv, EvidenceIsAccounted
<1> HIDE DEF last
<1>10. \/ evidence' = evidence
       \/ last.node = "VERIFY" /\ evidence' = evidence \cup {Len(log)}
  BY <1>1, <1>3, <1>7, <1>9
<1> USE DEF last
<1> QED
  BY <1>4, <1>5, <1>6, <1>7, <1>8, <1>10 DEF Agent!Step, Agent!WithinBudget

(***************************************************************************)
(* Every step is one of the one process, or none its readers see: what     *)
(* interleaves, races and dies is either a change of the run's status that *)
(* leaves the walk alone, or nothing.                                      *)
(***************************************************************************)
LEMMA AgentStep ==
  IInv /\ [Next]_vars => [Agent!Next]_<<run.status, ClaimableCase, Agent!walk>>
<1> SUFFICES ASSUME IInv, [Next]_vars
             PROVE  Agent!Next \/ UNCHANGED <<run.status, ClaimableCase, Agent!walk>>
  OBVIOUS
<1>0. TypeOK /\ CaseGatesRun
  BY DEF IInv
<1>1. ASSUME NEW w \in Workers, Checkpoint(w) PROVE Agent!Next
  BY <1>1, CheckpointIsStep DEF Agent!Next
<1>2. CASE ~(\E w \in Workers : Checkpoint(w))
  <2>1. UNCHANGED Agent!walk
    BY <1>0, <1>2, HistoryStays DEF Agent!walk, StateAt
  <2>2. CASE Prepare
    <3>1. run.status = "ABSENT" /\ run'.status = "PENDING"
      BY <1>0, <2>2 DEF Prepare, TypeOK, RowsOK
    <3>2. ClaimableCase' = ClaimableCase
      BY <2>2 DEF Prepare, ClaimableCase
    <3> QED
      BY <2>1, <3>1, <3>2 DEF Agent!Next, Agent!Prepare
  <2>3. ASSUME NEW w \in Workers, ClaimCommit(w)
        PROVE  Agent!Next \/ UNCHANGED <<run.status, ClaimableCase, Agent!walk>>
    <3>1. run.status # "ABSENT" /\ ClaimableCase
      BY <2>3 DEF ClaimCommit, MayCommit, IInv, RowsTold, Told
    <3>2. run.status \in {"PENDING", "RUNNING"}
      BY <1>0, <3>1 DEF CaseGatesRun
    <3>3. ClaimableCase' = ClaimableCase
      BY <2>3, <3>1 DEF ClaimCommit, ClaimableCase
    <3>4. run'.status = run.status \/ run'.status = "RUNNING"
      BY <1>0, <2>3, CommitWrites, WrittenIs
    <3> QED
      BY <2>1, <3>1, <3>2, <3>3, <3>4 DEF Agent!Next, Agent!Work
  <2>4. ASSUME NEW w \in Workers, CloseCommit(w) \/ FailCommit(w) \/ ExhaustCommit(w)
        PROVE  Agent!Next \/ UNCHANGED <<run.status, ClaimableCase, Agent!walk>>
    <3>1. /\ run.status # "ABSENT" /\ ~ClaimableCase'
          /\ \/ run'.status \notin {"ABSENT", "PENDING", "RUNNING"}
             \/ ~ClaimableCase /\ run'.status = run.status
      BY <2>4, EndsClose
    <3>2. run'.status \in RunStatus
      BY TypeNext DEF TypeOK, RowsOK
    <3>3. run'.status = "COMPLETED" => StateAt(Len(log)).node = Finished
      <4>1. run'.status = "COMPLETED" => StateAt(Len(log))'.node = Finished
        BY RoundsNext DEF RoundsBounded
      <4> QED
        BY <2>1, <4>1 DEF Agent!walk
    <3>4. CASE ~ClaimableCase /\ run'.status = run.status
      BY <2>1, <3>1, <3>4 DEF ClaimableCase
    <3>5. CASE run'.status = "COMPLETED"
      BY <2>1, <3>1, <3>3, <3>5 DEF Agent!Next, Agent!Complete, ClaimableCase
    <3>6. CASE run'.status \in {"FAILED", "NEEDS_HUMAN_REVIEW"}
      BY <2>1, <3>1, <3>6 DEF Agent!Next, Agent!Interrupt, ClaimableCase
    <3> QED
      BY <3>1, <3>2, <3>4, <3>5, <3>6 DEF RunStatus, ClosedStatus
  <2>5. ASSUME NEW w \in Workers, DeferCommit(w)
        PROVE  Agent!Next \/ UNCHANGED <<run.status, ClaimableCase, Agent!walk>>
    <3>1. run.status # "ABSENT" /\ UNCHANGED caseStatus
      BY <2>5 DEF DeferCommit, IInv, RowsTold, Told
    <3>2. run'.status = run.status \/ run'.status = "PENDING"
      BY <1>0, <2>5, CommitWrites, WrittenIs
    <3>3. ClaimableCase' = ClaimableCase
      BY <3>1 DEF ClaimableCase
    <3> QED
      BY <2>1, <3>1, <3>2, <3>3 DEF Agent!Next, Agent!Defer
  <2>6. CASE ~Prepare /\ \A w \in Workers : ~Commits(w)
    <3>1. run'.status = run.status /\ caseStatus' = caseStatus
      BY <1>0, <2>6, StatusesKept
    <3> QED
      BY <2>1, <3>1 DEF ClaimableCase
  <2> QED
    BY <2>2, <2>3, <2>4, <2>5, <2>6 DEF Commits
<1> QED
  BY <1>1, <1>2

-----------------------------------------------------------------------------
(* The audit *)

Answers == {"success", "failed"}

\* Who waits for an answer asked for it, and who goes on has it.
Asked(w) ==
  /\ pc[w] \in {"calling", "ready"} => NeedsCall(st[w])
  /\ pc[w] = "ready" => calls[st[w].version] \in Answers

AuditInv == CallsMatchHistory /\ \A w \in Workers : Asked(w)

(***************************************************************************)
(* What a step may do to the row of a call: an answer is not taken back,   *)
(* and a row appears only where the history asks for it.                   *)
(***************************************************************************)
CallsMove ==
  \A v \in Version :
    /\ calls[v] \in Answers => calls'[v] \in Answers
    /\ calls[v] = "absent" /\ calls'[v] # "absent" =>
         v <= Len(log) /\ NeedsCall(StateAt(v))

(***************************************************************************)
(* Every step moves the rows of the calls so.                              *)
(***************************************************************************)
LEMMA CallsNext == IInv /\ AuditInv /\ [Next]_vars => CallsMove
<1> SUFFICES ASSUME IInv, AuditInv, [Next]_vars PROVE CallsMove
  OBVIOUS
<1>0. TypeOK /\ calls \in [Version -> CallStatus] /\ st \in [Workers -> State]
  BY DEF IInv, TypeOK, QueueOK, LocalOK
<1>1. UNCHANGED calls => CallsMove
  BY DEF CallsMove
<1>2. ASSUME NEW w \in Workers, pc[w] # "claimFlush", NeedsCall(st[w]),
             NEW c \in {"leased"} \cup Answers,
             calls' = [calls EXCEPT ![st[w].version] = c],
             c = "leased" => calls[st[w].version] \notin Answers
      PROVE  CallsMove
  <2>1. Recorded(st[w]) /\ st[w].version \in Version
    BY <1>0, <1>2 DEF IInv, ResumesFromHistory, State
  <2>2. st[w].version <= Len(log) /\ NeedsCall(StateAt(st[w].version))
    BY <1>2, <2>1 DEF Recorded
  <2>3. ASSUME NEW v \in Version, v # st[w].version PROVE calls'[v] = calls[v]
    BY <1>0, <1>2, <2>3
  <2>4. calls'[st[w].version] = c
    BY <1>0, <1>2, <2>1
  <2> QED
    BY <1>2, <2>2, <2>3, <2>4 DEF CallsMove
<1>3. CASE Environment
  <2>1. ASSUME NEW v \in Version, CallLeaseExpires(v) PROVE CallsMove
    BY <1>0, <2>1 DEF CallLeaseExpires, CallsMove, Answers
  <2> QED
    BY <1>1, <1>3, <2>1 DEF Environment, Prepare, Resubmit, Requeue, Enqueue,
                            QueueLost, Retry, LeaseExpires
<1>4. ASSUME NEW w \in Workers, Claim(w) PROVE CallsMove
  BY <1>1, <1>4 DEF Claim, ClaimReadJob, ClaimRefused, ClaimReadRun, ClaimCommit,
                    ClaimRolledBack
<1>5. ASSUME NEW w \in Workers, CallClaim(w) PROVE CallsMove
  BY <1>2, <1>5 DEF CallClaim, Executing, Answers
<1>6. ASSUME NEW w \in Workers, CallSucceeds(w) \/ CallFails(w) PROVE CallsMove
  <2>1. NeedsCall(st[w])
    BY <1>6 DEF CallSucceeds, CallFails, AuditInv, Asked
  <2> QED
    BY <1>2, <1>6, <2>1 DEF CallSucceeds, CallFails, Answers
<1>7. ASSUME NEW w \in Workers, Execute(w),
             ~CallClaim(w), ~CallSucceeds(w), ~CallFails(w)
      PROVE  CallsMove
  BY <1>1, <1>7 DEF Execute, BudgetStop, NothingToExecute, CallAnswered,
                    OutputRejected, Checkpoint, CheckpointConflict
<1>8. ASSUME NEW w \in Workers, End(w) \/ Crash(w) PROVE CallsMove
  BY <1>1, <1>8 DEF End, CloseReadRun, CloseReadJob, CloseReadCase, CloseCommit,
       FailReadRun, FailCommit, DeferReadRun, DeferReadJob, DeferCommit, ExhaustCommit,
       Crash
<1>9. CASE UNCHANGED vars
  BY <1>1, <1>9 DEF vars
<1> QED
  BY <1>3, <1>4, <1>5, <1>6, <1>7, <1>8, <1>9 DEF Next

(***************************************************************************)
(* A worker waits for an answer it asked for, and goes on with one that is *)
(* there and stays there.                                                  *)
(***************************************************************************)
LEMMA AskedNext ==
  IInv /\ AuditInv /\ [Next]_vars => \A w \in Workers : Asked(w)'
<1> SUFFICES ASSUME IInv, AuditInv, [Next]_vars, NEW u \in Workers PROVE Asked(u)'
  OBVIOUS
<1>0. /\ TypeOK /\ LocalOK
      /\ calls \in [Version -> CallStatus] /\ st[u].version \in Version
  BY DEF IInv, TypeOK, QueueOK, LocalOK, State
<1>1. ASSUME (pc'[u] = pc[u] /\ st'[u] = st[u]) \/ pc'[u] \notin {"calling", "ready"}
      PROVE  Asked(u)'
  BY <1>0, <1>1, CallsNext DEF CallsMove, AuditInv, Asked, NeedsCall
<1> USE <1>0 DEF LocalOK
<1>2. CASE Environment
  BY <1>1, <1>2 DEF Environment, Prepare, Resubmit, Requeue, Enqueue, QueueLost, Retry,
                    LeaseExpires, CallLeaseExpires, local
<1>3. ASSUME NEW w \in Workers, Claim(w) PROVE Asked(u)'
  BY <1>1, <1>3 DEF Claim, ClaimReadJob, ClaimRefused, ClaimReadRun, ClaimCommit,
                    ClaimRolledBack, Stop, local
<1>4. ASSUME NEW w \in Workers,
             BudgetStop(w) \/ NothingToExecute(w) \/ CallFails(w)
               \/ OutputRejected(w) \/ CheckpointConflict(w)
      PROVE  Asked(u)'
  BY <1>1, <1>4 DEF BudgetStop, NothingToExecute, CallFails, OutputRejected,
                    CheckpointConflict, GiveUp, CloseAs, Stop
<1>5. ASSUME NEW w \in Workers, CallClaim(w) \/ CallSucceeds(w) PROVE Asked(u)'
  <2>1. CASE u = w
    BY <1>5, <2>1 DEF CallClaim, CallSucceeds, Goto, AuditInv, Asked, Answers, NeedsCall
  <2>2. CASE u # w
    BY <1>1, <1>5, <2>2 DEF CallClaim, CallSucceeds, Goto
  <2> QED
    BY <2>1, <2>2
<1>6. ASSUME NEW w \in Workers, CallAnswered(w) PROVE Asked(u)'
  <2>1. CASE u = w /\ Goto(w, "ready") /\ calls[st[w].version] = "success"
    BY <1>6, <2>1 DEF CallAnswered, Goto, Asked, Answers, NeedsCall
  <2>2. CASE ~(u = w /\ Goto(w, "ready") /\ calls[st[w].version] = "success")
    BY <1>1, <1>6, <2>2 DEF CallAnswered, Goto, GiveUp, CloseAs
  <2> QED
    BY <2>1, <2>2
<1>7. ASSUME NEW w \in Workers, Checkpoint(w) PROVE Asked(u)'
  <2>1. PICK s \in State :
          /\ st' = [st EXCEPT ![w] = s]
          /\ IF s.node = Finished
               THEN \E status \in ClosedStatus : CloseAs(w, status)
               ELSE pc' = [pc EXCEPT ![w] = "running"] /\ UNCHANGED outcome
    BY <1>7, HistoryGrows
  <2>2. pc' = [pc EXCEPT ![w] = "running"] \/ pc' = [pc EXCEPT ![w] = "closeRun"]
    BY <2>1 DEF CloseAs
  <2> QED
    BY <1>1, <2>1, <2>2
<1>8. ASSUME NEW w \in Workers, End(w) \/ Crash(w) PROVE Asked(u)'
  <2>1. CASE Stop(w)
    BY <1>1, <2>1 DEF Stop
  <2>2. CASE ~Stop(w)
    <3>1. PICK label \in {"closeJob", "closeCase", "closeFlush", "failFlush", "deferJob",
                         "deferFlush", "exhaustFlush"} : \E columns : Reads(w, label, columns)
      BY <1>8, <2>2, EndsReading DEF Crash
    <3> QED
      BY <1>1, <3>1 DEF Reads
  <2> QED
    BY <2>1, <2>2
<1>9. CASE UNCHANGED vars
  BY <1>1, <1>9 DEF vars
<1> QED
  BY <1>2, <1>3, <1>4, <1>5, <1>6, <1>7, <1>8, <1>9 DEF Next, Execute

(***************************************************************************)
(* Every step keeps the calls and the history matched: rows appear only    *)
(* where the history asks, and a step that asks is committed only once its *)
(* answer is there.                                                        *)
(***************************************************************************)
LEMMA AuditNext == IInv /\ AuditInv /\ [Next]_vars => AuditInv'
<1> SUFFICES ASSUME IInv, AuditInv, [Next]_vars PROVE CallsMatchHistory'
  BY AskedNext DEF AuditInv
<1>0. /\ TypeOK /\ log \in Seq(State) /\ Len(log) \in Nat
      /\ CallsMove /\ CallsMatchHistory
      /\ \A v \in Version : v \in Nat
      /\ \A v \in Version : calls[v] \in Answers => calls[v] # "absent"
  BY CallsNext, BoundsAssumption
     DEF IInv, TypeOK, HistoryOK, AuditInv, Version, MaxVersion, Answers
<1>1. CASE ~(\E w \in Workers : Checkpoint(w))
  <2>1. UNCHANGED log
    BY <1>0, <1>1, HistoryStays
  <2> QED
    BY <1>0, <2>1 DEF CallsMatchHistory, CallsMove, StateAt, NeedsCall, Answers
<1>2. ASSUME NEW w \in Workers, Checkpoint(w) PROVE CallsMatchHistory'
  <2>1. PICK s \in State : log' = Append(log, s)
    BY <1>2, HistoryGrows
  <2>2. Len(log') = Len(log) + 1 /\ \A v \in 1 .. Len(log) : log'[v] = log[v]
    BY <1>0, <2>1
  <2>3. ASSUME NEW v \in Version, v <= Len(log)
        PROVE  (IF v = 0 THEN FirstState ELSE log'[v]) = StateAt(v)
    BY <1>0, <2>2, <2>3 DEF StateAt
  <2>4. UNCHANGED calls
    BY <1>2 DEF Checkpoint
  <2>5. NodeDone(w) /\ HoldsCurrentVersion(w)
    BY <1>2 DEF Checkpoint
  <2>6. st[w].version = Len(log) /\ st[w] = StateAt(Len(log))
    BY <2>5 DEF NodeDone, Executing, HoldsCurrentVersion, IInv, OneHistory, ResumesFromHistory, Recorded
  <2>7. NeedsCall(StateAt(Len(log))) => calls[Len(log)] \in Answers
    BY <2>5, <2>6 DEF NodeDone, AuditInv, Asked
  <2>8. ASSUME NEW v \in Version
        PROVE  /\ calls[v] # "absent" =>
                    v <= Len(log') /\ NeedsCall(IF v = 0 THEN FirstState ELSE log'[v])
               /\ v < Len(log') /\ NeedsCall(IF v = 0 THEN FirstState ELSE log'[v]) =>
                    calls[v] \in {"success", "failed"}
    <3>1. v < Len(log') => v < Len(log) \/ v = Len(log)
      BY <1>0, <2>2
    <3>2. v <= Len(log) => v <= Len(log')
      BY <1>0, <2>2
    <3>3. v < Len(log) => v <= Len(log)
      BY <1>0
    <3> QED
      BY <1>0, <2>3, <2>7, <3>1, <3>2, <3>3 DEF CallsMatchHistory, Answers
  <2> QED
    BY <2>4, <2>8 DEF CallsMatchHistory, StateAt, NeedsCall
<1> QED
  BY <1>1, <1>2

-----------------------------------------------------------------------------
(* The theorems *)

(***************************************************************************)
(* Initially nothing has happened.                                         *)
(***************************************************************************)
LEMMA InitIInv == Init => IInv
<1> SUFFICES ASSUME Init PROVE IInv
  OBVIOUS
<1> USE DEF Init
<1>1. log = <<>> /\ Len(log) = 0 /\ log \in Seq(State)
  OBVIOUS
<1>2. /\ MaxAttempts \in Nat /\ MaxMessages \in Nat /\ 0 \in Version
      /\ FirstState \in State /\ FirstState.version = 0 /\ FirstState.evidence = {}
  BY BoundsAssumption, FirstStateType DEF Version, MaxVersion, FirstState
<1>3. RowsOK
  BY <1>2 DEF RowsOK, RunStatus, JobStatus, CaseStatus, Lease
<1>5. LocalOK
  BY <1>2, NothingType DEF LocalOK, Control, ClosedStatus
<1>6. QueueOK
  BY <1>2 DEF QueueOK, CallStatus
<1>7. HistoryOK
  BY <1>1 DEF HistoryOK
<1>8. OneHistory /\ VersionsPlaced
  BY <1>1 DEF OneHistory, VersionsPlaced
<1>9. WorkersKnow
  BY DEF WorkersKnow, Knows, Closing
<1>10. ResumesFromHistory
  BY <1>1, FirstRecorded DEF ResumesFromHistory
<1>11. EvidenceIsAccounted
  BY <1>1, <1>2 DEF EvidenceIsAccounted, StateAt
<1>12. RoundsBounded
  BY <1>1 DEF RoundsBounded
<1>13. RowsTold
  BY DEF RowsTold, Told, Closing, Failing
<1>14. CaseGatesRun
  BY DEF CaseGatesRun
<1> QED
  BY <1>3, <1>5, <1>6, <1>7, <1>8, <1>9, <1>10, <1>11, <1>12, <1>13, <1>14
     DEF IInv, TypeOK

(***************************************************************************)
(* The inductive invariant holds in every reachable state.                 *)
(***************************************************************************)
THEOREM Invariance == Spec => []IInv
<1>1. IInv /\ [Next]_vars => IInv'
  BY TypeNext, HistoryNext, WorkersKnowNext, ResumesNext, RoundsNext, RowsToldNext,
     CaseGatesRunNext DEF IInv
<1> QED
  BY InitIInv, <1>1, PTL DEF Spec

(***************************************************************************)
(* Every row, queue and worker stays within its type, so that versions and *)
(* rounds never leave their bounds and a job is never claimed more often   *)
(* than max_attempts.                                                      *)
(***************************************************************************)
THEOREM TypeCorrectness == Spec => []TypeOK
<1>1. IInv => TypeOK
  BY DEF IInv
<1> QED
  BY Invariance, <1>1, PTL

(***************************************************************************)
(* Whatever claims, checkpoints and crashes of any number of workers       *)
(* interleave, the committed steps are one walk through the graph.         *)
(***************************************************************************)
THEOREM HistoryIsOneWalk == Spec => []OneHistory
<1>1. IInv => OneHistory
  BY DEF IInv
<1> QED
  BY Invariance, <1>1, PTL

(***************************************************************************)
(* What workers hold and the next claim resumes from is in that history.   *)
(***************************************************************************)
THEOREM ResumptionIsSound == Spec => []ResumesFromHistory
<1>1. IInv => ResumesFromHistory
  BY DEF IInv
<1> QED
  BY Invariance, <1>1, PTL

(***************************************************************************)
(* The evidence rows are those that the last committed state lists.        *)
(***************************************************************************)
THEOREM EvidenceSurvives == Spec => []EvidenceIsAccounted
<1>1. IInv => EvidenceIsAccounted
  BY DEF IInv
<1> QED
  BY Invariance, <1>1, PTL

(***************************************************************************)
(* No run plans more rounds than agent_max_iterations, and one that        *)
(* completes was decided by the last step of its history.                  *)
(***************************************************************************)
THEOREM RoundsStayBounded == Spec => []RoundsBounded
<1>1. IInv => RoundsBounded
  BY DEF IInv
<1> QED
  BY Invariance, <1>1, PTL

(***************************************************************************)
(* Whatever is read late, left out and overwritten, an open case has a run *)
(* and a job that can be claimed, and the run of a closed one never runs.  *)
(***************************************************************************)
THEOREM CaseGates == Spec => []CaseGatesRun
<1>1. IInv => CaseGatesRun
  BY DEF IInv
<1> QED
  BY Invariance, <1>1, PTL

(***************************************************************************)
(* Initially no call has been sent.                                        *)
(***************************************************************************)
LEMMA AuditInit == Init => AuditInv
<1> SUFFICES ASSUME Init PROVE AuditInv
  OBVIOUS
<1>1. Len(log) = 0 /\ \A v \in Version : calls[v] = "absent" /\ v \in Nat
  BY BoundsAssumption DEF Init, Version, MaxVersion
<1>2. CallsMatchHistory
  BY <1>1 DEF CallsMatchHistory
<1>3. ASSUME NEW w \in Workers PROVE Asked(w)
  BY DEF Init, Asked
<1> QED
  BY <1>2, <1>3 DEF AuditInv

(***************************************************************************)
(* The calls and the history match.                                        *)
(***************************************************************************)
LEMMA AuditInvariant == Spec => []AuditInv
<1>1. Init => AuditInv
  BY AuditInit
<1>2. IInv /\ AuditInv /\ [Next]_vars => AuditInv'
  BY AuditNext
<1> QED
  BY <1>1, <1>2, Invariance, PTL DEF Spec

(***************************************************************************)
(* Every committed step that asks a model has its finished call, and no    *)
(* other call was sent, whoever leased, lost and repeated it.              *)
(***************************************************************************)
THEOREM AuditIsComplete == Spec => []CallsMatchHistory
<1>1. AuditInv => CallsMatchHistory
  BY DEF AuditInv
<1> QED
  BY AuditInvariant, <1>1, PTL

(***************************************************************************)
(* Any number of workers that claim, resume, race and die implement the    *)
(* one process of module AgentRun.                                         *)
(***************************************************************************)
THEOREM OneProcess == Spec => ImplementsAgentRun
<1>1. Init => Agent!Init
  BY DEF Init, Agent!Init, StateAt, FirstState, ClaimableCase
<1>2. IInv /\ [Next]_vars => [Agent!Next]_<<run.status, ClaimableCase, Agent!walk>>
  BY AgentStep
<1> QED
  BY <1>1, <1>2, Invariance, PTL DEF Spec, ImplementsAgentRun, Agent!Spec

(***************************************************************************)
(* The agent writes the case only as the governance of the case assumes.   *)
(***************************************************************************)
THEOREM CaseContract == Spec => KeepsToCase
<1>1. Init => Case!Init
  BY DEF Init, Case!Init, RunAsSeen
<1>2. IInv /\ [Next]_vars => [Case!Next]_<<RunAsSeen, caseStatus>>
  BY CaseStep
<1> QED
  BY <1>1, <1>2, Invariance, PTL DEF Spec, KeepsToCase, Case!Spec

=============================================================================
