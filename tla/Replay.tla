-------------------------------- MODULE Replay --------------------------------
(***************************************************************************)
(* The replay of decided cases under a new version of their policy: the    *)
(* rows of replay_jobs, processing_jobs and replay_items that              *)
(* evistream/replay/service.py keeps, the target cases it fills with       *)
(* copied evidence, their investigations and their machine decisions.      *)
(* Cases of several source versions of the policy are replayed to one      *)
(* target version, so that cases of one video meet in one target case.     *)
(*                                                                         *)
(* Messages of a job may come any number of times, leases run out under    *)
(* slow workers, workers die between any two transactions, and triage,     *)
(* people and other workers use the target cases meanwhile.  A lease may   *)
(* run out at any time, so it is left out: a message of a RUNNING job is   *)
(* one that came when the lease was over.  Every transaction is one        *)
(* action, but for the one that gives an item its target case, which       *)
(* checks that no other item has it and then writes, and the ones that end *)
(* a replay.                                                               *)
(***************************************************************************)
EXTENDS Naturals

CONSTANTS
  Sources,      \* the source versions, one replay each
  Videos,       \* the videos
  Cases,        \* the source cases: pairs of a source version and a video
  Scoped,       \* the source versions whose replay has requirements to investigate
  Open,         \* the cases that may be undecided or appealed when it is prepared
  Findings,     \* what an investigation of a target case may amount to later: which
                \* of its own evidence is still valid, how else it ended
  Inconclusive, \* the decisions, by what they weigh, that ask for a human
  Workers,      \* worker processes
  MaxAttempts   \* max_attempts of a replay's job, 3 in the code

ASSUME ReplayConstants ==
  /\ Cases \subseteq Sources \X Videos
  /\ Scoped \subseteq Sources
  /\ Open \subseteq Cases
  /\ MaxAttempts \in Nat \ {0}

VARIABLES
  job,        \* the replay's processing_jobs row: status, attempt
  replay,     \* the status of its replay_jobs row
  item,       \* its replay_items rows: status, target_case_id set, decision
  target,     \* the video's case of the target version
  run,        \* the investigation of the target case: status, scope
  own,        \* what its investigation has come to
  copied,     \* the items whose evidence is copied to their target case
  decisions,  \* the machine decisions of a target case
  pc,         \* where each worker is
  on,         \* the replay a worker executes
  left,       \* the items it still has to execute
  at,         \* the item it has in hand
  fresh,      \* whether it found no target case and inserts one
  got,        \* the decision it got for the item
  same        \* whether the replay's row had the status that it will end it with

rows == <<job, replay>>
cases == <<target, run, own, copied, decisions>>
hands == <<on, left, at, fresh, got, same>>
vars == <<job, replay, item, target, run, own, copied, decisions,
          pc, on, left, at, fresh, got, same>>

-----------------------------------------------------------------------------
(* Data *)

NoSource == "none"
NoCase == <<"none", "none">>
AsFound == "as found"
SourceOf(c) == c[1]
VideoOf(c) == c[2]
ItemsOf(s) == {c \in Cases : SourceOf(c) = s}

\* A machine decision weighs the copied evidence and what the case's own
\* investigation came to; it repeats one if there already was one of that input.
Decision == [inputs: SUBSET Cases, own: Findings \cup {AsFound}, repeats: BOOLEAN]
NoDecision == [inputs |-> {}, own |-> AsFound, repeats |-> FALSE]

Settled == {"COMPLETED", "NEEDS_HUMAN_REVIEW"}
ItemStatus == {"ABSENT", "PENDING", "MATERIALIZED", "INVESTIGATING"} \cup Settled
JobStatus == {"ABSENT", "PENDING", "RUNNING", "SUCCEEDED", "FAILED"}
\* A run DONE was closed by complete.  A late worker may have it FAILED or PENDING
\* afterwards, upon which evaluations are refused: a Fail, or nothing.
RunStatus == {"ABSENT", "PENDING", "RUNNING", "DONE", "FAILED"}
Control == {"idle", "picking", "materializing", "preparing", "claiming",
            "finalizing", "recording", "succeeding", "failing"}

Init ==
  /\ job = [s \in Sources |-> [status |-> "ABSENT", attempt |-> 0]]
  /\ replay = [s \in Sources |-> "ABSENT"]
  /\ item = [c \in Cases |-> [status |-> "ABSENT", target |-> FALSE,
                              decided |-> FALSE, decision |-> NoDecision]]
  /\ target = [v \in Videos |-> "ABSENT"]
  /\ run = [v \in Videos |-> [status |-> "ABSENT", scope |-> NoSource]]
  /\ own = [v \in Videos |-> AsFound]
  /\ copied = {}
  /\ decisions = [v \in Videos |-> {}]
  /\ pc = [w \in Workers |-> "idle"]
  /\ on = [w \in Workers |-> NoSource]
  /\ left = [w \in Workers |-> {}]
  /\ at = [w \in Workers |-> NoCase]
  /\ fresh = [w \in Workers |-> FALSE]
  /\ got = [w \in Workers |-> NoDecision]
  /\ same = [w \in Workers |-> FALSE]

Goto(w, label) == pc' = [pc EXCEPT ![w] = label]

Stop(w) ==
  /\ Goto(w, "idle")
  /\ on' = [on EXCEPT ![w] = NoSource]
  /\ left' = [left EXCEPT ![w] = {}]
  /\ at' = [at EXCEPT ![w] = NoCase]
  /\ fresh' = [fresh EXCEPT ![w] = FALSE]
  /\ got' = [got EXCEPT ![w] = NoDecision]
  /\ same' = [same EXCEPT ![w] = FALSE]

-----------------------------------------------------------------------------
(* Requests, time and the others who use the target cases *)

\* prepare: the plan of a case without a decision or with an open appeal is
\* blocked.  A later preview of the same versions finds the items' unique
\* (source case, target version) taken; the same one finds the job.
Prepare(s) ==
  /\ job[s].status = "ABSENT"
  /\ job' = [job EXCEPT ![s].status = "PENDING"]
  /\ replay' = [replay EXCEPT ![s] = "PENDING"]
  /\ \E blocked \in SUBSET (ItemsOf(s) \cap Open) :
       item' = [c \in Cases |->
                  IF c \in blocked THEN [item[c] EXCEPT !.status = "NEEDS_HUMAN_REVIEW"]
                  ELSE IF c \in ItemsOf(s) THEN [item[c] EXCEPT !.status = "PENDING"]
                  ELSE item[c]]
  /\ UNCHANGED <<cases, pc, hands>>

\* Triage or a person creates the case of the target version.
OthersCreate(v) ==
  /\ target[v] = "ABSENT"
  /\ target' = [target EXCEPT ![v] = "READY"]
  /\ UNCHANGED <<rows, item, run, own, copied, decisions, pc, hands>>

\* case-run prepares an investigation of every requirement.
OthersPrepare(v) ==
  /\ target[v] = "READY"
  /\ run[v].status = "ABSENT"
  /\ run' = [run EXCEPT ![v] = [status |-> "PENDING", scope |-> "all"]]
  /\ UNCHANGED <<rows, item, target, own, copied, decisions, pc, hands>>

RunBecomes(v, status) == run' = [run EXCEPT ![v].status = status]

\* Another worker, told by jobs-requeue, claims the investigation's own job.  (When
\* it takes over a RUNNING one, whose lease may run out at any time, nothing
\* changes that is of interest here.)
OthersClaim(v) ==
  /\ run[v].status = "PENDING"
  /\ RunBecomes(v, "RUNNING")
  /\ UNCHANGED <<rows, item, target, own, copied, decisions, pc, hands>>

\* The investigation ends, whoever executes it, also after another failed it.
RunEnds(v) ==
  /\ run[v].status \in {"RUNNING", "FAILED"}
  /\ \E status \in {"DONE", "FAILED"} : RunBecomes(v, status)
  /\ UNCHANGED <<rows, item, target, own, copied, decisions, pc, hands>>

\* A replay has learnt of a decision of the video's target case.
Known(v) ==
  \/ \E c \in Cases : item[c].decided /\ VideoOf(c) = v
  \/ \E w \in Workers : pc[w] = "recording" /\ VideoOf(at[w]) = v

\* A late error of one of its model calls changes what is valid of the evidence of
\* a closed investigation.  Until a decision of the case is known it makes no
\* difference to the replays: it is as if it had been found so at first.
FindingsChange(v) ==
  /\ run[v].status = "DONE" /\ Known(v)
  /\ \E f \in Findings : own' = [own EXCEPT ![v] = f]
  /\ UNCHANGED <<rows, item, target, run, copied, decisions, pc, hands>>

\* The copied evidence a decision of the video's target case weighs now.
Inputs(v) == {c \in copied : VideoOf(c) = v}

\* uq_decisions_deterministic_input: the decision there is for this input.
Reusable(v) == {d \in decisions[v] : d.inputs = Inputs(v) /\ d.own = own[v]}

\* Seeded fault: every evaluation inserts a decision.
AlwaysNew(v) ==
  {[inputs |-> Inputs(v), own |-> own[v], repeats |-> Reusable(v) # {}]}

Evaluations(v) ==
  IF Reusable(v) # {} THEN Reusable(v)
  ELSE {[inputs |-> Inputs(v), own |-> own[v], repeats |-> FALSE]}

\* finalize_case: the decision d is reused or inserted.
Finalized(v, d) ==
  /\ decisions' = [decisions EXCEPT ![v] = @ \cup {d}]
  /\ target' = [target EXCEPT ![v] = "DECIDED"]

\* RuntimeFactory.execute and the API finalize an investigated case, triage a
\* case without a run that it sends to a human.
OthersFinalize(v) ==
  /\ target[v] # "ABSENT"
  /\ run[v].status \in {"ABSENT", "DONE"}
  /\ \E d \in Evaluations(v) : Finalized(v, d)
  /\ UNCHANGED <<rows, item, run, own, copied, pc, hands>>

-----------------------------------------------------------------------------
(* Executing a replay *)

\* Seeded fault: a replay whose worker died is not taken over.
ClaimableOnce(s) == job[s].status = "PENDING" /\ job[s].attempt < MaxAttempts

\* Seeded fault: the attempts are not compared.
ClaimableBeyond(s) == job[s].status \in {"PENDING", "RUNNING"}

\* A RUNNING job only when its lease is over; claim itself does not compare the
\* attempts, ck_processing_jobs_attempts does.
Claimable(s) ==
  /\ job[s].status \in {"PENDING", "RUNNING"}
  /\ job[s].attempt < MaxAttempts

Begin(w, s) ==
  /\ pc[w] = "idle"
  /\ Goto(w, "picking")
  /\ on' = [on EXCEPT ![w] = s]
  /\ left' = [left EXCEPT ![w] = ItemsOf(s)]
  /\ UNCHANGED <<item, cases, at, fresh, got, same>>

Claim(w, s) ==
  /\ Claimable(s)
  /\ Begin(w, s)
  /\ job' = [job EXCEPT ![s] = [status |-> "RUNNING", attempt |-> @.attempt + 1]]
  /\ replay' = [replay EXCEPT ![s] = "RUNNING"]

\* A replay that succeeded is executed again; a live or failed one is refused,
\* which leaves its job alone.
ClaimSucceeded(w, s) ==
  /\ job[s].status = "SUCCEEDED"
  /\ Begin(w, s)
  /\ UNCHANGED rows

\* Seeded fault: an item another worker materialized is left to that worker.
LeavesMaterialized(c) == item[c].status \in Settled \cup {"MATERIALIZED"}

IsSettled(c) == item[c].status \in Settled

SkipItem(w) ==
  /\ pc[w] = "picking"
  /\ \E c \in left[w] : IsSettled(c) /\ left' = [left EXCEPT ![w] = @ \ {c}]
  /\ UNCHANGED <<rows, item, cases, pc, on, at, fresh, got, same>>

\* The item's row stays locked until the transaction ends.
Unlocked(c) == \A u \in Workers : pc[u] = "materializing" => at[u] # c

SameTarget(c) == {d \in Cases \ {c} : item[d].target /\ VideoOf(d) = VideoOf(c)}

PickItem(w) ==
  /\ pc[w] = "picking"
  /\ \E c \in left[w] :
       /\ Unlocked(c)
       /\ ~IsSettled(c)
       /\ SameTarget(c) = {}
       /\ at' = [at EXCEPT ![w] = c]
       /\ left' = [left EXCEPT ![w] = @ \ {c}]
       /\ fresh' = [fresh EXCEPT ![w] = target[VideoOf(c)] = "ABSENT"]
  /\ Goto(w, "materializing")
  /\ UNCHANGED <<rows, item, cases, on, got, same>>

\* Copies of evidence have derived ids: a second copy adds none.  An insert of
\* the target case that comes second breaks the unique constraint.
Materialize(w) ==
  LET c == at[w]
      v == VideoOf(c)
      scope == SourceOf(c) \in Scoped
  IN
  /\ pc[w] = "materializing"
  /\ fresh[w] => target[v] = "ABSENT"
  /\ target' = [target EXCEPT ![v] = IF @ = "ABSENT" THEN "READY" ELSE @]
  /\ copied' = copied \cup {c}
  /\ item' = [item EXCEPT ![c] =
                [status |-> IF scope THEN "INVESTIGATING" ELSE "MATERIALIZED",
                 target |-> TRUE, decided |-> @.decided, decision |-> @.decision]]
  /\ Goto(w, IF scope THEN "preparing" ELSE "finalizing")
  /\ UNCHANGED <<rows, run, own, decisions, hands>>

\* Seeded fault: an investigation of other requirements is taken for this one.
AnyScope(s) == {NoSource, "all"} \cup Sources

RequestedScope(s) == {s}

\* prepare and the dispatch of the investigation, in the same process.
PrepareRun(w) ==
  LET v == VideoOf(at[w])
      s == SourceOf(at[w])
  IN
  /\ pc[w] = "preparing"
  /\ \/ /\ run[v].status \in {"PENDING", "RUNNING", "DONE"}
        /\ run[v].scope \in RequestedScope(s)
        /\ UNCHANGED run
     \/ /\ run[v].status = "ABSENT"
        /\ target[v] = "READY"
        /\ run' = [run EXCEPT ![v] = [status |-> "PENDING", scope |-> s]]
  /\ Goto(w, "claiming")
  /\ UNCHANGED <<rows, item, target, own, copied, decisions, hands>>

\* The worker executes the investigation, or another has; a live one is refused.
ClaimRun(w) ==
  LET v == VideoOf(at[w]) IN
  /\ pc[w] = "claiming"
  /\ \/ run[v].status \in {"PENDING", "RUNNING"} /\ RunBecomes(v, "RUNNING")
     \/ run[v].status = "DONE" /\ UNCHANGED run
  /\ Goto(w, "finalizing")
  /\ UNCHANGED <<rows, item, target, own, copied, decisions, hands>>

\* When the investigation is closed the case is evaluated; a case without one, only
\* if there was nothing to investigate.
Finalize(w) ==
  LET c == at[w]
      v == VideoOf(c)
  IN
  /\ pc[w] = "finalizing"
  /\ \/ run[v].status = "DONE"
     \/ (run[v].status = "ABSENT" /\ SourceOf(c) \notin Scoped)
  /\ \E d \in Evaluations(v) :
       /\ Finalized(v, d)
       /\ got' = [got EXCEPT ![w] = d]
  /\ Goto(w, "recording")
  /\ UNCHANGED <<rows, item, run, own, copied, on, left, at, fresh, same>>

RecordItem(w) ==
  LET c == at[w] IN
  /\ pc[w] = "recording"
  /\ Unlocked(c)
  /\ item' = [item EXCEPT ![c] =
                [status |-> IF got[w] \in Inconclusive THEN "NEEDS_HUMAN_REVIEW" ELSE "COMPLETED",
                 target |-> @.target, decided |-> TRUE, decision |-> got[w]]]
  /\ Goto(w, "picking")
  /\ at' = [at EXCEPT ![w] = NoCase]
  /\ fresh' = [fresh EXCEPT ![w] = FALSE]
  /\ got' = [got EXCEPT ![w] = NoDecision]
  /\ UNCHANGED <<rows, cases, on, left, same>>

EndRead(w, label, status) ==
  /\ Goto(w, label)
  /\ same' = [same EXCEPT ![w] = (replay[on[w]] = status)]
  /\ left' = [left EXCEPT ![w] = {}]
  /\ at' = [at EXCEPT ![w] = NoCase]
  /\ fresh' = [fresh EXCEPT ![w] = FALSE]
  /\ got' = [got EXCEPT ![w] = NoDecision]
  /\ UNCHANGED <<rows, item, cases, on>>

\* SQLAlchemy writes the status of the replay's row only if it differs from what was
\* read.  That flush comes before the job's row is read, and locks the replay's until
\* the commit, so that the job is never stale.
EndWrite(w, label, status) ==
  /\ pc[w] = label
  /\ replay' = [replay EXCEPT ![on[w]] = IF same[w] THEN @ ELSE status]
  /\ job' = [job EXCEPT ![on[w]].status = status]
  /\ Stop(w)
  /\ UNCHANGED <<item, cases>>

CompleteRead(w) ==
  /\ pc[w] = "picking"
  /\ left[w] = {}
  /\ EndRead(w, "succeeding", "SUCCEEDED")

Complete(w) == EndWrite(w, "succeeding", "SUCCEEDED")

\* Whatever is raised fails the replay: a conflict, a constraint, a disabled
\* policy, an investigation that failed or is held by another worker.
FailRead(w) == pc[w] \notin {"idle", "failing"} /\ EndRead(w, "failing", "FAILED")

Fail(w) == EndWrite(w, "failing", "FAILED")

Crash(w) ==
  /\ pc[w] # "idle"
  /\ Stop(w)
  /\ UNCHANGED <<rows, item, cases>>

-----------------------------------------------------------------------------
ExecuteItem(w) ==
  \/ PickItem(w) \/ Materialize(w) \/ PrepareRun(w) \/ ClaimRun(w)
  \/ Finalize(w) \/ RecordItem(w)

End(w) == CompleteRead(w) \/ Complete(w) \/ FailRead(w) \/ Fail(w)

Execute(w) == SkipItem(w) \/ ExecuteItem(w) \/ End(w)

Others(v) ==
  \/ OthersCreate(v) \/ OthersPrepare(v) \/ OthersClaim(v) \/ RunEnds(v)
  \/ FindingsChange(v) \/ OthersFinalize(v)

Next ==
  \/ \E s \in Sources : Prepare(s)
  \/ \E v \in Videos : Others(v)
  \/ \E w \in Workers, s \in Sources : Claim(w, s) \/ ClaimSucceeded(w, s)
  \/ \E w \in Workers : Execute(w) \/ Crash(w)

Spec == Init /\ [][Next]_vars

(***************************************************************************)
(* Leases run out, so messages of a claimable job keep coming to idle      *)
(* workers, and a worker goes on with what it started unless it dies.      *)
(***************************************************************************)
Fairness ==
  /\ \A s \in Sources : SF_vars(\E w \in Workers : Claim(w, s))
  /\ \A w \in Workers : WF_vars(Execute(w))

FairSpec == Spec /\ Fairness

-----------------------------------------------------------------------------
(* Properties *)

TypeOK ==
  /\ job \in [Sources -> [status: JobStatus, attempt: 0 .. MaxAttempts]]
  /\ replay \in [Sources -> JobStatus]
  /\ item \in [Cases -> [status: ItemStatus, target: BOOLEAN, decided: BOOLEAN,
                         decision: Decision]]
  /\ target \in [Videos -> {"ABSENT", "READY", "DECIDED"}]
  /\ run \in [Videos -> [status: RunStatus, scope: Sources \cup {NoSource, "all"}]]
  /\ own \in [Videos -> Findings \cup {AsFound}]
  /\ copied \subseteq Cases
  /\ decisions \in [Videos -> SUBSET Decision]
  /\ pc \in [Workers -> Control]
  /\ on \in [Workers -> Sources \cup {NoSource}]
  /\ left \in [Workers -> SUBSET Cases]
  /\ at \in [Workers -> Cases \cup {NoCase}]
  /\ fresh \in [Workers -> BOOLEAN]
  /\ got \in [Workers -> Decision]
  /\ same \in [Workers -> BOOLEAN]

(***************************************************************************)
(* The decision an item reports is one of its own target case, weighed the *)
(* evidence copied for the item, and came after an investigation of        *)
(* exactly the item's requirements was closed, where the plan has some; an *)
(* item whose plan was blocked touches no case (_execute_item, prepare,    *)
(* finalize_case).                                                         *)
(***************************************************************************)
ResultsAreReplayed ==
  \A c \in Cases :
    LET v == VideoOf(c) IN
    /\ item[c].decided =>
         /\ item[c].target /\ item[c].status \in Settled
         /\ item[c].decision \in decisions[v] /\ c \in item[c].decision.inputs
         /\ SourceOf(c) \in Scoped =>
              run[v].status = "DONE" /\ run[v].scope = SourceOf(c)
    /\ item[c].status \in Settled /\ ~item[c].decided => c \notin copied

(***************************************************************************)
(* A replay of which either row says that it succeeded has settled all its *)
(* items, whichever workers executed it, took it over, failed it or        *)
(* executed it again.  The rows may come to disagree, as workers that end  *)
(* it at the same time leave out a status they have read, but only about   *)
(* how it ended, never about whether (claim, _complete and fail).          *)
(***************************************************************************)
SucceededIsSettled ==
  \A s \in Sources :
    /\ "SUCCEEDED" \in {replay[s], job[s].status} =>
         \A c \in ItemsOf(s) : item[c].status \in Settled
    /\ replay[s] # job[s].status =>
         {replay[s], job[s].status} = {"SUCCEEDED", "FAILED"}

Shared(c) == item[c].target /\ SameTarget(c) # {}

(***************************************************************************)
(* What an item reports stands: a worker that lost its lease and records   *)
(* the item once more finds the decision there is.  A later decision may   *)
(* replace it only where two replays came to share a target case, or the   *)
(* case's own investigation has come to something else meanwhile           *)
(* (finalize_case and _execute_item).                                      *)
(***************************************************************************)
ResultStands ==
  [][\A c \in Cases : item[c].decided =>
       \/ item'[c].decision = item[c].decision
       \/ item'[c].decision.own # item[c].decision.own
       \/ Shared(c)]_vars

\* Its attempts are used up and no worker executes it any more.
Abandoned(s) == job[s].attempt = MaxAttempts /\ \A w \in Workers : on[w] # s

(***************************************************************************)
(* A prepared replay ends, through deaths and lost leases, unless its last *)
(* attempt was lost with its worker (claim, _complete, fail).              *)
(***************************************************************************)
ReplayEnds ==
  \A s \in Sources :
    job[s].status = "PENDING" ~> job[s].status \in {"SUCCEEDED", "FAILED"} \/ Abandoned(s)

=============================================================================
