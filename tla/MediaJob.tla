------------------------------- MODULE MediaJob -------------------------------
(***************************************************************************)
(* The preprocessing of one video: the rows videos, processing_jobs,       *)
(* segments and documents that evistream/media/service.py keeps, the       *)
(* embeddings of retrieval/indexing.py, the checks and the cases of        *)
(* triage/service.py, and the workers that execute the job with            *)
(* MediaPreprocessJobHandler.  Messages may be lost or duplicated, workers *)
(* may be slow or die between any two transactions, leases run out, and    *)
(* policies are published, investigations run and people decide meanwhile. *)
(*                                                                         *)
(* Every transaction is one action, but for the claim, which reads the job *)
(* before its conditional UPDATE.                                          *)
(***************************************************************************)
EXTENDS Naturals

CONSTANTS
  Workers,      \* worker processes that execute job messages
  Batches,      \* the batches of documents that are embedded together
  Policies,     \* the policies
  MaxVersion,   \* bound on the versions of a policy
  MaxAttempts,  \* settings.job_max_attempts, the job row's max_attempts
  MaxMessages   \* bound on the queue: messages waiting at one time

ASSUME MediaBounds ==
  /\ MaxVersion \in Nat \ {0}
  /\ MaxAttempts \in Nat \ {0}
  /\ MaxMessages \in Nat \ {0}

VARIABLES
  job,        \* the processing_jobs row: status, attempt, retryable, and the
              \* gateway of the model profile in its payload
  lease,      \* its lease_until: none, live or expired
  video,      \* the videos row: status, triage_status
  extracted,  \* whether the segments, artifacts and documents are committed
  indexed,    \* the batches whose documents hold a current embedding
  latest,     \* the latest enabled published version of each policy
  checks,     \* video_triage_checks, one row per policy version
  called,     \* the policy versions whose triage has a model_calls row, of a
              \* success or of a failure
  cases,      \* the case of each policy version, if there is one
  messages,   \* job messages waiting in the queue
  pc,         \* where each worker is
  mine,       \* the attempt a worker claimed, 0 if it claimed none
  batches,    \* the batches a worker still has to embed
  todo,       \* the policy versions a worker still has to check
  item,       \* the policy version whose check a worker has in hand
  answer,     \* the action the model answered for it
  trouble     \* whether something failed, and whether a retry may help

stored == <<job, lease, video>>
stages == <<extracted, indexed>>
triaged == <<checks, called, cases>>
work == <<mine, batches, todo, item, answer, trouble>>
vars == <<job, lease, video, extracted, indexed, latest, checks, called, cases,
          messages, pc, mine, batches, todo, item, answer, trouble>>

-----------------------------------------------------------------------------
(* Data *)

Version == Policies \X (1 .. MaxVersion)
NoVersion == <<"none", 0>>

JobStatus == {"ABSENT", "PENDING", "RUNNING", "RETRY_WAIT", "SUCCEEDED", "FAILED"}
VideoStatus == {"ABSENT", "UPLOADED", "PROCESSING", "READY", "FAILED"}
TriageStatus == {"PENDING", "RUNNING", "SUCCEEDED", "FAILED"}
Gateway == {"mock", "model"}
TriageAction == {"SKIP", "CREATE_CASE", "NEEDS_HUMAN_REVIEW"}
\* A case is investigated while a run of it is not terminal, and decided once
\* it has a formal decision, of a machine or a human.
CaseState == {"ABSENT", "OPEN", "INVESTIGATING", "DECIDED"}
Trouble == {"none", "final", "transient"}
Control == {"idle", "claiming", "extracting", "extracted", "undone", "indexing",
            "starting", "selected", "triaging", "asking", "refused", "creating",
            "finalizing", "recording", "breaking", "completing", "failing"}

NoCheck == [status |-> "ABSENT", action |-> "SKIP", case |-> FALSE]

Selected == {v \in Version : latest[v[1]] = v[2]}

\* The batches of the documents without a current embedding.
Unembedded == Batches \ indexed

\* The mock gateway looks for trigger terms and never asks for a human.
MockAction == {"SKIP", "CREATE_CASE"}

-----------------------------------------------------------------------------
Init ==
  /\ job = [status |-> "ABSENT", attempt |-> 0, retryable |-> FALSE, gateway |-> "mock"]
  /\ lease = "none"
  /\ video = [status |-> "ABSENT", triage |-> "PENDING"]
  /\ extracted = FALSE
  /\ indexed = {}
  /\ latest \in [Policies -> 0 .. 1]
  /\ checks = [v \in Version |-> NoCheck]
  /\ called = {}
  /\ cases = [v \in Version |-> "ABSENT"]
  /\ messages = 0
  /\ pc = [w \in Workers |-> "idle"]
  /\ mine = [w \in Workers |-> 0]
  /\ batches = [w \in Workers |-> {}]
  /\ todo = [w \in Workers |-> {}]
  /\ item = [w \in Workers |-> NoVersion]
  /\ answer = [w \in Workers |-> "SKIP"]
  /\ trouble = [w \in Workers |-> "none"]

Goto(w, label) == pc' = [pc EXCEPT ![w] = label]

\* A worker's memory is gone once it stops executing the job.
Stop(w) ==
  /\ Goto(w, "idle")
  /\ mine' = [mine EXCEPT ![w] = 0]
  /\ batches' = [batches EXCEPT ![w] = {}]
  /\ todo' = [todo EXCEPT ![w] = {}]
  /\ item' = [item EXCEPT ![w] = NoVersion]
  /\ answer' = [answer EXCEPT ![w] = "SKIP"]
  /\ trouble' = [trouble EXCEPT ![w] = "none"]

\* The handler's except clauses end in fail_job.
Fails(w, label, kind) ==
  /\ Goto(w, label)
  /\ trouble' = [trouble EXCEPT ![w] = kind]
  /\ UNCHANGED <<mine, batches, todo, item, answer>>

\* An exception leaves _check_policy, and triage's loop.
Breaks(w) ==
  /\ Goto(w, "breaking")
  /\ todo' = [todo EXCEPT ![w] = {}]
  /\ item' = [item EXCEPT ![w] = NoVersion]
  /\ answer' = [answer EXCEPT ![w] = "SKIP"]
  /\ UNCHANGED <<mine, batches>>

-----------------------------------------------------------------------------
(* Uploads, the queue and time *)

\* register_file: the unique request_key lets one upload create the rows; an
\* upload that comes second, or loses the race, adds none.
Register ==
  /\ job.status = "ABSENT"
  /\ \E g \in Gateway : job' = [job EXCEPT !.status = "PENDING", !.gateway = g]
  /\ video' = [video EXCEPT !.status = "UPLOADED"]
  /\ UNCHANGED <<lease, stages, latest, triaged, messages, pc, work>>

Enqueue ==
  /\ messages < MaxMessages
  /\ messages' = messages + 1
  /\ UNCHANGED <<stored, stages, latest, triaged, pc, work>>

\* upload_video and media-process dispatch whatever job they find.
Upload == job.status # "ABSENT" /\ Enqueue

\* Seeded fault: a job whose worker died is never due.
DueIfWaiting == job.status \in {"PENDING", "RETRY_WAIT"} /\ job.attempt < MaxAttempts

Due ==
  /\ \/ job.status \in {"PENDING", "RETRY_WAIT"}
     \/ job.status = "RUNNING" /\ lease = "expired"
  /\ job.attempt < MaxAttempts

Requeue == Due /\ Enqueue

QueueLost ==
  /\ messages > 0
  /\ messages' = 0
  /\ UNCHANGED <<stored, stages, latest, triaged, pc, work>>

Retry ==
  /\ job.status \in {"RETRY_WAIT", "FAILED"}
  /\ job.retryable
  /\ job.attempt < MaxAttempts
  /\ job' = [job EXCEPT !.status = "PENDING"]
  /\ messages' = IF messages < MaxMessages THEN messages + 1 ELSE messages
  /\ UNCHANGED <<lease, video, stages, latest, triaged, pc, work>>

LeaseExpires ==
  /\ lease = "live"
  /\ lease' = "expired"
  /\ UNCHANGED <<job, video, stages, latest, triaged, messages, pc, work>>

\* A new enabled version of a policy is published.
PolicyPublished(p) ==
  /\ latest[p] < MaxVersion
  /\ latest' = [latest EXCEPT ![p] = @ + 1]
  /\ UNCHANGED <<stored, stages, triaged, messages, pc, work>>

\* What investigations, evaluations and reviews make of a case (the modules
\* Investigation and CaseGovernance say how).
CaseMoves(v) ==
  /\ \E s \in CaseState :
       /\ <<cases[v], s>> \in
            {<<"OPEN", "INVESTIGATING">>, <<"OPEN", "DECIDED">>, <<"INVESTIGATING", "DECIDED">>}
       /\ cases' = [cases EXCEPT ![v] = s]
  /\ UNCHANGED <<stored, stages, latest, checks, called, messages, pc, work>>

\* A replay or the demo seeds call create_case, which asks for a READY video and a
\* published version, enabled or not.
OthersCreateCase(v) ==
  /\ video.status = "READY"
  /\ cases[v] = "ABSENT"
  /\ cases' = [cases EXCEPT ![v] = "OPEN"]
  /\ UNCHANGED <<stored, stages, latest, checks, called, messages, pc, work>>

-----------------------------------------------------------------------------
(* Claiming the job *)

Receive(w) ==
  /\ pc[w] = "idle"
  /\ messages > 0
  /\ messages' = messages - 1
  /\ UNCHANGED <<stored, stages, latest, triaged>>

Held == job.status = "RUNNING" /\ lease = "live"

\* A job that succeeded is indexed and triaged again, and completed again.
AnswerSucceeded(w) ==
  /\ Receive(w)
  /\ job.status = "SUCCEEDED"
  /\ Goto(w, "indexing")
  /\ batches' = [batches EXCEPT ![w] = Unembedded]
  /\ UNCHANGED <<mine, todo, item, answer, trouble>>

\* The error of a message that finds the job held or ended fails the job.
ClaimRefused(w) ==
  /\ Receive(w)
  /\ job.status # "SUCCEEDED"
  /\ Held \/ job.status = "FAILED" \/ job.attempt >= MaxAttempts
  /\ Fails(w, "failing", "final")

ClaimRead(w) ==
  /\ Receive(w)
  /\ job.status # "SUCCEEDED"
  /\ ~(Held \/ job.status = "FAILED" \/ job.attempt >= MaxAttempts)
  /\ Goto(w, "claiming")
  /\ UNCHANGED work

\* Seeded fault: the attempts are only compared when the job is read.
ClaimableBeyond ==
  \/ job.status \in {"PENDING", "RETRY_WAIT"}
  \/ job.status = "RUNNING" /\ lease = "expired"

\* The conditions of the UPDATE.
Claimable ==
  /\ \/ job.status \in {"PENDING", "RETRY_WAIT"}
     \/ job.status = "RUNNING" /\ lease = "expired"
  /\ job.attempt < MaxAttempts

\* Seeded fault: work in progress is taken for finished.
ExtractedIfStarted == video.status \in {"READY", "PROCESSING"}

AlreadyExtracted == video.status = "READY"

\* Seeded fault: taking over from a dead worker is not counted.
TakeoverNotCounted == IF job.status = "RUNNING" THEN job.attempt ELSE job.attempt + 1

NextAttempt == job.attempt + 1

ClaimCommit(w) ==
  /\ pc[w] = "claiming"
  /\ Claimable
  /\ job' = [job EXCEPT !.status = "RUNNING", !.attempt = NextAttempt]
  /\ lease' = "live"
  /\ mine' = [mine EXCEPT ![w] = NextAttempt]
  /\ IF AlreadyExtracted
       THEN /\ Goto(w, "indexing")
            /\ batches' = [batches EXCEPT ![w] = Unembedded]
            /\ UNCHANGED video
       ELSE /\ Goto(w, "extracting")
            /\ video' = [video EXCEPT !.status = "PROCESSING"]
            /\ UNCHANGED batches
  /\ UNCHANGED <<stages, latest, triaged, messages, todo, item, answer, trouble>>

ClaimLost(w) ==
  /\ pc[w] = "claiming"
  /\ ~Claimable
  /\ Fails(w, "failing", "final")
  /\ UNCHANGED <<stored, stages, latest, triaged, messages>>

-----------------------------------------------------------------------------
(* Extraction *)

\* Segments are unique by (video, start, end) and artifacts by uri: a second
\* extraction never commits.
Extract(w) ==
  /\ pc[w] = "extracting"
  /\ ~extracted
  /\ extracted' = TRUE
  /\ Goto(w, "extracted")
  /\ UNCHANGED <<stored, indexed, latest, triaged, messages, work>>

\* A decoder, an adapter or a unique constraint refuses.
ExtractFails(w) ==
  /\ pc[w] = "extracting"
  /\ \E kind \in {"final", "transient"} : Fails(w, "undone", kind)
  /\ UNCHANGED <<stored, stages, latest, triaged, messages>>

MarkFailed(w) ==
  /\ pc[w] = "undone"
  /\ job' = [job EXCEPT !.status = "FAILED"]
  /\ lease' = "none"
  /\ video' = [video EXCEPT !.status = "FAILED"]
  /\ Goto(w, "failing")
  /\ UNCHANGED <<stages, latest, triaged, messages, work>>

MarkReady(w) ==
  /\ pc[w] = "extracted"
  /\ video' = [video EXCEPT !.status = "READY"]
  /\ Goto(w, "indexing")
  /\ batches' = [batches EXCEPT ![w] = Unembedded]
  /\ UNCHANGED <<job, lease, stages, latest, triaged, messages, mine, todo, item,
                 answer, trouble>>

-----------------------------------------------------------------------------
(* Indexing: each batch is embedded and committed by itself *)

IndexBatch(w) ==
  /\ pc[w] = "indexing"
  /\ \E b \in batches[w] :
       /\ indexed' = indexed \cup {b}
       /\ batches' = [batches EXCEPT ![w] = @ \ {b}]
  /\ UNCHANGED <<stored, extracted, latest, triaged, messages, pc, mine, todo, item,
                 answer, trouble>>

\* The other batches go on; one transient failure makes the job retryable.
BatchFails(w) ==
  /\ pc[w] = "indexing"
  /\ \E b \in batches[w] : batches' = [batches EXCEPT ![w] = @ \ {b}]
  /\ \E kind \in {"final", "transient"} :
       trouble' = [trouble EXCEPT ![w] = IF @ = "transient" THEN @ ELSE kind]
  /\ UNCHANGED <<stored, stages, latest, triaged, messages, pc, mine, todo, item, answer>>

IndexDone(w) ==
  /\ pc[w] = "indexing"
  /\ batches[w] = {}
  /\ Goto(w, IF trouble[w] = "none" THEN "starting" ELSE "failing")
  /\ UNCHANGED <<stored, stages, latest, triaged, messages, work>>

-----------------------------------------------------------------------------
(* Triage *)

PoliciesRead(w) ==
  /\ pc[w] = "starting"
  /\ todo' = [todo EXCEPT ![w] = Selected]
  /\ Goto(w, "selected")
  /\ UNCHANGED <<stored, stages, latest, triaged, messages, mine, batches, item, answer,
                 trouble>>

TriageStarts(w) ==
  /\ pc[w] = "selected"
  /\ video' = [video EXCEPT !.triage = "RUNNING"]
  /\ Goto(w, "triaging")
  /\ UNCHANGED <<job, lease, stages, latest, triaged, messages, work>>

\* A check that succeeded is not repeated.
CheckKnown(w) ==
  /\ pc[w] = "triaging"
  /\ \E v \in todo[w] :
       /\ checks[v].status = "SUCCEEDED"
       /\ todo' = [todo EXCEPT ![w] = @ \ {v}]
  /\ UNCHANGED <<stored, stages, latest, triaged, messages, pc, mine, batches, item,
                 answer, trouble>>

CheckStarts(w) ==
  /\ pc[w] = "triaging"
  /\ \E v \in todo[w] :
       /\ checks[v].status # "SUCCEEDED"
       /\ checks' = [checks EXCEPT ![v].status = "RUNNING"]
       /\ item' = [item EXCEPT ![w] = v]
       /\ todo' = [todo EXCEPT ![w] = @ \ {v}]
  /\ Goto(w, "asking")
  /\ UNCHANGED <<stored, stages, latest, called, cases, messages, mine, batches,
                 answer, trouble>>

\* _record_model_call keeps one row per request key and overwrites it with every
\* answer and error; nothing reads what it says.  The mock gateway records nothing.
Recorded(w) == called \cup (IF job.gateway = "mock" THEN {} ELSE {item[w]})

ModelAnswers(w) ==
  /\ pc[w] = "asking"
  /\ \E action \in TriageAction :
       /\ job.gateway = "mock" => action \in MockAction
       /\ answer' = [answer EXCEPT ![w] = action]
       /\ Goto(w, IF action = "SKIP" THEN "recording" ELSE "creating")
  /\ called' = Recorded(w)
  /\ UNCHANGED <<stored, stages, latest, checks, cases, messages, mine, batches, todo,
                 item, trouble>>

\* The gateway raises a ModelError, or answers with terms or requirement keys that
\* the policy does not have: either is recorded as a call.
ModelFails(w) ==
  /\ pc[w] = "asking"
  /\ job.gateway = "model"
  /\ called' = Recorded(w)
  /\ \E kind \in {"final", "transient"} : Fails(w, "refused", kind)
  /\ UNCHANGED <<stored, stages, latest, checks, cases, messages>>

\* _fail_check writes whatever the check has become.
FailCheck(w) ==
  /\ pc[w] = "refused"
  /\ checks' = [checks EXCEPT ![item[w]].status = "FAILED"]
  /\ Breaks(w)
  /\ UNCHANGED <<stored, stages, latest, called, cases, messages, trouble>>

\* create_case requires a READY video and returns the case there is.
CreateCase(w) ==
  /\ pc[w] = "creating"
  /\ video.status = "READY"
  /\ cases' = [cases EXCEPT ![item[w]] = IF @ = "ABSENT" THEN "OPEN" ELSE @]
  /\ Goto(w, IF answer[w] = "CREATE_CASE" THEN "recording" ELSE "finalizing")
  /\ UNCHANGED <<stored, stages, latest, checks, called, messages, work>>

\* Seeded fault: the check succeeds although its case could not be finalized.
FinalizeSkipped(w) ==
  /\ pc[w] = "finalizing"
  /\ Goto(w, "recording")
  /\ UNCHANGED <<stored, stages, latest, triaged, messages, work>>

\* finalize_case: a case under investigation is refused (a reviewed one may be,
\* which is then a TriageBreaks).
FinalizeCase(w) ==
  /\ pc[w] = "finalizing"
  /\ cases[item[w]] # "INVESTIGATING"
  /\ cases' = [cases EXCEPT ![item[w]] = "DECIDED"]
  /\ Goto(w, "recording")
  /\ UNCHANGED <<stored, stages, latest, checks, called, messages, work>>

RecordCheck(w) ==
  /\ pc[w] = "recording"
  /\ checks' = [checks EXCEPT ![item[w]] =
                  [status |-> "SUCCEEDED", action |-> answer[w],
                   case |-> answer[w] # "SKIP"]]
  /\ Goto(w, "triaging")
  /\ item' = [item EXCEPT ![w] = NoVersion]
  /\ answer' = [answer EXCEPT ![w] = "SKIP"]
  /\ UNCHANGED <<stored, stages, latest, called, cases, messages, mine, batches, todo,
                 trouble>>

\* Any other exception: the video is not READY, the case cannot be finalized,
\* an insert lost its race.
TriageBreaks(w) ==
  /\ pc[w] \in {"triaging", "asking", "creating", "finalizing", "recording"}
  /\ Breaks(w)
  /\ trouble' = [trouble EXCEPT ![w] = "final"]
  /\ UNCHANGED <<stored, stages, latest, triaged, messages>>

TriageFails(w) ==
  /\ pc[w] = "breaking"
  /\ video' = [video EXCEPT !.triage = "FAILED"]
  /\ Goto(w, "failing")
  /\ UNCHANGED <<job, lease, stages, latest, triaged, messages, work>>

TriageDone(w) ==
  /\ pc[w] = "triaging"
  /\ todo[w] = {}
  /\ video' = [video EXCEPT !.triage = "SUCCEEDED"]
  /\ Goto(w, "completing")
  /\ UNCHANGED <<job, lease, stages, latest, triaged, messages, work>>

-----------------------------------------------------------------------------
(* Ending an execution *)

CompleteJob(w) ==
  /\ pc[w] = "completing"
  /\ job' = [job EXCEPT !.status = "SUCCEEDED", !.retryable = FALSE]
  /\ lease' = "none"
  /\ Stop(w)
  /\ UNCHANGED <<video, stages, latest, triaged, messages>>

FailJob(w) ==
  /\ pc[w] = "failing"
  /\ LET again == trouble[w] = "transient" /\ job.attempt < MaxAttempts
     IN  job' = [job EXCEPT !.status = IF again THEN "RETRY_WAIT" ELSE "FAILED",
                            !.retryable = again]
  /\ lease' = "none"
  /\ Stop(w)
  /\ UNCHANGED <<video, stages, latest, triaged, messages>>

Crash(w) ==
  /\ pc[w] # "idle"
  /\ Stop(w)
  /\ UNCHANGED <<stored, stages, latest, triaged, messages>>

-----------------------------------------------------------------------------
Claim(w) == AnswerSucceeded(w) \/ ClaimRefused(w) \/ ClaimRead(w)

Commit(w) == ClaimCommit(w) \/ ClaimLost(w)

Preprocess(w) ==
  \/ Extract(w) \/ ExtractFails(w) \/ MarkFailed(w) \/ MarkReady(w)
  \/ IndexBatch(w) \/ BatchFails(w) \/ IndexDone(w)

Triage(w) ==
  \/ PoliciesRead(w) \/ TriageStarts(w) \/ CheckKnown(w) \/ CheckStarts(w) \/ ModelAnswers(w)
  \/ ModelFails(w) \/ FailCheck(w) \/ CreateCase(w) \/ FinalizeCase(w)
  \/ RecordCheck(w) \/ TriageBreaks(w) \/ TriageFails(w) \/ TriageDone(w)

Execute(w) == Preprocess(w) \/ Triage(w) \/ CompleteJob(w) \/ FailJob(w)

Environment ==
  \/ Register \/ Upload \/ Requeue \/ QueueLost \/ Retry \/ LeaseExpires
  \/ \E p \in Policies : PolicyPublished(p)
  \/ \E v \in Version : CaseMoves(v) \/ OthersCreateCase(v)

Next ==
  \/ Environment
  \/ \E w \in Workers : Claim(w) \/ Commit(w) \/ Execute(w) \/ Crash(w)

Spec == Init /\ [][Next]_vars

(***************************************************************************)
(* Leases run out, jobs-requeue --due-only runs again and again, a worker  *)
(* goes on with what it started unless it dies, and neither the loss of    *)
(* the queue nor the death of a worker always comes in the short time of   *)
(* taking a message or committing a claim.                                 *)
(***************************************************************************)
Fairness ==
  /\ WF_vars(LeaseExpires)
  /\ WF_vars(Requeue)
  /\ SF_vars(\E w \in Workers : Claim(w))
  /\ SF_vars(\E w \in Workers : Commit(w))
  /\ \A w \in Workers : WF_vars(Execute(w))

FairSpec == Spec /\ Fairness

-----------------------------------------------------------------------------
(* Properties *)

TypeOK ==
  /\ job \in [status: JobStatus, attempt: 0 .. MaxAttempts, retryable: BOOLEAN,
             gateway: Gateway]
  /\ lease \in {"none", "live", "expired"}
  /\ video \in [status: VideoStatus, triage: TriageStatus]
  /\ extracted \in BOOLEAN
  /\ indexed \subseteq Batches
  /\ latest \in [Policies -> 0 .. MaxVersion]
  /\ checks \in [Version -> [status: {"ABSENT", "RUNNING", "SUCCEEDED", "FAILED"},
                             action: TriageAction, case: BOOLEAN]]
  /\ called \subseteq Version
  /\ cases \in [Version -> CaseState]
  /\ messages \in 0 .. MaxMessages
  /\ pc \in [Workers -> Control]
  /\ mine \in [Workers -> 0 .. MaxAttempts]
  /\ batches \in [Workers -> SUBSET Batches]
  /\ todo \in [Workers -> SUBSET Version]
  /\ item \in [Workers -> Version \cup {NoVersion}]
  /\ answer \in [Workers -> TriageAction]
  /\ trouble \in [Workers -> Trouble]

(***************************************************************************)
(* The stages come in order, whichever workers, attempts and duplicates    *)
(* executed them: only an extracted video is READY or indexed, no policy   *)
(* is checked before every document is indexed, and a job succeeds only    *)
(* then (process_job, index_video, triage and complete_job).               *)
(***************************************************************************)
StagesInOrder ==
  /\ video.status = "READY" \/ indexed # {} => extracted
  /\ \A v \in Version : checks[v].status # "ABSENT" => extracted /\ indexed = Batches
  /\ job.status = "SUCCEEDED" \/ video.triage # "PENDING" =>
       extracted /\ indexed = Batches

(***************************************************************************)
(* What a check says is there: a check with a case has it, one that asked  *)
(* for a human has that case decided, and one that succeeded has a model   *)
(* call on record unless the mock gateway answered, though two workers may *)
(* have asked about the same version and got different answers, of which   *)
(* the later overwrites the earlier (_check_policy).  The converse is not  *)
(* true: others create cases too, and a check may be overwritten with SKIP *)
(* after its case was created.                                             *)
(***************************************************************************)
CasesMatchChecks ==
  \A v \in Version :
    /\ checks[v].case => cases[v] # "ABSENT"
    /\ checks[v].case /\ checks[v].action = "NEEDS_HUMAN_REVIEW" =>
         cases[v] = "DECIDED"
    /\ checks[v].status = "SUCCEEDED" => (v \in called <=> job.gateway = "model")

(***************************************************************************)
(* Every execution that claims the job has an attempt of its own: no two   *)
(* workers hold the same one, whatever they read before the conditional    *)
(* UPDATE, so max_attempts bounds the extractions that are ever started.   *)
(***************************************************************************)
AttemptsAreExclusive ==
  \A w \in Workers :
    /\ mine[w] <= job.attempt
    /\ \A u \in Workers : mine[u] = mine[w] /\ mine[w] # 0 => u = w
    /\ pc[w] \in {"extracting", "extracted"} => mine[w] # 0

Ended == job.status \in {"SUCCEEDED", "FAILED"}

\* The attempts are used up and nobody executes one of them any more.
Abandoned == job.attempt = MaxAttempts /\ \A w \in Workers : mine[w] = 0

(***************************************************************************)
(* A registered video's job ends, through any deaths, lost queues,         *)
(* duplicates and transient failures, unless its last attempt was lost     *)
(* with its worker (leases, fail_job and jobs-requeue).                    *)
(***************************************************************************)
JobEnds == job.status = "PENDING" /\ job.attempt = 0 ~> Ended \/ Abandoned

=============================================================================
