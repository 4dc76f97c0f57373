---------------------------- MODULE MediaJobProofs ----------------------------
(***************************************************************************)
(* Proofs about MediaJob, for any number of workers, batches, policies,    *)
(* versions, attempts and messages.                                        *)
(***************************************************************************)
EXTENDS MediaJob, TLAPS

\* Where a worker has a check in hand.
Checking == {"asking", "refused", "creating", "finalizing", "recording"}

\* A check in hand is the check of a policy version.
ItemHeld == \A w \in Workers : pc[w] \in Checking => item[w] \in Version

Typed == TypeOK /\ ItemHeld

-----------------------------------------------------------------------------
(* Types *)

LEMMA NoVersionIsNone == NoVersion \notin Version
BY DEF NoVersion, Version

LEMMA InitTyped == Init => Typed
<1> SUFFICES ASSUME Init
             PROVE  Typed
  OBVIOUS
<1>1. 0 .. 1 \subseteq 0 .. MaxVersion
  BY MediaBounds
<1>2. latest \in [Policies -> 0 .. MaxVersion]
  BY <1>1 DEF Init
<1>3. NoCheck \in [status: {"ABSENT", "RUNNING", "SUCCEEDED", "FAILED"},
                   action: TriageAction, case: BOOLEAN]
  BY DEF NoCheck, TriageAction
<1>4. checks \in [Version -> [status: {"ABSENT", "RUNNING", "SUCCEEDED", "FAILED"},
                               action: TriageAction, case: BOOLEAN]]
  BY <1>3 DEF Init
<1>5. /\ job \in [status: JobStatus, attempt: 0 .. MaxAttempts, retryable: BOOLEAN,
                 gateway: Gateway]
      /\ messages \in 0 .. MaxMessages
      /\ mine \in [Workers -> 0 .. MaxAttempts]
  BY MediaBounds DEF Init, JobStatus, Gateway
<1>6. /\ video \in [status: VideoStatus, triage: TriageStatus]
      /\ cases \in [Version -> CaseState]
      /\ pc \in [Workers -> Control]
      /\ answer \in [Workers -> TriageAction]
      /\ trouble \in [Workers -> Trouble]
  BY DEF Init, VideoStatus, TriageStatus, TriageAction, CaseState, Trouble, Control
<1>7. TypeOK
  BY <1>2, <1>4, <1>5, <1>6 DEF Init, TypeOK
<1>8. QED
  BY <1>7 DEF Init, Typed, ItemHeld, Checking

LEMMA StopTyped ==
  ASSUME Typed, NEW w \in Workers, Stop(w)
  PROVE  /\ pc' \in [Workers -> Control]
         /\ mine' \in [Workers -> 0 .. MaxAttempts]
         /\ batches' \in [Workers -> SUBSET Batches]
         /\ todo' \in [Workers -> SUBSET Version]
         /\ item' \in [Workers -> Version \cup {NoVersion}]
         /\ answer' \in [Workers -> TriageAction]
         /\ trouble' \in [Workers -> Trouble]
         /\ ItemHeld'
BY MediaBounds DEF Typed, TypeOK, ItemHeld, Checking, Stop, Goto, Control, TriageAction,
   Trouble

LEMMA FailsTyped ==
  ASSUME Typed, NEW w \in Workers, NEW label \in {"failing", "undone"},
         NEW kind \in Trouble, Fails(w, label, kind)
  PROVE  /\ pc' \in [Workers -> Control]
         /\ trouble' \in [Workers -> Trouble]
         /\ UNCHANGED <<mine, batches, todo, item, answer>>
         /\ ItemHeld'
BY DEF Typed, TypeOK, ItemHeld, Checking, Fails, Goto, Control

LEMMA BreaksTyped ==
  ASSUME Typed, NEW w \in Workers, Breaks(w), trouble' \in [Workers -> Trouble],
         UNCHANGED <<stored, stages, latest, called, cases, messages>>,
         checks' \in [Version -> [status: {"ABSENT", "RUNNING", "SUCCEEDED", "FAILED"},
                                 action: TriageAction, case: BOOLEAN]]
  PROVE  Typed'
BY DEF Typed, TypeOK, ItemHeld, Checking, Breaks, Goto, stored, stages, Control,
   TriageAction

LEMMA EnvironmentTyped == Typed /\ Environment => Typed'
<1> SUFFICES ASSUME Typed, Environment
             PROVE  Typed'
  OBVIOUS
<1> USE DEF Typed, TypeOK, ItemHeld
<1>1. CASE Register
  BY <1>1 DEF Register, stages, triaged, work, JobStatus, VideoStatus
<1>2. CASE Upload \/ Requeue
  BY <1>2, MediaBounds DEF Upload, Requeue, Enqueue, stored, stages, triaged, work
<1>3. CASE QueueLost
  BY <1>3, MediaBounds DEF QueueLost, stored, stages, triaged, work
<1>4. CASE Retry
  BY <1>4, MediaBounds DEF Retry, stages, triaged, work, JobStatus
<1>5. CASE LeaseExpires
  BY <1>5 DEF LeaseExpires, stages, triaged, work
<1>6. CASE \E p \in Policies : PolicyPublished(p)
  BY <1>6, MediaBounds DEF PolicyPublished, stored, stages, triaged, work
<1>7. CASE \E v \in Version : CaseMoves(v) \/ OthersCreateCase(v)
  BY <1>7 DEF CaseMoves, OthersCreateCase, stored, stages, work, CaseState
<1>8. QED
  BY <1>1, <1>2, <1>3, <1>4, <1>5, <1>6, <1>7 DEF Environment

LEMMA ClaimTyped == ASSUME Typed, NEW w \in Workers, Claim(w) \/ Commit(w) PROVE Typed'
<1>1. CASE AnswerSucceeded(w)
  BY <1>1, MediaBounds DEF Typed, TypeOK, ItemHeld, Checking, AnswerSucceeded, Unembedded, Receive,
     Goto, stored, stages, triaged, Control
<1>2. CASE ClaimRefused(w)
  <2>1. Fails(w, "failing", "final") /\ "final" \in Trouble
    BY <1>2 DEF ClaimRefused, Trouble
  <2>2. QED
    BY <1>2, <2>1, FailsTyped, MediaBounds
       DEF Typed, TypeOK, ClaimRefused, Receive, stored, stages, triaged
<1>3. CASE ClaimRead(w)
  BY <1>3, MediaBounds DEF Typed, TypeOK, ItemHeld, Checking, ClaimRead, Receive, Goto,
     stored, stages, triaged, work, Control
<1>4. CASE ClaimCommit(w)
  <2>1. Claimable
    BY <1>4 DEF ClaimCommit
  <2>2. NextAttempt \in 0 .. MaxAttempts
    BY <2>1, MediaBounds DEF Typed, TypeOK, Claimable, NextAttempt
  <2>3. CASE AlreadyExtracted
    <3>1. Batches \ indexed \in SUBSET Batches
      OBVIOUS
    <3>2. batches' \in [Workers -> SUBSET Batches]
      BY <1>4, <2>3, <3>1 DEF Typed, TypeOK, ClaimCommit, Unembedded
    <3>3. QED
      BY <1>4, <2>2, <2>3, <3>2 DEF Typed, TypeOK, ItemHeld, Checking, ClaimCommit, Unembedded, Goto,
         stages, triaged, Control, JobStatus
  <2>4. CASE ~AlreadyExtracted
    BY <1>4, <2>2, <2>4 DEF Typed, TypeOK, ItemHeld, Checking, ClaimCommit, Unembedded, Goto, stages,
       triaged, Control, JobStatus, VideoStatus
  <2>5. QED
    BY <2>3, <2>4
<1>5. CASE ClaimLost(w)
  <2>1. Fails(w, "failing", "final") /\ "final" \in Trouble
    BY <1>5 DEF ClaimLost, Trouble
  <2>2. QED
    BY <1>5, <2>1, FailsTyped DEF Typed, TypeOK, ClaimLost, stored, stages, triaged
<1>6. QED
  BY <1>1, <1>2, <1>3, <1>4, <1>5 DEF Claim, Commit

LEMMA PreprocessTyped == ASSUME Typed, NEW w \in Workers, Preprocess(w) PROVE Typed'
<1>1. CASE Extract(w)
  BY <1>1 DEF Typed, TypeOK, ItemHeld, Checking, Extract, Goto, stored, triaged, work,
     Control
<1>2. CASE ExtractFails(w)
  <2>1. PICK kind \in {"final", "transient"} : Fails(w, "undone", kind)
    BY <1>2 DEF ExtractFails
  <2>2. kind \in Trouble
    BY DEF Trouble
  <2>3. QED
    BY <1>2, <2>1, <2>2, FailsTyped DEF Typed, TypeOK, ExtractFails, stored, stages, triaged
<1>3. CASE MarkFailed(w)
  BY <1>3 DEF Typed, TypeOK, ItemHeld, Checking, MarkFailed, Goto, stages, triaged, work,
     Control, JobStatus, VideoStatus
<1>4. CASE MarkReady(w)
  BY <1>4 DEF Typed, TypeOK, ItemHeld, Checking, MarkReady, Unembedded, Goto, stages, triaged,
     Control, VideoStatus
<1>5. CASE IndexBatch(w)
  BY <1>5 DEF Typed, TypeOK, ItemHeld, IndexBatch, stored, triaged
<1>6. CASE BatchFails(w)
  BY <1>6 DEF Typed, TypeOK, ItemHeld, BatchFails, stored, stages, triaged, Trouble
<1>7. CASE IndexDone(w)
  BY <1>7 DEF Typed, TypeOK, ItemHeld, Checking, IndexDone, Goto, stored, stages, triaged,
     work, Control
<1>8. QED
  BY <1>1, <1>2, <1>3, <1>4, <1>5, <1>6, <1>7 DEF Preprocess

LEMMA TriageTyped == ASSUME Typed, NEW w \in Workers, Triage(w) PROVE Typed'
<1>0. CASE PoliciesRead(w)
  BY <1>0 DEF Typed, TypeOK, ItemHeld, Checking, PoliciesRead, Selected, Goto, stored,
     stages, triaged, Control
<1>1. CASE TriageStarts(w)
  BY <1>1 DEF Typed, TypeOK, ItemHeld, Checking, TriageStarts, Goto, stages, triaged,
     work, Control, TriageStatus
<1>2. CASE CheckKnown(w)
  BY <1>2 DEF Typed, TypeOK, ItemHeld, CheckKnown, stored, stages, triaged
<1>3. CASE CheckStarts(w)
  BY <1>3 DEF Typed, TypeOK, ItemHeld, Checking, CheckStarts, Goto, stored, stages, Control
<1>4. CASE ModelAnswers(w)
  <2>1. called' \subseteq Version
    BY <1>4 DEF Typed, TypeOK, ItemHeld, Checking, ModelAnswers, Recorded
  <2>2. QED
    BY <1>4, <2>1 DEF Typed, TypeOK, ItemHeld, Checking, ModelAnswers, Goto, stored,
       stages, Control
<1>5. CASE ModelFails(w)
  <2>1. called' \subseteq Version
    BY <1>5 DEF Typed, TypeOK, ItemHeld, Checking, ModelFails, Recorded
  <2>2. QED
    BY <1>5, <2>1 DEF Typed, TypeOK, ItemHeld, Checking, ModelFails, Fails, Goto, stored,
       stages, Control, Trouble
<1>6. CASE FailCheck(w)
  BY <1>6, BreaksTyped DEF Typed, TypeOK, ItemHeld, Checking, FailCheck
<1>7. CASE CreateCase(w)
  BY <1>7 DEF Typed, TypeOK, ItemHeld, Checking, CreateCase, Goto, stored, stages, work,
     Control, CaseState
<1>8. CASE FinalizeCase(w)
  BY <1>8 DEF Typed, TypeOK, ItemHeld, Checking, FinalizeCase, Goto, stored, stages, work,
     Control, CaseState
<1>9. CASE RecordCheck(w)
  BY <1>9 DEF Typed, TypeOK, ItemHeld, Checking, RecordCheck, Goto, stored, stages,
     Control, TriageAction
<1>10. CASE TriageBreaks(w)
  <2>1. trouble' \in [Workers -> Trouble]
    BY <1>10 DEF Typed, TypeOK, TriageBreaks, Trouble
  <2>2. QED
    BY <1>10, <2>1, BreaksTyped DEF Typed, TypeOK, TriageBreaks, triaged
<1>11. CASE TriageFails(w)
  BY <1>11 DEF Typed, TypeOK, ItemHeld, Checking, TriageFails, Goto, stages, triaged, work,
     Control, TriageStatus
<1>12. CASE TriageDone(w)
  BY <1>12 DEF Typed, TypeOK, ItemHeld, Checking, TriageDone, Goto, stages, triaged, work,
     Control, TriageStatus
<1>13. QED
  BY <1>0, <1>1, <1>2, <1>3, <1>4, <1>5, <1>6, <1>7, <1>8, <1>9, <1>10, <1>11, <1>12
     DEF Triage

LEMMA EndTyped ==
  ASSUME Typed, NEW w \in Workers, CompleteJob(w) \/ FailJob(w) \/ Crash(w)
  PROVE  Typed'
<1>1. Stop(w)
  BY DEF CompleteJob, FailJob, Crash
<1>2. CASE CompleteJob(w)
  BY <1>1, <1>2, StopTyped DEF Typed, TypeOK, CompleteJob, stages, triaged, JobStatus
<1>3. CASE FailJob(w)
  BY <1>1, <1>3, StopTyped DEF Typed, TypeOK, FailJob, stages, triaged, JobStatus
<1>4. CASE Crash(w)
  BY <1>1, <1>4, StopTyped DEF Typed, TypeOK, Crash, stored, stages, triaged
<1>5. QED
  BY <1>2, <1>3, <1>4

LEMMA TypedStays == Typed /\ [Next]_vars => Typed'
<1> SUFFICES ASSUME Typed, [Next]_vars
             PROVE  Typed'
  OBVIOUS
<1>1. CASE UNCHANGED vars
  BY <1>1 DEF Typed, TypeOK, ItemHeld, vars
<1>2. CASE Next
  BY <1>2, EnvironmentTyped, ClaimTyped, PreprocessTyped, TriageTyped, EndTyped
     DEF Next, Execute
<1>3. QED
  BY <1>1, <1>2

(***************************************************************************)
(* The rows and the workers' memory keep their types; a worker that has a  *)
(* check in hand knows whose it is (process_job, triage, _check_policy).   *)
(***************************************************************************)
THEOREM TypeCorrect == Spec => []TypeOK
<1>1. Spec => []Typed
  BY InitTyped, TypedStays, PTL DEF Spec
<1>2. Typed => TypeOK
  BY DEF Typed
<1>3. QED
  BY <1>1, <1>2, PTL

-----------------------------------------------------------------------------
(* The stages *)

AfterIndex == Checking \cup {"starting", "selected", "triaging", "breaking", "completing"}

\* What a worker knows of the stages before the one it is in.
StagesKnown ==
  \A w \in Workers :
    /\ pc[w] \in AfterIndex \cup {"extracted", "indexing"} => extracted
    /\ pc[w] \in AfterIndex => indexed = Batches
    /\ pc[w] = "indexing" /\ trouble[w] = "none" => Batches \subseteq indexed \cup batches[w]

StageInv == StagesInOrder /\ StagesKnown

LEMMA StagesQuiet ==
  ASSUME Typed, StageInv, Environment \/ UNCHANGED vars PROVE StageInv'
<1>1. /\ UNCHANGED <<extracted, indexed, checks, pc, trouble, batches>>
      /\ video'.triage = video.triage
      /\ video'.status = "READY" => video.status = "READY"
      /\ job'.status = "SUCCEEDED" => job.status = "SUCCEEDED"
  BY DEF Typed, TypeOK, Environment, Register, Upload, Requeue, Enqueue, QueueLost, Retry,
     LeaseExpires, PolicyPublished, CaseMoves, OthersCreateCase, stages, triaged, work, stored, vars
<1>2. QED
  BY <1>1 DEF StageInv, StagesInOrder, StagesKnown

LEMMA StagesClaim ==
  ASSUME Typed, StageInv, NEW w \in Workers, Claim(w) \/ Commit(w) PROVE StageInv'
<1> USE DEF Typed, TypeOK, StageInv, StagesInOrder, StagesKnown, AfterIndex, Checking
<1>1. CASE AnswerSucceeded(w)
  BY <1>1 DEF AnswerSucceeded, Unembedded, Receive, Goto, stored, stages, triaged
<1>2. CASE ClaimRefused(w) \/ ClaimLost(w)
  BY <1>2 DEF ClaimRefused, ClaimLost, Receive, Fails, Goto, stored, stages, triaged
<1>3. CASE ClaimRead(w)
  BY <1>3 DEF ClaimRead, Receive, Goto, stored, stages, triaged, work
<1>4. CASE ClaimCommit(w)
  <2>1. CASE AlreadyExtracted
    BY <1>4, <2>1 DEF ClaimCommit, Unembedded, AlreadyExtracted, Goto, stages, triaged
  <2>2. CASE ~AlreadyExtracted
    BY <1>4, <2>2 DEF ClaimCommit, Goto, stages, triaged
  <2>3. QED
    BY <2>1, <2>2
<1>5. QED
  BY <1>1, <1>2, <1>3, <1>4 DEF Claim, Commit

LEMMA StagesPreprocess ==
  ASSUME Typed, StageInv, NEW w \in Workers, Preprocess(w) PROVE StageInv'
<1> USE DEF Typed, TypeOK, StageInv, StagesInOrder, StagesKnown, AfterIndex, Checking
<1>1. CASE Extract(w)
  BY <1>1 DEF Extract, Goto, stored, triaged, work
<1>2. CASE ExtractFails(w)
  BY <1>2 DEF ExtractFails, Fails, Goto, stored, stages, triaged
<1>3. CASE MarkFailed(w)
  BY <1>3 DEF MarkFailed, Goto, stages, triaged, work
<1>4. CASE MarkReady(w)
  BY <1>4 DEF MarkReady, Unembedded, Goto, stages, triaged
<1>5. CASE IndexBatch(w)
  BY <1>5 DEF IndexBatch, stored, triaged
<1>6. CASE BatchFails(w)
  BY <1>6 DEF BatchFails, stored, stages, triaged
<1>7. CASE IndexDone(w)
  BY <1>7 DEF IndexDone, Goto, stored, stages, triaged, work
<1>8. QED
  BY <1>1, <1>2, <1>3, <1>4, <1>5, <1>6, <1>7 DEF Preprocess

LEMMA StagesTriage ==
  ASSUME Typed, StageInv, NEW w \in Workers, Triage(w) PROVE StageInv'
<1> USE DEF Typed, TypeOK, StageInv, StagesInOrder, StagesKnown, AfterIndex, Checking
<1>1. CASE PoliciesRead(w) \/ TriageStarts(w)
  BY <1>1 DEF PoliciesRead, TriageStarts, Goto, stored, stages, triaged, work
<1>2. CASE CheckKnown(w)
  BY <1>2 DEF CheckKnown, stored, stages, triaged
<1>3. CASE CheckStarts(w)
  BY <1>3 DEF CheckStarts, Goto, stored, stages
<1>4. CASE ModelAnswers(w) \/ ModelFails(w)
  BY <1>4 DEF ModelAnswers, ModelFails, Fails, Goto, stored, stages
<1>5. CASE FailCheck(w)
  BY <1>5 DEF FailCheck, Breaks, Goto, stored, stages
<1>6. CASE CreateCase(w) \/ FinalizeCase(w)
  BY <1>6 DEF CreateCase, FinalizeCase, Goto, stored, stages, work
<1>7. CASE RecordCheck(w)
  BY <1>7 DEF RecordCheck, Goto, stored, stages
<1>8. CASE TriageBreaks(w)
  BY <1>8 DEF TriageBreaks, Breaks, Goto, stored, stages, triaged
<1>9. CASE TriageFails(w) \/ TriageDone(w)
  BY <1>9 DEF TriageFails, TriageDone, Goto, stages, triaged, work
<1>10. QED
  BY <1>1, <1>2, <1>3, <1>4, <1>5, <1>6, <1>7, <1>8, <1>9 DEF Triage

LEMMA StagesEnd ==
  ASSUME Typed, StageInv, NEW w \in Workers, CompleteJob(w) \/ FailJob(w) \/ Crash(w)
  PROVE  StageInv'
<1>1. /\ UNCHANGED <<extracted, indexed, checks, video>>
      /\ pc' = [pc EXCEPT ![w] = "idle"]
      /\ trouble' = [trouble EXCEPT ![w] = "none"]
      /\ batches' = [batches EXCEPT ![w] = {}]
      /\ job'.status = "SUCCEEDED" => job.status = "SUCCEEDED" \/ pc[w] = "completing"
  BY DEF Typed, TypeOK, CompleteJob, FailJob, Crash, Stop, Goto, stages, triaged, stored
<1>2. QED
  BY <1>1 DEF Typed, TypeOK, StageInv, StagesInOrder, StagesKnown, AfterIndex, Checking

(***************************************************************************)
(* The stages of a video come in order, whoever executes them: a worker    *)
(* knows that the stages before its own are done, and they stay done       *)
(* (process_job, index_video, triage, complete_job).                       *)
(***************************************************************************)
THEOREM StagesOrdered == Spec => []StagesInOrder
<1>1. Init => StageInv
  BY DEF Init, StageInv, StagesInOrder, StagesKnown, AfterIndex, Checking, NoCheck
<1>2. Typed /\ StageInv /\ [Next]_vars => StageInv'
  <2> SUFFICES ASSUME Typed, StageInv, [Next]_vars
               PROVE  StageInv'
    OBVIOUS
  <2>1. CASE Environment \/ UNCHANGED vars
    BY <2>1, StagesQuiet
  <2>2. CASE \E w \in Workers : Claim(w) \/ Commit(w) \/ Execute(w) \/ Crash(w)
    BY <2>2, StagesClaim, StagesPreprocess, StagesTriage, StagesEnd DEF Execute
  <2>3. QED
    BY <2>1, <2>2 DEF Next
<1>3. Spec => []StageInv
  BY <1>1, <1>2, InitTyped, TypedStays, PTL DEF Spec
<1>4. StageInv => StagesInOrder
  BY DEF StageInv
<1>5. QED
  BY <1>3, <1>4, PTL

-----------------------------------------------------------------------------
(* The attempts *)

(***************************************************************************)
(* An attempt is claimed by one execution only: the UPDATE counts from     *)
(* the row it changes, not from what the worker read (process_job).        *)
(***************************************************************************)
THEOREM AttemptsExclusive == Spec => []AttemptsAreExclusive
<1>1. Init => AttemptsAreExclusive
  <2> SUFFICES ASSUME Init
               PROVE  AttemptsAreExclusive
    OBVIOUS
  <2>1. job.attempt = 0
    BY DEF Init
  <2>2. \A w \in Workers : mine[w] = 0 /\ pc[w] = "idle"
    BY DEF Init
  <2>3. \A w \in Workers : mine[w] <= job.attempt
    <3>1. 0 <= 0
      OBVIOUS
    <3>2. QED
      BY <2>1, <2>2, <3>1, Zenon
  <2>4. \A w \in Workers : pc[w] \notin {"extracting", "extracted"}
    BY <2>2
  <2>5. QED
    BY <2>2, <2>3, <2>4, Zenon DEF AttemptsAreExclusive
<1>2. Typed /\ AttemptsAreExclusive /\ [Next]_vars => AttemptsAreExclusive'
  <2> SUFFICES ASSUME Typed, AttemptsAreExclusive, [Next]_vars
               PROVE  AttemptsAreExclusive'
    OBVIOUS
  <2> USE DEF Typed, TypeOK, AttemptsAreExclusive
  <2>1. CASE Environment \/ UNCHANGED vars
    <3>1. UNCHANGED <<mine, pc>> /\ job'.attempt = job.attempt
      BY <2>1 DEF Environment, Register, Upload, Requeue, Enqueue, QueueLost, Retry,
         LeaseExpires, PolicyPublished, CaseMoves, OthersCreateCase, work, stored, vars
    <3>2. QED
      BY <3>1
  <2>2. ASSUME NEW w \in Workers, ClaimCommit(w)
        PROVE  AttemptsAreExclusive'
    <3>1. /\ mine' = [mine EXCEPT ![w] = job.attempt + 1]
          /\ job'.attempt = job.attempt + 1
          /\ pc' = [pc EXCEPT ![w] = pc'[w]]
      BY <2>2 DEF ClaimCommit, NextAttempt, Goto
    <3>2. QED
      BY <3>1, MediaBounds
  <2>3. ASSUME NEW w \in Workers, CompleteJob(w) \/ FailJob(w) \/ Crash(w)
        PROVE  AttemptsAreExclusive'
    <3>1. /\ mine' = [mine EXCEPT ![w] = 0]
          /\ pc' = [pc EXCEPT ![w] = "idle"]
          /\ job'.attempt = job.attempt
      BY <2>3 DEF CompleteJob, FailJob, Crash, Stop, Goto, stored
    <3>2. QED
      BY <3>1, MediaBounds
  <2>4. ASSUME NEW w \in Workers,
               Claim(w) \/ ClaimLost(w) \/ Preprocess(w) \/ Triage(w)
        PROVE  AttemptsAreExclusive'
    <3>1. mine' = mine /\ job'.attempt = job.attempt
      BY <2>4 DEF Claim, AnswerSucceeded, ClaimRefused, ClaimRead, ClaimLost, Receive,
         Fails, Breaks, Preprocess, Extract, ExtractFails, MarkFailed, MarkReady, IndexBatch,
         BatchFails, IndexDone, Triage, PoliciesRead, TriageStarts, CheckKnown, CheckStarts,
         ModelAnswers, ModelFails, FailCheck, CreateCase, FinalizeCase, RecordCheck,
         TriageBreaks, TriageFails, TriageDone, stored, work
    <3>2. /\ pc' = [pc EXCEPT ![w] = pc'[w]]
          /\ pc'[w] = "extracting" => pc[w] = "extracting"
          /\ pc'[w] = "extracted" => pc[w] \in {"extracting", "extracted"}
      BY <2>4 DEF Claim, AnswerSucceeded, ClaimRefused, ClaimRead, ClaimLost, Receive,
         Fails, Breaks, Goto, Preprocess, Extract, ExtractFails, MarkFailed, MarkReady, IndexBatch,
         BatchFails, IndexDone, Triage, PoliciesRead, TriageStarts, CheckKnown, CheckStarts,
         ModelAnswers, ModelFails, FailCheck, CreateCase, FinalizeCase, RecordCheck,
         TriageBreaks, TriageFails, TriageDone
    <3>3. QED
      BY <3>1, <3>2
  <2>5. QED
    BY <2>1, <2>2, <2>3, <2>4 DEF Next, Execute, Commit
<1>3. QED
  BY <1>1, <1>2, InitTyped, TypedStays, PTL DEF Spec

-----------------------------------------------------------------------------
(* Checks and cases *)

\* What a worker knows of the check it has in hand and of its case.
CheckKnownToWorker ==
  \A w \in Workers :
    /\ pc[w] \in Checking => checks[item[w]].status # "ABSENT"
    /\ pc[w] \in {"creating", "finalizing", "recording"} =>
         (item[w] \in called <=> job.gateway = "model")
    /\ pc[w] = "finalizing" => cases[item[w]] # "ABSENT"
    /\ pc[w] = "recording" /\ answer[w] # "SKIP" => cases[item[w]] # "ABSENT"
    /\ pc[w] = "recording" /\ answer[w] = "NEEDS_HUMAN_REVIEW" =>
         cases[item[w]] = "DECIDED"

\* Nothing happens before the job is registered, with its gateway.
Unregistered ==
  job.status = "ABSENT" =>
    /\ messages = 0 /\ called = {}
    /\ \A v \in Version : checks[v].status = "ABSENT"
    /\ \A w \in Workers : pc[w] = "idle"

MockRecordsNothing == job.gateway = "mock" => called = {}

CaseInv == CasesMatchChecks /\ CheckKnownToWorker /\ MockRecordsNothing /\ Unregistered

\* A worker does not touch the gateway, and works on a registered job only.
LEMMA WorkersKeepGateway ==
  ASSUME Typed, Unregistered, NEW w \in Workers,
         Claim(w) \/ Commit(w) \/ Execute(w) \/ Crash(w)
  PROVE  /\ job'.gateway = job.gateway
         /\ Unregistered'
<1> USE DEF Typed, TypeOK
<1>1. CASE Claim(w)
  <2>1. messages > 0 /\ UNCHANGED job
    BY <1>1 DEF Claim, AnswerSucceeded, ClaimRefused, ClaimRead, Receive, stored
  <2>2. job.status # "ABSENT"
    BY <2>1 DEF Unregistered
  <2> QED
    BY <2>1, <2>2 DEF Unregistered
<1>2. CASE Commit(w) \/ Execute(w) \/ Crash(w)
  <2>1. pc[w] # "idle"
    BY <1>2 DEF Commit, ClaimCommit, ClaimLost, Execute, Preprocess, Triage, Extract,
       ExtractFails, MarkFailed, MarkReady, IndexBatch, BatchFails, IndexDone,
       PoliciesRead, TriageStarts, CheckKnown, CheckStarts, ModelAnswers, ModelFails,
       FailCheck, CreateCase, FinalizeCase, RecordCheck, TriageBreaks, TriageFails,
       TriageDone, CompleteJob, FailJob, Crash
  <2>2. job.status # "ABSENT"
    BY <2>1 DEF Unregistered
  <2>3. job'.gateway = job.gateway /\ job'.status # "ABSENT"
    <3>1. CASE Commit(w)
      BY <2>2, <3>1 DEF Commit, ClaimCommit, ClaimLost, stored
    <3>2. CASE Preprocess(w)
      BY <2>2, <3>2 DEF Preprocess, Extract, ExtractFails, MarkFailed, MarkReady, IndexBatch,
         BatchFails, IndexDone, stored
    <3>3. CASE Triage(w)
      BY <2>2, <3>3 DEF Triage, PoliciesRead, TriageStarts, CheckKnown, CheckStarts,
         ModelAnswers, ModelFails, FailCheck, CreateCase, FinalizeCase, RecordCheck,
         TriageBreaks, TriageFails, TriageDone, stored
    <3>4. CASE CompleteJob(w) \/ FailJob(w) \/ Crash(w)
      BY <2>2, <3>4 DEF CompleteJob, FailJob, Crash, stored
    <3> QED
      BY <1>2, <3>1, <3>2, <3>3, <3>4 DEF Execute
  <2> QED
    BY <2>2, <2>3 DEF Unregistered
<1> QED
  BY <1>1, <1>2

LEMMA CasesQuiet ==
  ASSUME Typed, CaseInv, Environment \/ UNCHANGED vars PROVE CaseInv'
<1>1. UNCHANGED <<checks, called, pc, item, answer>>
  BY DEF Environment, Register, Upload, Requeue, Enqueue, QueueLost, Retry,
     LeaseExpires, PolicyPublished, CaseMoves, OthersCreateCase, stages, triaged, work,
     stored, vars
<1>2. \A v \in Version :
        /\ cases[v] # "ABSENT" => cases'[v] # "ABSENT"
        /\ cases[v] = "DECIDED" => cases'[v] = "DECIDED"
  <2>1. CASE \E u \in Version : CaseMoves(u) \/ OthersCreateCase(u)
    BY <2>1 DEF CaseMoves, OthersCreateCase, Typed, TypeOK
  <2>2. CASE UNCHANGED cases
    BY <2>2
  <2>3. QED
    BY <2>1, <2>2 DEF Environment, Register, Upload, Requeue, Enqueue, QueueLost, Retry,
       LeaseExpires, PolicyPublished, stages, triaged, work, stored, vars
<1>3. CASE Register
  <2>1. job.status = "ABSENT" /\ job'.status # "ABSENT"
    BY <1>3 DEF Register, Typed, TypeOK
  <2>2. /\ called = {}
        /\ \A v \in Version : checks[v].status = "ABSENT"
        /\ \A w \in Workers : pc[w] = "idle"
    BY <2>1 DEF CaseInv, Unregistered
  <2>3. CasesMatchChecks' /\ MockRecordsNothing' /\ Unregistered'
    BY <1>1, <1>2, <2>1, <2>2 DEF CaseInv, CasesMatchChecks, MockRecordsNothing, Unregistered
  <2>4. CheckKnownToWorker'
    BY <1>1, <2>2 DEF CheckKnownToWorker, Checking
  <2> QED
    BY <2>3, <2>4 DEF CaseInv
<1>4. CASE ~Register
  <2>1. job'.gateway = job.gateway /\ (job'.status = "ABSENT" => job.status = "ABSENT")
    BY <1>4 DEF Environment, Upload, Requeue, Enqueue, QueueLost, Retry, LeaseExpires,
       PolicyPublished, CaseMoves, OthersCreateCase, stored, vars, Typed, TypeOK
  <2>2. job.status = "ABSENT" => messages' \in {0, messages}
    BY <1>4 DEF Environment, Upload, Requeue, Due, Enqueue, QueueLost, Retry, LeaseExpires,
       PolicyPublished, CaseMoves, OthersCreateCase, stored, vars
  <2>3. CasesMatchChecks' /\ MockRecordsNothing' /\ Unregistered'
    BY <1>1, <1>2, <2>1, <2>2 DEF CaseInv, CasesMatchChecks, MockRecordsNothing, Unregistered
  <2>4. CheckKnownToWorker'
    BY <1>1, <1>2, <2>1 DEF CaseInv, CheckKnownToWorker, Typed, ItemHeld, Checking
  <2> QED
    BY <2>3, <2>4 DEF CaseInv
<1>5. QED
  BY <1>3, <1>4

LEMMA CasesOutside ==
  ASSUME Typed, CaseInv, NEW w \in Workers,
         \/ Claim(w) \/ Commit(w) \/ Preprocess(w) \/ CompleteJob(w) \/ FailJob(w) \/ Crash(w)
  PROVE  CaseInv'
<1>1. UNCHANGED <<checks, called, cases>>
  BY DEF Claim, Commit, AnswerSucceeded, ClaimRefused, ClaimRead, ClaimCommit, ClaimLost,
     Receive, Preprocess, Extract, ExtractFails, MarkFailed, MarkReady, IndexBatch,
     BatchFails, IndexDone, CompleteJob, FailJob, Crash, triaged
<1>2. /\ \A u \in Workers \ {w} :
           pc'[u] = pc[u] /\ item'[u] = item[u] /\ answer'[u] = answer[u]
      /\ pc'[w] \notin Checking
  <2> USE DEF Typed, TypeOK, Checking, Goto, Stop, Fails, work
  <2>1. CASE Claim(w)
    BY <2>1 DEF Claim, AnswerSucceeded, ClaimRefused, ClaimRead
  <2>2. CASE Commit(w)
    BY <2>2 DEF Commit, ClaimCommit, ClaimLost
  <2>3. CASE Preprocess(w)
    BY <2>3 DEF Preprocess, Extract, ExtractFails, MarkFailed, MarkReady, IndexBatch,
       BatchFails, IndexDone
  <2>4. CASE CompleteJob(w) \/ FailJob(w) \/ Crash(w)
    BY <2>4 DEF CompleteJob, FailJob, Crash
  <2>5. QED
    BY <2>1, <2>2, <2>3, <2>4
<1>3. job'.gateway = job.gateway /\ Unregistered'
  BY WorkersKeepGateway DEF CaseInv, Execute
<1>4. QED
  BY <1>1, <1>2, <1>3 DEF CaseInv, CasesMatchChecks, CheckKnownToWorker, Checking,
     MockRecordsNothing

LEMMA CasesTriage ==
  ASSUME Typed, CaseInv, NEW w \in Workers, Triage(w) PROVE CaseInv'
<1>0. job'.gateway = job.gateway /\ Unregistered'
  BY WorkersKeepGateway DEF CaseInv, Execute
<1> USE DEF Typed, TypeOK, ItemHeld, CaseInv, CasesMatchChecks, CheckKnownToWorker, Checking,
            MockRecordsNothing
<1>1. CASE PoliciesRead(w) \/ TriageStarts(w)
  BY <1>0, <1>1 DEF PoliciesRead, TriageStarts, Goto, triaged, work
<1>2. CASE CheckKnown(w)
  BY <1>0, <1>2 DEF CheckKnown, triaged
<1>3. CASE CheckStarts(w)
  <2>1. PICK v \in todo[w] :
          /\ checks' = [checks EXCEPT ![v].status = "RUNNING"]
          /\ item' = [item EXCEPT ![w] = v]
    BY <1>0, <1>3 DEF CheckStarts
  <2>2. v \in Version
    BY <2>1
  <2>3. /\ UNCHANGED <<called, cases, answer>>
        /\ pc' = [pc EXCEPT ![w] = "asking"]
    BY <1>0, <1>3 DEF CheckStarts, Goto
  <2>4. \A u \in Version :
          /\ checks'[u].case = checks[u].case /\ checks'[u].action = checks[u].action
          /\ checks'[u].status = IF u = v THEN "RUNNING" ELSE checks[u].status
    BY <2>1, <2>2
  <2>5. QED
    BY <1>0, <2>1, <2>2, <2>3, <2>4
<1>4. CASE ModelAnswers(w)
  <2>1. /\ UNCHANGED <<checks, cases, item>>
        /\ \A u \in Workers \ {w} : pc'[u] = pc[u] /\ answer'[u] = answer[u]
        /\ pc[w] = "asking" /\ item[w] \in Version /\ checks[item[w]].status # "ABSENT"
        /\ pc'[w] \in {"recording", "creating"}
        /\ pc'[w] = "recording" => answer'[w] = "SKIP"
    BY <1>4 DEF ModelAnswers, Goto
  <2>2. called' = Recorded(w)
    BY <1>4 DEF ModelAnswers
  <2>3. QED
    BY <1>0, <2>1, <2>2 DEF Recorded, Gateway
<1>5. CASE ModelFails(w)
  BY <1>0, <1>5 DEF ModelFails, Recorded, Fails, Goto
<1>6. CASE FailCheck(w)
  <2>1. /\ UNCHANGED <<called, cases>>
        /\ pc' = [pc EXCEPT ![w] = "breaking"]
        /\ \A u \in Workers \ {w} : item'[u] = item[u] /\ answer'[u] = answer[u]
    BY <1>0, <1>6 DEF FailCheck, Breaks, Goto
  <2>2. item[w] \in Version
    BY <1>0, <1>6 DEF FailCheck
  <2>3. \A u \in Version :
          /\ checks'[u].case = checks[u].case /\ checks'[u].action = checks[u].action
          /\ checks'[u].status = IF u = item[w] THEN "FAILED" ELSE checks[u].status
    BY <1>6, <2>2 DEF FailCheck
  <2>4. QED
    BY <1>0, <2>1, <2>2, <2>3
<1>7. CASE CreateCase(w)
  <2>1. /\ item[w] \in Version /\ checks[item[w]].status # "ABSENT"
        /\ item[w] \in called <=> job.gateway = "model"
    BY <1>0, <1>7 DEF CreateCase
  <2>2. /\ UNCHANGED <<called, checks, item, answer>>
        /\ \A u \in Workers \ {w} : pc'[u] = pc[u]
        /\ pc'[w] = IF answer[w] = "CREATE_CASE" THEN "recording" ELSE "finalizing"
    BY <1>0, <1>7 DEF CreateCase, Goto, work
  <2>3. \A v \in Version :
          cases'[v] = IF v = item[w] /\ cases[v] = "ABSENT" THEN "OPEN" ELSE cases[v]
    BY <1>0, <1>7 DEF CreateCase
  <2>4. QED
    BY <1>0, <2>1, <2>2, <2>3
<1>8. CASE FinalizeCase(w)
  <2>1. item[w] \in Version /\ cases[item[w]] # "ABSENT"
    BY <1>0, <1>8 DEF FinalizeCase
  <2>2. /\ UNCHANGED <<called, checks, item, answer>>
        /\ pc' = [pc EXCEPT ![w] = "recording"]
    BY <1>0, <1>8 DEF FinalizeCase, Goto, work
  <2>3. \A v \in Version : cases'[v] = IF v = item[w] THEN "DECIDED" ELSE cases[v]
    BY <1>0, <1>8 DEF FinalizeCase
  <2>4. CasesMatchChecks' /\ MockRecordsNothing'
    BY <1>0, <2>1, <2>2, <2>3
  <2>5. CheckKnownToWorker'
    BY <1>0, <1>8, <2>1, <2>2, <2>3 DEF FinalizeCase
  <2>6. QED
    BY <1>0, <2>4, <2>5
<1>9. CASE RecordCheck(w)
  <2>1. item[w] \in Version /\ (item[w] \in called <=> job.gateway = "model")
    BY <1>0, <1>9 DEF RecordCheck
  <2>2. /\ UNCHANGED <<called, cases>>
        /\ \A u \in Workers \ {w} :
             pc'[u] = pc[u] /\ item'[u] = item[u] /\ answer'[u] = answer[u]
        /\ pc'[w] = "triaging" /\ pc[w] = "recording"
    BY <1>0, <1>9 DEF RecordCheck, Goto
  <2>3. \A v \in Version :
          checks'[v] = IF v = item[w] THEN [status |-> "SUCCEEDED", action |-> answer[w],
                                            case |-> answer[w] # "SKIP"]
                                      ELSE checks[v]
    BY <1>0, <1>9 DEF RecordCheck
  <2>4. /\ answer[w] # "SKIP" => cases[item[w]] # "ABSENT"
        /\ answer[w] = "NEEDS_HUMAN_REVIEW" => cases[item[w]] = "DECIDED"
    BY <2>2
  <2>5. CasesMatchChecks'
    BY <1>0, <2>1, <2>2, <2>3, <2>4
  <2>6. \A v \in Version : checks[v].status # "ABSENT" => checks'[v].status # "ABSENT"
    BY <2>3
  <2>7. CheckKnownToWorker'
    <3>1. ASSUME NEW u \in Workers, u # w
          PROVE  CheckKnownToWorker!(u)'
      BY <1>0, <2>2, <2>6, <3>1
    <3>2. pc'[w] \notin Checking
      BY <2>2
    <3>3. QED
      BY <2>2, <3>1, <3>2
  <2>8. QED
    BY <1>0, <2>2, <2>5, <2>7
<1>10. CASE TriageBreaks(w)
  BY <1>0, <1>10 DEF TriageBreaks, Breaks, Goto, triaged
<1>11. CASE TriageFails(w) \/ TriageDone(w)
  BY <1>0, <1>11 DEF TriageFails, TriageDone, Goto, triaged, work
<1>12. QED
  BY <1>1, <1>2, <1>3, <1>4, <1>5, <1>6, <1>7, <1>8, <1>9, <1>10, <1>11 DEF Triage

(***************************************************************************)
(* A check has the case and the decision it claims, and the model call     *)
(* unless the mock gateway answered, whatever other workers make of the    *)
(* same check and whoever else creates cases (_check_policy, create_case,  *)
(* finalize_case).                                                         *)
(***************************************************************************)
THEOREM CasesMatch == Spec => []CasesMatchChecks
<1>1. Init => CaseInv
  BY DEF Init, CaseInv, CasesMatchChecks, CheckKnownToWorker, Checking, NoCheck,
     MockRecordsNothing, Unregistered
<1>2. Typed /\ CaseInv /\ [Next]_vars => CaseInv'
  BY CasesQuiet, CasesOutside, CasesTriage DEF Next, Execute
<1>3. CaseInv => CasesMatchChecks
  BY DEF CaseInv
<1>4. QED
  BY <1>1, <1>2, <1>3, InitTyped, TypedStays, PTL DEF Spec

=============================================================================
