----------------------------- MODULE ReplayProofs -----------------------------
(***************************************************************************)
(* Proofs about Replay, for any source versions, videos, cases, workers    *)
(* and attempts.                                                           *)
(***************************************************************************)
EXTENDS Replay, TLAPS

\* Where a worker has an item in hand.
Chosen == {"materializing", "preparing", "claiming", "finalizing", "recording"}

\* A worker that executes knows its replay, and its item past the choice.
Held ==
  \A w \in Workers :
    /\ pc[w] # "idle" => on[w] \in Sources
    /\ pc[w] \in Chosen => at[w] \in Cases

Typed == TypeOK /\ Held

-----------------------------------------------------------------------------
(* Types *)

ItemRow == [status: ItemStatus, target: BOOLEAN, decided: BOOLEAN, decision: Decision]
RunRow == [status: RunStatus, scope: Sources \cup {NoSource, "all"}]
JobRow == [status: JobStatus, attempt: 0 .. MaxAttempts]

LEMMA CaseParts == \A c \in Cases : SourceOf(c) \in Sources /\ VideoOf(c) \in Videos
BY ReplayConstants DEF SourceOf, VideoOf

LEMMA NoDecisionTyped == NoDecision \in Decision
BY DEF NoDecision, Decision

LEMMA RunSet ==
  ASSUME run \in [Videos -> RunRow], NEW v \in Videos, NEW row \in RunRow
  PROVE  [run EXCEPT ![v] = row] \in [Videos -> RunRow]
OBVIOUS

LEMMA RunBecomesTyped ==
  ASSUME run \in [Videos -> RunRow], NEW v \in Videos, NEW status \in RunStatus,
         RunBecomes(v, status)
  PROVE  run' \in [Videos -> RunRow]
<1>1. run' = [run EXCEPT ![v] = [run[v] EXCEPT !.status = status]]
  BY DEF RunBecomes
<1>2. [run[v] EXCEPT !.status = status] \in RunRow
  BY DEF RunRow
<1>3. QED
  BY <1>1, <1>2, RunSet

\* What an evaluation decides weighs the evidence as it is, and repeats nothing
\* unless it is a decision there was.
LEMMA EvaluationTyped ==
  ASSUME Typed, NEW v \in Videos, NEW d \in Evaluations(v)
  PROVE  /\ d \in Decision /\ d.inputs = Inputs(v) /\ d.own = own[v]
         /\ d \in decisions[v] \/ ~d.repeats
<1>1. /\ Inputs(v) \subseteq Cases /\ own[v] \in Findings \cup {AsFound}
      /\ decisions[v] \subseteq Decision
  BY DEF Typed, TypeOK, Inputs
<1>2. CASE Reusable(v) # {}
  <2>1. d \in Reusable(v)
    BY <1>2 DEF Evaluations
  <2>2. QED
    BY <1>1, <2>1 DEF Reusable
<1>3. CASE Reusable(v) = {}
  <2>1. d = [inputs |-> Inputs(v), own |-> own[v], repeats |-> FALSE]
    BY <1>3 DEF Evaluations
  <2>2. d \in Decision
    BY <1>1, <2>1 DEF Decision
  <2>3. QED
    BY <2>1, <2>2
<1>4. QED
  BY <1>2, <1>3

LEMMA InitTyped == Init => Typed
<1> SUFFICES ASSUME Init
             PROVE  Typed
  OBVIOUS
<1>1. job \in [Sources -> JobRow]
  BY ReplayConstants DEF Init, JobRow, JobStatus
<1>2. item \in [Cases -> ItemRow]
  BY NoDecisionTyped DEF Init, ItemRow, ItemStatus
<1>3. /\ run \in [Videos -> RunRow]
      /\ replay \in [Sources -> JobStatus]
      /\ pc \in [Workers -> Control]
      /\ got \in [Workers -> Decision]
  BY NoDecisionTyped DEF Init, RunRow, RunStatus, JobStatus, Control
<1>4. TypeOK
  BY <1>1, <1>2, <1>3 DEF Init, TypeOK, JobRow, RunRow, ItemRow
<1>5. QED
  BY <1>4 DEF Init, Typed, Held, Chosen

LEMMA StopTyped ==
  ASSUME Typed, NEW w \in Workers, Stop(w)
  PROVE  /\ pc' \in [Workers -> Control]
         /\ on' \in [Workers -> Sources \cup {NoSource}]
         /\ left' \in [Workers -> SUBSET Cases]
         /\ at' \in [Workers -> Cases \cup {NoCase}]
         /\ fresh' \in [Workers -> BOOLEAN]
         /\ got' \in [Workers -> Decision]
         /\ same' \in [Workers -> BOOLEAN]
         /\ Held'
BY NoDecisionTyped DEF Typed, TypeOK, Held, Chosen, Stop, Goto, Control

LEMMA OutsideTyped ==
  ASSUME Typed,
         \/ \E s \in Sources : Prepare(s)
         \/ \E v \in Videos : Others(v)
  PROVE  Typed'
<1> USE DEF Typed, TypeOK, Held, JobRow, RunRow, ItemRow
<1>1. ASSUME NEW s \in Sources, Prepare(s)
      PROVE  Typed'
  <2>1. job' \in [Sources -> JobRow]
    BY <1>1 DEF Prepare, JobStatus
  <2>2. PICK blocked \in SUBSET (ItemsOf(s) \cap Open) :
          item' = [c \in Cases |->
                     IF c \in blocked THEN [item[c] EXCEPT !.status = "NEEDS_HUMAN_REVIEW"]
                     ELSE IF c \in ItemsOf(s) THEN [item[c] EXCEPT !.status = "PENDING"]
                     ELSE item[c]]
    BY <1>1 DEF Prepare
  <2>3. item' \in [Cases -> ItemRow]
    BY <2>2 DEF ItemStatus, Settled
  <2>4. replay' \in [Sources -> JobStatus]
    BY <1>1 DEF Prepare, JobStatus
  <2>5. QED
    BY <1>1, <2>1, <2>3, <2>4 DEF Prepare, cases, hands
<1>2. ASSUME NEW v \in Videos, OthersCreate(v)
      PROVE  Typed'
  BY <1>2 DEF OthersCreate, rows, hands
<1>3. ASSUME NEW v \in Videos, OthersPrepare(v) \/ OthersClaim(v) \/ RunEnds(v)
      PROVE  Typed'
  <2>1. run' \in [Videos -> RunRow]
    <3>1. [status |-> "PENDING", scope |-> "all"] \in RunRow
      BY DEF RunStatus
    <3>2. {"RUNNING", "DONE", "FAILED"} \subseteq RunStatus
      BY DEF RunStatus
    <3>3. run \in [Videos -> RunRow]
      OBVIOUS
    <3> HIDE DEF RunRow, Typed, TypeOK
    <3>4. CASE OthersPrepare(v)
      BY <3>1, <3>3, <3>4, RunSet DEF OthersPrepare
    <3>5. CASE OthersClaim(v) \/ RunEnds(v)
      BY <3>2, <3>3, <3>5, RunBecomesTyped DEF OthersClaim, RunEnds
    <3>6. QED
      BY <1>3, <3>4, <3>5
  <2>2. QED
    BY <1>3, <2>1 DEF OthersPrepare, OthersClaim, RunEnds, rows, hands
<1>4. ASSUME NEW v \in Videos, FindingsChange(v)
      PROVE  Typed'
  BY <1>4 DEF FindingsChange, rows, hands
<1>5. ASSUME NEW v \in Videos, OthersFinalize(v)
      PROVE  Typed'
  <2>1. PICK d \in Evaluations(v) : Finalized(v, d)
    BY <1>5 DEF OthersFinalize
  <2>2. d \in Decision
    BY EvaluationTyped
  <2>3. QED
    BY <1>5, <2>1, <2>2 DEF OthersFinalize, Finalized, rows, hands
<1>6. QED
  BY <1>1, <1>2, <1>3, <1>4, <1>5 DEF Others

LEMMA ClaimTyped ==
  ASSUME Typed, NEW w \in Workers, NEW s \in Sources, Claim(w, s) \/ ClaimSucceeded(w, s)
  PROVE  Typed'
<1> USE DEF Typed, TypeOK, Held, JobRow, RunRow, ItemRow
<1>1. ItemsOf(s) \subseteq Cases
  BY DEF ItemsOf
<1>2. CASE Claim(w, s)
  <2>1. job[s].attempt + 1 \in 0 .. MaxAttempts
    BY <1>2, ReplayConstants DEF Claim, Claimable
  <2>2. job' \in [Sources -> JobRow]
    BY <1>2, <2>1 DEF Claim, JobStatus
  <2>3. replay' \in [Sources -> JobStatus]
    BY <1>2 DEF Claim, JobStatus
  <2>4. QED
    BY <1>1, <1>2, <2>2, <2>3 DEF Claim, Begin, Goto, cases, Control, Chosen
<1>3. CASE ClaimSucceeded(w, s)
  BY <1>1, <1>3 DEF ClaimSucceeded, Begin, Goto, rows, cases, Control, Chosen
<1>4. QED
  BY <1>2, <1>3

LEMMA ExecuteTyped ==
  ASSUME Typed, NEW w \in Workers, Execute(w) \/ Crash(w)
  PROVE  Typed'
<1> USE DEF Typed, TypeOK, Held, JobRow, RunRow, ItemRow
<1>1. CASE SkipItem(w)
  BY <1>1 DEF SkipItem, rows, cases
<1>2. CASE PickItem(w)
  BY <1>2 DEF PickItem, Goto, rows, cases, Control, Chosen
<1>3. CASE Materialize(w)
  <2>1. at[w] \in Cases /\ VideoOf(at[w]) \in Videos
    BY <1>3, CaseParts DEF Materialize, Chosen
  <2>2. item' \in [Cases -> ItemRow]
    BY <1>3, <2>1 DEF Materialize, ItemStatus
  <2>3. /\ target' \in [Videos -> {"ABSENT", "READY", "DECIDED"}]
        /\ copied' \subseteq Cases
    BY <1>3, <2>1 DEF Materialize
  <2>4. pc' \in [Workers -> Control] /\ UNCHANGED hands
    BY <1>3 DEF Materialize, Goto, Control
  <2>5. \A u \in Workers \ {w} : pc'[u] = pc[u]
    BY <1>3 DEF Materialize, Goto
  <2>6. QED
    BY <1>3, <2>1, <2>2, <2>3, <2>4, <2>5 DEF Materialize, rows, hands, Chosen
<1>4. CASE PrepareRun(w)
  <2>1. at[w] \in Cases /\ VideoOf(at[w]) \in Videos /\ SourceOf(at[w]) \in Sources
    BY <1>4, CaseParts DEF PrepareRun, Chosen
  <2>2. run' \in [Videos -> RunRow]
    <3>1. [status |-> "PENDING", scope |-> SourceOf(at[w])] \in RunRow
      BY <2>1 DEF RunStatus
    <3>2. run \in [Videos -> RunRow]
      OBVIOUS
    <3> HIDE DEF RunRow, Typed, TypeOK
    <3>3. QED
      BY <1>4, <2>1, <3>1, <3>2, RunSet DEF PrepareRun
  <2>3. QED
    BY <1>4, <2>2 DEF PrepareRun, Goto, rows, hands, Control, Chosen
<1>5. CASE ClaimRun(w)
  <2>1. VideoOf(at[w]) \in Videos
    BY <1>5, CaseParts DEF ClaimRun, Chosen
  <2>2. run' \in [Videos -> RunRow]
    <3>1. "RUNNING" \in RunStatus /\ run \in [Videos -> RunRow]
      BY DEF RunStatus
    <3> HIDE DEF RunRow, Typed, TypeOK
    <3>2. QED
      BY <1>5, <2>1, <3>1, RunBecomesTyped DEF ClaimRun
  <2>3. pc' \in [Workers -> Control] /\ \A u \in Workers \ {w} : pc'[u] = pc[u]
    BY <1>5 DEF ClaimRun, Goto, Control
  <2>4. QED
    BY <1>5, <2>2, <2>3 DEF ClaimRun, rows, hands, Chosen
<1>6. CASE Finalize(w)
  <2>1. VideoOf(at[w]) \in Videos
    BY <1>6, CaseParts DEF Finalize, Chosen
  <2>2. PICK d \in Evaluations(VideoOf(at[w])) :
          Finalized(VideoOf(at[w]), d) /\ got' = [got EXCEPT ![w] = d]
    BY <1>6 DEF Finalize
  <2> d \in Decision
    BY <2>1, EvaluationTyped
  <2>3. /\ decisions' \in [Videos -> SUBSET Decision]
        /\ target' \in [Videos -> {"ABSENT", "READY", "DECIDED"}]
        /\ got' \in [Workers -> Decision]
    BY <2>1, <2>2 DEF Finalized
  <2>4. QED
    BY <1>6, <2>3 DEF Finalize, Goto, rows, Control, Chosen
<1>7. CASE RecordItem(w)
  <2>1. at[w] \in Cases
    BY <1>7 DEF RecordItem, Chosen
  <2>2. item' \in [Cases -> ItemRow]
    BY <1>7, <2>1 DEF RecordItem, ItemStatus, Settled
  <2>3. QED
    BY <1>7, <2>2, NoDecisionTyped DEF RecordItem, Goto, rows, cases, Control, Chosen
<1>8. ASSUME NEW label \in {"succeeding", "failing"}, NEW status \in JobStatus,
             pc[w] # "idle", EndRead(w, label, status)
      PROVE  Typed'
  BY <1>8, NoDecisionTyped DEF EndRead, Goto, rows, cases, Control, Chosen
<1>9. ASSUME NEW label \in {"succeeding", "failing"}, NEW status \in JobStatus,
             EndWrite(w, label, status)
      PROVE  Typed'
  <2>1. Stop(w) /\ on[w] \in Sources /\ UNCHANGED <<item, cases>>
    BY <1>9 DEF EndWrite
  <2>2. job' \in [Sources -> JobRow] /\ replay' \in [Sources -> JobStatus]
    BY <1>9, <2>1 DEF EndWrite
  <2>3. QED
    BY <2>1, <2>2, StopTyped DEF cases
<1>10. CASE End(w)
  BY <1>8, <1>9, <1>10 DEF End, CompleteRead, Complete, FailRead, Fail, JobStatus
<1>11. CASE Crash(w)
  BY <1>11, StopTyped DEF Crash, rows, cases
<1>12. QED
  BY <1>1, <1>2, <1>3, <1>4, <1>5, <1>6, <1>7, <1>10, <1>11 DEF Execute, ExecuteItem

LEMMA TypedStays == Typed /\ [Next]_vars => Typed'
<1> SUFFICES ASSUME Typed, [Next]_vars
             PROVE  Typed'
  OBVIOUS
<1>1. CASE UNCHANGED vars
  BY <1>1 DEF Typed, TypeOK, Held, vars
<1>2. CASE Next
  BY <1>2, OutsideTyped, ClaimTyped, ExecuteTyped DEF Next
<1>3. QED
  BY <1>1, <1>2

(***************************************************************************)
(* The rows and the workers' memory keep their types; no job has more      *)
(* attempts than it may (claim, ck_processing_jobs_attempts).              *)
(***************************************************************************)
THEOREM TypeCorrect == Spec => []TypeOK
<1>1. Spec => []Typed
  BY InitTyped, TypedStays, PTL DEF Spec
<1>2. Typed => TypeOK
  BY DEF Typed
<1>3. QED
  BY <1>1, <1>2, PTL

-----------------------------------------------------------------------------
(* What the rows and the workers agree on *)

Copied == {"preparing", "claiming", "finalizing", "recording"}

\* The statuses of a replay that ended, and where a worker has read its row to end it.
Ended == {"SUCCEEDED", "FAILED"}
Ending == {"succeeding", "failing"}

\* The investigation of an item's target case is the one its plan asked for, and
\* was closed.
Asked(c) ==
  SourceOf(c) \in Scoped =>
    run[VideoOf(c)].status # "ABSENT" /\ run[VideoOf(c)].scope = SourceOf(c)
Investigated(c) ==
  SourceOf(c) \in Scoped =>
    run[VideoOf(c)].status = "DONE" /\ run[VideoOf(c)].scope = SourceOf(c)

\* What a worker knows of the replay it executes and of the item in its hand.
Knows(w) ==
  pc[w] # "idle" =>
    /\ job[on[w]].status # "ABSENT"
    /\ pc[w] \in Ending => (same[w] => replay[on[w]] \in Ended)
    /\ pc[w] = "succeeding" => \A c \in ItemsOf(on[w]) : IsSettled(c)
    /\ pc[w] \in Chosen => at[w] \in ItemsOf(on[w])
    /\ pc[w] \notin Ending =>
         /\ left[w] \subseteq ItemsOf(on[w])
         /\ \A c \in ItemsOf(on[w]) :
              c \in left[w] \/ (pc[w] \in Chosen /\ c = at[w]) \/ IsSettled(c)
    /\ pc[w] = "materializing" => ~IsSettled(at[w])
    /\ pc[w] \in Copied => at[w] \in copied
    /\ pc[w] \in {"claiming", "finalizing"} => Asked(at[w])
    /\ pc[w] = "recording" =>
         Investigated(at[w]) /\ got[w] \in decisions[VideoOf(at[w])] /\ at[w] \in got[w].inputs

\* The rows of one replay: how far the two statuses may differ, and items that are
\* new with it.
JobsAgree ==
  /\ \A s \in Sources :
       /\ replay[s] = job[s].status \/ (replay[s] \in Ended /\ job[s].status \in Ended)
       /\ "SUCCEEDED" \in {replay[s], job[s].status} => \A c \in ItemsOf(s) : IsSettled(c)
  /\ \A c \in Cases :
       /\ job[SourceOf(c)].status = "ABSENT" =>
            ~item[c].target /\ ~item[c].decided /\ ~IsSettled(c)
       /\ c \in copied <=> item[c].target

\* The decisions of one target case: they weighed what was copied to it, and
\* none repeats another.
DecisionsDiffer ==
  \A v \in Videos : \A d \in decisions[v] : ~d.repeats /\ d.inputs \subseteq Inputs(v)

ReplayInv ==
  /\ JobsAgree
  /\ DecisionsDiffer
  /\ ResultsAreReplayed
  /\ \A w \in Workers : Knows(w)

\* What no step takes back.
Grows ==
  /\ \A s \in Sources :
       /\ job[s].status # "ABSENT" => job'[s].status # "ABSENT"
       /\ replay[s] \in Ended => replay'[s] \in Ended
  /\ \A c \in Cases : IsSettled(c) => IsSettled(c)'
  /\ \A u \in Workers :
       pc[u] = "materializing" /\ ~IsSettled(at[u]) => ~(item'[at[u]].status \in Settled)
  /\ copied \subseteq copied'
  /\ \A v \in Videos :
       /\ decisions[v] \subseteq decisions'[v]
       /\ run[v].status # "ABSENT" =>
            run'[v].status # "ABSENT" /\ run'[v].scope = run[v].scope
       /\ run[v].status = "DONE" => run'[v].status = "DONE"

LEMMA StillKnows ==
  ASSUME Typed, Grows, NEW u \in Workers, Knows(u),
         pc'[u] = pc[u], on'[u] = on[u], left'[u] = left[u], at'[u] = at[u], got'[u] = got[u],
         same'[u] = same[u]
  PROVE  Knows(u)'
<1> SUFFICES ASSUME pc[u] # "idle"
             PROVE  Knows(u)'
  BY DEF Knows
<1>1. on[u] \in Sources /\ ItemsOf(on[u]) \subseteq Cases
  BY DEF Typed, Held, ItemsOf
<1>2. /\ job'[on[u]].status # "ABSENT"
      /\ replay[on[u]] \in Ended => replay'[on[u]] \in Ended
  BY <1>1 DEF Knows, Grows
<1>3. \A c \in ItemsOf(on[u]) : IsSettled(c) => IsSettled(c)'
  BY <1>1 DEF Grows
<1>4. pc[u] = "materializing" => ~IsSettled(at[u])'
  BY DEF Knows, Grows, IsSettled
<1>5. pc[u] \in Chosen => at[u] \in Cases /\ VideoOf(at[u]) \in Videos
  BY <1>1, CaseParts DEF Knows
<1>6. /\ pc[u] \in Copied => at[u] \in copied'
      /\ pc[u] = "recording" =>
           got[u] \in decisions'[VideoOf(at[u])] /\ at[u] \in got[u].inputs
  BY <1>5 DEF Knows, Grows, Chosen
<1>7. /\ pc[u] \in {"claiming", "finalizing"} => Asked(at[u])'
      /\ pc[u] = "recording" => Investigated(at[u])'
  BY <1>5 DEF Knows, Grows, Asked, Investigated, Chosen
<1>8. pc[u] = "succeeding" => \A c \in ItemsOf(on[u]) : IsSettled(c)'
  BY <1>3 DEF Knows
<1>9. pc[u] \notin Ending =>
        /\ left[u] \subseteq ItemsOf(on[u])
        /\ \A c \in ItemsOf(on[u]) :
             c \in left[u] \/ (pc[u] \in Chosen /\ c = at[u]) \/ IsSettled(c)'
  BY <1>3 DEF Knows
<1>10. pc[u] \in Chosen => at[u] \in ItemsOf(on[u])
  BY DEF Knows
<1>11. pc[u] \in Ending => (same[u] => replay'[on[u]] \in Ended)
  BY <1>2 DEF Knows
<1>12. \A x : ItemsOf(x)' = ItemsOf(x)
  BY DEF ItemsOf
<1>13. QED
  BY <1>2, <1>4, <1>6, <1>7, <1>8, <1>9, <1>10, <1>11, <1>12 DEF Knows

LEMMA StillReplayed ==
  ASSUME Typed, ReplayInv, Grows, UNCHANGED item, UNCHANGED copied
  PROVE  ResultsAreReplayed'
<1>1. \A c \in Cases : item[c].decided /\ SourceOf(c) \in Scoped =>
        run'[VideoOf(c)].status = "DONE" /\ run'[VideoOf(c)].scope = SourceOf(c)
  BY CaseParts DEF ReplayInv, ResultsAreReplayed, Grows
<1>2. \A c \in Cases : item[c].decided => item[c].decision \in decisions'[VideoOf(c)]
  BY CaseParts DEF ReplayInv, ResultsAreReplayed, Grows
<1>3. QED
  BY <1>1, <1>2 DEF ReplayInv, ResultsAreReplayed

LEMMA FinalizedDiffer ==
  ASSUME Typed, ReplayInv, NEW v \in Videos, NEW d \in Evaluations(v), Finalized(v, d),
         UNCHANGED copied
  PROVE  /\ DecisionsDiffer'
         /\ \A x \in Videos : decisions[x] \subseteq decisions'[x]
         /\ d \in decisions'[v]
<1>1. \A x \in Videos : decisions'[x] = IF x = v THEN decisions[x] \cup {d} ELSE decisions[x]
  BY DEF Typed, TypeOK, Finalized
<1>2. ~d.repeats /\ d.inputs = Inputs(v)
  BY EvaluationTyped DEF ReplayInv, DecisionsDiffer
<1>3. \A x \in Videos : Inputs(x)' = Inputs(x)
  BY DEF Inputs
<1>4. DecisionsDiffer'
  BY <1>1, <1>2, <1>3 DEF ReplayInv, DecisionsDiffer
<1>5. QED
  BY <1>1, <1>4

LEMMA RunMoves ==
  ASSUME Typed, NEW v \in Videos, NEW status \in {"RUNNING", "DONE", "FAILED"},
         RunBecomes(v, status), run[v].status = "DONE" => status = "DONE"
  PROVE  \A x \in Videos :
           /\ run[x].status # "ABSENT" =>
                run'[x].status # "ABSENT" /\ run'[x].scope = run[x].scope
           /\ run[x].status = "DONE" => run'[x].status = "DONE"
<1>1. run' = [run EXCEPT ![v].status = status]
  BY DEF RunBecomes
<1>2. run'[v] = [run[v] EXCEPT !.status = status]
  BY <1>1 DEF Typed, TypeOK
<1>3. run'[v].status = status /\ run'[v].scope = run[v].scope
  BY <1>2 DEF Typed, TypeOK
<1>4. ASSUME NEW x \in Videos, x # v
      PROVE  run'[x] = run[x]
  BY <1>1, <1>4 DEF Typed, TypeOK
<1>5. status # "ABSENT"
  OBVIOUS
<1>6. QED
  BY <1>3, <1>4, <1>5

LEMMA OutsideAgrees ==
  ASSUME Typed, ReplayInv,
         \/ \E s \in Sources : Prepare(s)
         \/ \E v \in Videos : Others(v)
  PROVE  ReplayInv'
<1>1. ASSUME NEW s \in Sources, Prepare(s)
      PROVE  ReplayInv'
  <2>1. PICK blocked \in SUBSET (ItemsOf(s) \cap Open) :
          item' = [c \in Cases |->
                     IF c \in blocked THEN [item[c] EXCEPT !.status = "NEEDS_HUMAN_REVIEW"]
                     ELSE IF c \in ItemsOf(s) THEN [item[c] EXCEPT !.status = "PENDING"]
                     ELSE item[c]]
    BY <1>1 DEF Prepare
  <2>2. job[s].status = "ABSENT" /\ UNCHANGED <<cases, pc, hands>>
    BY <1>1 DEF Prepare
  <2>3. \A x \in Sources : job'[x].status = IF x = s THEN "PENDING" ELSE job[x].status
    BY <1>1 DEF Prepare, Typed, TypeOK
  <2>4. \A c \in ItemsOf(s) :
          ~item[c].target /\ ~item[c].decided /\ ~IsSettled(c) /\ c \notin copied
    BY <2>2 DEF ReplayInv, JobsAgree, ItemsOf
  <2>5. \A c \in Cases :
          /\ item'[c].target = item[c].target /\ item'[c].decided = item[c].decided
          /\ item'[c].decision = item[c].decision
          /\ c \notin ItemsOf(s) => item'[c] = item[c]
    BY <2>1 DEF Typed, TypeOK
  <2>6. Grows
    <3>1. \A c \in Cases : IsSettled(c) => IsSettled(c)'
      BY <2>4, <2>5 DEF IsSettled
    <3>2. ASSUME NEW u \in Workers, pc[u] = "materializing", ~IsSettled(at[u])
          PROVE  ~(item'[at[u]].status \in Settled)
      <4>1. on[u] \in Sources /\ job[on[u]].status # "ABSENT" /\ at[u] \in ItemsOf(on[u])
        BY <3>2 DEF ReplayInv, Knows, Typed, Held, Chosen
      <4>2. at[u] \in Cases \ ItemsOf(s)
        BY <2>2, <4>1 DEF ItemsOf
      <4>3. QED
        BY <2>5, <3>2, <4>2 DEF IsSettled
    <3>3. ASSUME NEW x \in Sources, replay[x] \in Ended
          PROVE  replay'[x] \in Ended
      <4>1. x # s
        BY <2>2, <3>3 DEF ReplayInv, JobsAgree, Ended
      <4>2. QED
        BY <1>1, <3>3, <4>1 DEF Prepare, Typed, TypeOK
    <3>4. QED
      BY <2>2, <2>3, <3>1, <3>2, <3>3 DEF Grows, cases
  <2>7. JobsAgree'
    <3>1. \A x \in Sources :
            \/ x = s /\ replay'[x] = "PENDING" /\ job'[x].status = "PENDING"
            \/ replay'[x] = replay[x] /\ job'[x].status = job[x].status
      BY <1>1, <2>3 DEF Prepare, Typed, TypeOK
    <3>2. \A x \in Sources :
            /\ replay'[x] = job'[x].status \/ (replay'[x] \in Ended /\ job'[x].status \in Ended)
            /\ "SUCCEEDED" \in {replay'[x], job'[x].status} => \A c \in ItemsOf(x) : IsSettled(c)'
      BY <3>1, <2>6 DEF ReplayInv, JobsAgree, Grows, ItemsOf
    <3>3. ASSUME NEW c \in Cases
          PROVE  /\ job'[SourceOf(c)].status = "ABSENT" =>
                      ~item'[c].target /\ ~item'[c].decided /\ ~IsSettled(c)'
                 /\ c \in copied' <=> item'[c].target
      <4>1. SourceOf(c) \in Sources
        BY CaseParts
      <4>2. job'[SourceOf(c)].status = "ABSENT" =>
              c \notin ItemsOf(s) /\ job[SourceOf(c)].status = "ABSENT"
        BY <2>3, <4>1 DEF ItemsOf
      <4>3. QED
        BY <2>2, <2>5, <4>2 DEF ReplayInv, JobsAgree, IsSettled, cases
    <3>4. QED
      BY <3>2, <3>3 DEF JobsAgree
  <2>8. DecisionsDiffer'
    BY <2>2 DEF ReplayInv, DecisionsDiffer, Inputs, cases
  <2>9. ResultsAreReplayed'
    <3>1. \A c \in Cases : IsSettled(c)' /\ ~item[c].decided => c \notin copied
      BY <2>4, <2>5 DEF ReplayInv, ResultsAreReplayed, IsSettled
    <3>2. \A c \in Cases : item[c].decided => item'[c] = item[c]
      BY <2>4, <2>5
    <3>3. QED
      BY <2>2, <2>5, <3>1, <3>2 DEF ReplayInv, ResultsAreReplayed, IsSettled, cases
  <2>10. \A u \in Workers : Knows(u)'
    BY <2>2, <2>6, StillKnows DEF ReplayInv, hands
  <2>11. QED
    BY <2>7, <2>8, <2>9, <2>10 DEF ReplayInv
<1>2. ASSUME UNCHANGED <<job, replay, item, copied, pc, hands>>, Grows, DecisionsDiffer'
      PROVE  ReplayInv'
  <2>1. JobsAgree'
    BY <1>2 DEF ReplayInv, JobsAgree, IsSettled
  <2>2. ResultsAreReplayed'
    BY <1>2, StillReplayed
  <2>3. \A u \in Workers : Knows(u)'
    BY <1>2, StillKnows DEF ReplayInv, hands
  <2>4. QED
    BY <1>2, <2>1, <2>2, <2>3 DEF ReplayInv
<1>3. ASSUME UNCHANGED <<decisions, copied>>
      PROVE  DecisionsDiffer'
  BY <1>3 DEF ReplayInv, DecisionsDiffer, Inputs
<1>4. ASSUME NEW v \in Videos, OthersCreate(v) \/ FindingsChange(v)
      PROVE  ReplayInv'
  <2>1. UNCHANGED <<job, replay, item, run, copied, decisions, pc, hands>>
    BY <1>4 DEF OthersCreate, FindingsChange, rows
  <2>2. Grows
    BY <2>1 DEF Grows, IsSettled
  <2>3. QED
    BY <1>2, <1>3, <2>1, <2>2
<1>5. ASSUME NEW v \in Videos, OthersPrepare(v) \/ OthersClaim(v) \/ RunEnds(v)
      PROVE  ReplayInv'
  <2>1. UNCHANGED <<job, replay, item, copied, decisions, pc, hands>>
    BY <1>5 DEF OthersPrepare, OthersClaim, RunEnds, rows
  <2>2. \A x \in Videos :
          /\ run[x].status # "ABSENT" =>
               run'[x].status # "ABSENT" /\ run'[x].scope = run[x].scope
          /\ run[x].status = "DONE" => run'[x].status = "DONE"
    <3>1. CASE OthersPrepare(v)
      BY <3>1 DEF OthersPrepare, Typed, TypeOK
    <3>2. CASE OthersClaim(v) \/ RunEnds(v)
      BY <3>2, RunMoves DEF OthersClaim, RunEnds
    <3>3. QED
      BY <1>5, <3>1, <3>2
  <2>3. QED
    BY <1>2, <1>3, <2>1, <2>2 DEF Grows, IsSettled
<1>6. ASSUME NEW v \in Videos, OthersFinalize(v)
      PROVE  ReplayInv'
  <2>1. UNCHANGED <<job, replay, item, run, copied, pc, hands>>
    BY <1>6 DEF OthersFinalize, rows
  <2>2. DecisionsDiffer' /\ \A x \in Videos : decisions[x] \subseteq decisions'[x]
    BY <1>6, <2>1, FinalizedDiffer DEF OthersFinalize
  <2>3. Grows
    BY <2>1, <2>2 DEF Grows, IsSettled
  <2>4. QED
    BY <1>2, <2>1, <2>2, <2>3
<1>7. QED
  BY <1>1, <1>4, <1>5, <1>6 DEF Others

LEMMA ClaimAgrees ==
  ASSUME Typed, ReplayInv, NEW w \in Workers, NEW s \in Sources,
         Claim(w, s) \/ ClaimSucceeded(w, s)
  PROVE  ReplayInv'
<1>1. /\ Begin(w, s) /\ UNCHANGED <<item, cases, at, got, same>>
      /\ job[s].status # "ABSENT"
  BY DEF Claim, ClaimSucceeded, Claimable, Begin
<1>2. \A x \in Sources :
        \/ job'[x].status = job[x].status /\ replay'[x] = replay[x]
        \/ /\ x = s /\ job'[x].status = "RUNNING" /\ replay'[x] = "RUNNING"
           /\ job[x].status \in {"PENDING", "RUNNING"}
  BY DEF Claim, Claimable, ClaimSucceeded, rows, Typed, TypeOK
<1>3. Grows
  <2>1. \A x \in Sources : replay[x] \in Ended => replay'[x] \in Ended
    BY <1>2 DEF ReplayInv, JobsAgree, Ended
  <2>2. \A x \in Sources : job[x].status # "ABSENT" => job'[x].status # "ABSENT"
    BY <1>2
  <2>3. QED
    BY <1>1, <2>1, <2>2 DEF Grows, IsSettled, cases
<1>4. JobsAgree'
  <2>1. \A x \in Sources :
          /\ replay'[x] = job'[x].status \/ (replay'[x] \in Ended /\ job'[x].status \in Ended)
          /\ "SUCCEEDED" \in {replay'[x], job'[x].status} => \A c \in ItemsOf(x) : IsSettled(c)'
    BY <1>1, <1>2 DEF ReplayInv, JobsAgree, IsSettled
  <2>2. \A x \in Sources : job'[x].status = "ABSENT" => job[x].status = "ABSENT"
    BY <1>2
  <2>3. QED
    BY <1>1, <2>1, <2>2, CaseParts DEF ReplayInv, JobsAgree, IsSettled, cases
<1>5. DecisionsDiffer'
  BY <1>1 DEF ReplayInv, DecisionsDiffer, Inputs, cases
<1>6. ResultsAreReplayed'
  BY <1>1, <1>3, StillReplayed DEF cases
<1>7. ASSUME NEW u \in Workers, u # w
      PROVE  Knows(u)'
  <2>1. /\ pc'[u] = pc[u] /\ on'[u] = on[u] /\ left'[u] = left[u]
        /\ at'[u] = at[u] /\ got'[u] = got[u] /\ same'[u] = same[u]
    BY <1>1, <1>7 DEF Begin, Goto, Typed, TypeOK
  <2>2. QED
    BY <1>3, <2>1, StillKnows DEF ReplayInv
<1>8. Knows(w)'
  <2>1. pc'[w] = "picking" /\ on'[w] = s /\ left'[w] = ItemsOf(s)
    BY <1>1 DEF Begin, Goto, Typed, TypeOK
  <2>2. job'[s].status # "ABSENT"
    BY <1>1, <1>3 DEF Grows
  <2>3. QED
    BY <2>1, <2>2 DEF Knows, Chosen, Copied, Ending, ItemsOf
<1>9. QED
  BY <1>4, <1>5, <1>6, <1>7, <1>8 DEF ReplayInv

-----------------------------------------------------------------------------
(* The steps of a worker *)

\* Only the worker w moves.
Alone(w) ==
  \A u \in Workers \ {w} :
    /\ pc'[u] = pc[u] /\ on'[u] = on[u] /\ left'[u] = left[u]
    /\ at'[u] = at[u] /\ got'[u] = got[u] /\ same'[u] = same[u]

LEMMA AllKnow ==
  ASSUME Typed, ReplayInv, Grows, NEW w \in Workers, Alone(w), Knows(w)'
  PROVE  \A u \in Workers : Knows(u)'
BY StillKnows DEF Alone, ReplayInv

LEMMA SameItems ==
  ASSUME Typed, ReplayInv, Grows, UNCHANGED <<job, replay, item, copied>>, DecisionsDiffer',
         NEW w \in Workers, Alone(w), Knows(w)'
  PROVE  ReplayInv'
<1>1. JobsAgree'
  BY DEF ReplayInv, JobsAgree, IsSettled
<1>2. ResultsAreReplayed'
  BY StillReplayed
<1>3. QED
  BY <1>1, <1>2, AllKnow DEF ReplayInv

LEMMA StillDiffer ==
  ASSUME ReplayInv, UNCHANGED <<decisions, copied>>
  PROVE  DecisionsDiffer'
BY DEF ReplayInv, DecisionsDiffer, Inputs

\* What a worker that is past its choice has in hand.
LEMMA InHand ==
  ASSUME Typed, ReplayInv, NEW w \in Workers, pc[w] \in Chosen
  PROVE  /\ on[w] \in Sources /\ at[w] \in Cases /\ at[w] \in ItemsOf(on[w])
         /\ SourceOf(at[w]) = on[w] /\ VideoOf(at[w]) \in Videos
         /\ job[on[w]].status # "ABSENT"
         /\ Knows(w)
<1>1. Knows(w) /\ on[w] \in Sources /\ pc[w] # "idle"
  BY DEF ReplayInv, Typed, Held, Chosen
<1>2. at[w] \in ItemsOf(on[w]) /\ job[on[w]].status # "ABSENT"
  BY <1>1 DEF Knows
<1>3. QED
  BY <1>1, <1>2, CaseParts DEF ItemsOf

LEMMA ChooseAgrees ==
  ASSUME Typed, ReplayInv, NEW w \in Workers, SkipItem(w) \/ PickItem(w)
  PROVE  ReplayInv'
<1>1. UNCHANGED <<job, replay, item, target, run, copied, decisions, on, got>>
  BY DEF SkipItem, PickItem, rows, cases
<1>2. Grows
  BY <1>1 DEF Grows, IsSettled
<1>3. Alone(w)
  BY DEF SkipItem, PickItem, Goto, Alone, Typed, TypeOK
<1>4. pc[w] = "picking" /\ Knows(w) /\ on[w] \in Sources
  BY DEF SkipItem, PickItem, ReplayInv, Typed, Held
<1>5. Knows(w)'
  <2>1. CASE SkipItem(w)
    <3>1. PICK c \in left[w] : IsSettled(c) /\ left' = [left EXCEPT ![w] = @ \ {c}]
      BY <2>1 DEF SkipItem
    <3>2. left'[w] = left[w] \ {c} /\ pc'[w] = "picking" /\ on'[w] = on[w]
      BY <2>1, <3>1, <1>4 DEF SkipItem, Typed, TypeOK
    <3>3. QED
      BY <1>1, <1>4, <3>1, <3>2 DEF Knows, Chosen, Copied, Ending, IsSettled, ItemsOf
  <2>2. CASE PickItem(w)
    <3>1. PICK c \in left[w] : /\ ~IsSettled(c) /\ at' = [at EXCEPT ![w] = c]
                               /\ left' = [left EXCEPT ![w] = @ \ {c}]
      BY <2>2 DEF PickItem
    <3>2. left'[w] = left[w] \ {c} /\ pc'[w] = "materializing" /\ on'[w] = on[w] /\ at'[w] = c
      BY <1>1, <2>2, <3>1 DEF PickItem, Goto, Typed, TypeOK
    <3>3. QED
      BY <1>1, <1>4, <3>1, <3>2 DEF Knows, Chosen, Copied, Ending, IsSettled, ItemsOf
  <2>3. QED
    BY <2>1, <2>2
<1>6. QED
  BY <1>1, <1>2, <1>3, <1>5, StillDiffer, SameItems

LEMMA MaterializeAgrees ==
  ASSUME Typed, ReplayInv, NEW w \in Workers, Materialize(w)
  PROVE  ReplayInv'
<1> DEFINE c == at[w]
<1>1. pc[w] = "materializing" /\ c \in Cases /\ job[SourceOf(c)].status # "ABSENT"
      /\ SourceOf(c) = on[w] /\ c \in ItemsOf(on[w]) /\ Knows(w) /\ on[w] \in Sources
  BY InHand DEF Materialize, Chosen
<1>2. ~IsSettled(c) /\ ~item[c].decided
  BY <1>1 DEF Knows, ReplayInv, ResultsAreReplayed, IsSettled
<1>3. /\ UNCHANGED <<job, replay, run, decisions, on, left, at, got, same>>
      /\ copied' = copied \cup {c}
  BY DEF Materialize, rows, hands
<1>4. /\ item'[c].status \in {"INVESTIGATING", "MATERIALIZED"}
      /\ item'[c].target /\ item'[c].decided = item[c].decided
      /\ item'[c].decision = item[c].decision
      /\ \A d \in Cases \ {c} : item'[d] = item[d]
  BY <1>1 DEF Materialize, Typed, TypeOK
<1>5. ~(item'[c].status \in Settled)
  BY <1>4 DEF Settled
<1>6. Grows
  <2>1. \A d \in Cases : IsSettled(d) => IsSettled(d)'
    BY <1>2, <1>4 DEF IsSettled
  <2>2. ASSUME NEW u \in Workers, pc[u] = "materializing", ~IsSettled(at[u])
        PROVE  ~(item'[at[u]].status \in Settled)
    <3>1. at[u] \in Cases
      BY <2>2 DEF Typed, Held, Chosen
    <3>2. QED
      BY <1>4, <1>5, <2>2, <3>1 DEF IsSettled
  <2>3. QED
    BY <1>3, <2>1, <2>2 DEF Grows
<1>7. Alone(w)
  BY <1>3 DEF Materialize, Goto, Alone, Typed, TypeOK
<1>8. JobsAgree'
  <2>1. ASSUME NEW s \in Sources
        PROVE  /\ \/ replay'[s] = job'[s].status
                  \/ replay'[s] \in Ended /\ job'[s].status \in Ended
               /\ "SUCCEEDED" \in {replay'[s], job'[s].status} =>
                    \A d \in ItemsOf(s) : IsSettled(d)'
    BY <1>3, <1>6 DEF ReplayInv, JobsAgree, Grows, ItemsOf
  <2>2. ASSUME NEW d \in Cases
        PROVE  /\ job'[SourceOf(d)].status = "ABSENT" =>
                    ~item'[d].target /\ ~item'[d].decided /\ ~IsSettled(d)'
               /\ d \in copied' <=> item'[d].target
    <3>1. CASE d = c
      BY <1>1, <1>3, <1>4, <3>1
    <3>2. CASE d # c
      BY <1>3, <1>4, <3>2 DEF ReplayInv, JobsAgree, IsSettled
    <3>3. QED
      BY <3>1, <3>2
  <2>3. QED
    BY <2>1, <2>2 DEF JobsAgree
<1>9. DecisionsDiffer'
  <2>1. \A v \in Videos : Inputs(v) \subseteq Inputs(v)'
    BY <1>3 DEF Inputs
  <2>2. QED
    BY <1>3, <2>1 DEF ReplayInv, DecisionsDiffer
<1>10. ResultsAreReplayed'
  <2>1. ASSUME NEW d \in Cases
        PROVE  /\ item'[d].decided =>
                    /\ item'[d].target /\ item'[d].status \in Settled
                    /\ item'[d].decision \in decisions'[VideoOf(d)] /\ d \in item'[d].decision.inputs
                    /\ SourceOf(d) \in Scoped =>
                         run'[VideoOf(d)].status = "DONE" /\ run'[VideoOf(d)].scope = SourceOf(d)
               /\ item'[d].status \in Settled /\ ~item'[d].decided => d \notin copied'
    <3>1. CASE d = c
      BY <1>2, <1>4, <1>5, <3>1
    <3>2. CASE d # c
      BY <1>3, <1>4, <3>2 DEF ReplayInv, ResultsAreReplayed
    <3>3. QED
      BY <3>1, <3>2
  <2>2. QED
    BY <2>1 DEF ResultsAreReplayed
<1>11. Knows(w)'
  <2>1. /\ pc'[w] \in {"preparing", "finalizing"}
        /\ pc'[w] = "finalizing" => SourceOf(c) \notin Scoped
    BY DEF Materialize, Goto, Typed, TypeOK
  <2>2. \A d \in ItemsOf(on[w]) : d \in left[w] \/ d = c \/ IsSettled(d)'
    BY <1>1, <1>6 DEF Knows, Grows, ItemsOf, Ending
  <2>3. job'[on[w]].status # "ABSENT" /\ left[w] \subseteq ItemsOf(on[w]) /\ c \in copied'
    BY <1>1, <1>3 DEF Knows, Ending
  <2>4. pc'[w] = "finalizing" => Asked(c)'
    BY <1>3, <2>1 DEF Asked
  <2>5. QED
    BY <1>1, <1>3, <2>1, <2>2, <2>3, <2>4 DEF Knows, ItemsOf, Chosen, Ending
<1>12. QED
  BY <1>6, <1>7, <1>8, <1>9, <1>10, <1>11, AllKnow DEF ReplayInv

LEMMA InvestigateAgrees ==
  ASSUME Typed, ReplayInv, NEW w \in Workers,
         PrepareRun(w) \/ ClaimRun(w)
  PROVE  ReplayInv'
<1> DEFINE c == at[w]
           v == VideoOf(c)
<1>1. /\ on[w] \in Sources /\ c \in Cases /\ v \in Videos
      /\ SourceOf(c) = on[w] /\ Knows(w)
      /\ pc[w] \in {"preparing", "claiming"}
  BY InHand DEF PrepareRun, ClaimRun, Chosen
<1>2. UNCHANGED <<job, replay, item, copied, decisions, on, left, at, got, same>>
  BY DEF PrepareRun, ClaimRun, rows, hands
<1>3. \A x \in Videos :
        /\ run[x].status # "ABSENT" =>
             run'[x].status # "ABSENT" /\ run'[x].scope = run[x].scope
        /\ run[x].status = "DONE" => run'[x].status = "DONE"
  <2>1. CASE PrepareRun(w)
    <3>1. UNCHANGED run \/ (run[v].status = "ABSENT" /\ \A x \in Videos \ {v} : run'[x] = run[x])
      BY <2>1 DEF PrepareRun, Typed, TypeOK
    <3>2. QED
      BY <3>1
  <2>2. CASE ClaimRun(w)
    <3>1. UNCHANGED run \/ (run[v].status # "DONE" /\ RunBecomes(v, "RUNNING"))
      BY <2>2 DEF ClaimRun
    <3>2. QED
      BY <1>1, <3>1, RunMoves
  <2>3. QED
    BY <2>1, <2>2
<1>4. Grows
  BY <1>2, <1>3 DEF Grows, IsSettled
<1>5. Alone(w)
  BY <1>2 DEF PrepareRun, ClaimRun, Goto, Alone, Typed, TypeOK
<1>6. pc'[w] \in {"claiming", "finalizing"}
  BY DEF PrepareRun, ClaimRun, Goto, Typed, TypeOK
<1>7. Asked(c)'
  <2>1. CASE PrepareRun(w)
    <3>1. CASE run' = [run EXCEPT ![v] = [status |-> "PENDING", scope |-> SourceOf(c)]]
      <4>1. run'[v] = [status |-> "PENDING", scope |-> SourceOf(c)]
        BY <1>1, <3>1 DEF Typed, TypeOK
      <4>2. QED
        BY <1>2, <4>1 DEF Asked
    <3>2. CASE run[v].status \in {"PENDING", "RUNNING", "DONE"}
               /\ run[v].scope \in RequestedScope(SourceOf(c)) /\ UNCHANGED run
      BY <1>2, <3>2 DEF RequestedScope, Asked
    <3>3. QED
      BY <2>1, <3>1, <3>2 DEF PrepareRun
  <2>2. CASE ClaimRun(w)
    <3>1. Asked(c)
      BY <1>1, <2>2 DEF ClaimRun, Knows
    <3>2. QED
      BY <1>1, <1>2, <1>3, <3>1 DEF Asked
  <2>3. QED
    BY <2>1, <2>2
<1>8. Knows(w)'
  <2>1. /\ job'[on[w]].status # "ABSENT" /\ left[w] \subseteq ItemsOf(on[w])
        /\ c \in ItemsOf(on[w]) /\ c \in copied
        /\ \A d \in ItemsOf(on[w]) : d \in left[w] \/ d = c \/ IsSettled(d)'
    BY <1>1, <1>2 DEF Knows, Chosen, Ending, Copied, IsSettled
  <2>2. QED
    BY <1>2, <1>6, <1>7, <2>1 DEF Knows, Chosen, Ending, Copied, ItemsOf
<1>9. QED
  BY <1>2, <1>4, <1>5, <1>8, StillDiffer, SameItems

LEMMA FinalizeAgrees ==
  ASSUME Typed, ReplayInv, NEW w \in Workers, Finalize(w)
  PROVE  ReplayInv'
<1> DEFINE c == at[w]
           v == VideoOf(c)
<1>1. /\ c \in Cases /\ v \in Videos /\ Knows(w) /\ pc[w] = "finalizing"
  BY InHand DEF Finalize, Chosen
<1>2. UNCHANGED <<job, replay, item, run, copied, on, left, at, same>>
  BY DEF Finalize, rows
<1>3. PICK d \in Evaluations(v) : Finalized(v, d) /\ got' = [got EXCEPT ![w] = d]
  BY DEF Finalize
<1>4. /\ DecisionsDiffer'
      /\ \A x \in Videos : decisions[x] \subseteq decisions'[x]
      /\ d \in decisions'[v]
  BY <1>1, <1>2, <1>3, FinalizedDiffer
<1>5. Grows
  BY <1>2, <1>4 DEF Grows, IsSettled
<1>6. Alone(w) /\ pc'[w] = "recording" /\ got'[w] = d
  BY <1>2, <1>3 DEF Finalize, Goto, Alone, Typed, TypeOK
<1>7. Knows(w)'
  <2>1. c \in copied /\ Investigated(c)
    BY <1>1 DEF Knows, Copied, Finalize, Asked, Investigated
  <2> c \in d.inputs
    BY <1>1, <2>1, EvaluationTyped DEF Inputs
  <2>2. Investigated(c)'
    BY <1>2, <2>1 DEF Investigated
  <2>3. /\ job'[on[w]].status # "ABSENT" /\ left[w] \subseteq ItemsOf(on[w])
        /\ c \in ItemsOf(on[w])
        /\ \A e \in ItemsOf(on[w]) : e \in left[w] \/ e = c \/ IsSettled(e)'
    BY <1>1, <1>2 DEF Knows, Chosen, Ending, IsSettled
  <2>4. QED
    BY <1>2, <1>4, <1>6, <2>1, <2>2, <2>3 DEF Knows, Chosen, Ending, Copied, ItemsOf
<1>8. QED
  BY <1>2, <1>4, <1>5, <1>6, <1>7, SameItems

LEMMA RecordAgrees ==
  ASSUME Typed, ReplayInv, NEW w \in Workers, RecordItem(w)
  PROVE  ReplayInv'
<1> DEFINE c == at[w]
<1>1. /\ c \in Cases /\ VideoOf(c) \in Videos /\ Knows(w) /\ pc[w] = "recording"
      /\ on[w] \in Sources /\ SourceOf(c) = on[w] /\ c \in ItemsOf(on[w])
      /\ job[on[w]].status # "ABSENT"
  BY InHand DEF RecordItem, Chosen
<1>2. UNCHANGED <<job, replay, run, copied, decisions, on, left, same>>
  BY DEF RecordItem, rows, cases
<1>3. c \in copied /\ item[c].target
  BY <1>1 DEF Knows, Copied, ReplayInv, JobsAgree
<1>4. /\ item'[c].status \in Settled /\ item'[c].target /\ item'[c].decided
      /\ item'[c].decision = got[w]
      /\ \A d \in Cases \ {c} : item'[d] = item[d]
  <2>1. /\ item'[c].status \in {"NEEDS_HUMAN_REVIEW", "COMPLETED"}
        /\ item'[c].target = item[c].target /\ item'[c].decided
        /\ item'[c].decision = got[w]
        /\ \A d \in Cases \ {c} : item'[d] = item[d]
    BY <1>1 DEF RecordItem, Typed, TypeOK
  <2>2. QED
    BY <1>3, <2>1 DEF Settled
<1>5. Grows
  <2>1. \A d \in Cases : IsSettled(d) => IsSettled(d)'
    BY <1>4 DEF IsSettled
  <2>2. ASSUME NEW u \in Workers, pc[u] = "materializing", ~IsSettled(at[u])
        PROVE  ~(item'[at[u]].status \in Settled)
    <3>1. at[u] \in Cases /\ at[u] # c
      BY <2>2 DEF Typed, Held, Chosen, RecordItem, Unlocked
    <3>2. QED
      BY <1>4, <2>2, <3>1 DEF IsSettled
  <2>3. QED
    BY <1>2, <2>1, <2>2 DEF Grows
<1>6. Alone(w)
  BY <1>2 DEF RecordItem, Goto, Alone, Typed, TypeOK
<1>7. JobsAgree'
  <2>1. ASSUME NEW s \in Sources
        PROVE  /\ \/ replay'[s] = job'[s].status
                  \/ replay'[s] \in Ended /\ job'[s].status \in Ended
               /\ "SUCCEEDED" \in {replay'[s], job'[s].status} =>
                    \A d \in ItemsOf(s) : IsSettled(d)'
    BY <1>2, <1>5 DEF ReplayInv, JobsAgree, Grows, ItemsOf
  <2>2. ASSUME NEW d \in Cases
        PROVE  /\ job'[SourceOf(d)].status = "ABSENT" =>
                    ~item'[d].target /\ ~item'[d].decided /\ ~IsSettled(d)'
               /\ d \in copied' <=> item'[d].target
    <3>1. CASE d = c
      BY <1>1, <1>2, <1>3, <1>4, <3>1
    <3>2. CASE d # c
      BY <1>2, <1>4, <3>2 DEF ReplayInv, JobsAgree, IsSettled
    <3>3. QED
      BY <3>1, <3>2
  <2>3. QED
    BY <2>1, <2>2 DEF JobsAgree
<1>8. ResultsAreReplayed'
  <2>1. /\ Investigated(c) /\ got[w] \in decisions[VideoOf(c)] /\ c \in got[w].inputs
    BY <1>1 DEF Knows
  <2>2. ASSUME NEW d \in Cases
        PROVE  /\ item'[d].decided =>
                    /\ item'[d].target /\ item'[d].status \in Settled
                    /\ item'[d].decision \in decisions'[VideoOf(d)] /\ d \in item'[d].decision.inputs
                    /\ SourceOf(d) \in Scoped =>
                         run'[VideoOf(d)].status = "DONE" /\ run'[VideoOf(d)].scope = SourceOf(d)
               /\ item'[d].status \in Settled /\ ~item'[d].decided => d \notin copied'
    <3>1. CASE d = c
      BY <1>2, <1>4, <2>1, <3>1 DEF Investigated
    <3>2. CASE d # c
      BY <1>2, <1>4, <3>2 DEF ReplayInv, ResultsAreReplayed
    <3>3. QED
      BY <3>1, <3>2
  <2>3. QED
    BY <2>2 DEF ResultsAreReplayed
<1>9. Knows(w)'
  <2>1. pc'[w] = "picking"
    BY DEF RecordItem, Goto, Typed, TypeOK
  <2>2. \A d \in ItemsOf(on[w]) : d \in left[w] \/ IsSettled(d)'
    BY <1>1, <1>4, <1>5 DEF Knows, Ending, Grows, IsSettled, ItemsOf
  <2>3. job'[on[w]].status # "ABSENT" /\ left[w] \subseteq ItemsOf(on[w])
    BY <1>1, <1>2 DEF Knows, Ending
  <2>4. QED
    BY <1>2, <2>1, <2>2, <2>3 DEF Knows, Chosen, Ending, Copied, ItemsOf
<1>10. QED
  BY <1>2, <1>5, <1>6, <1>7, <1>8, <1>9, StillDiffer, AllKnow DEF ReplayInv

\* A worker that has read the replay's row to end it knows how.
LEMMA EndReadAgrees ==
  ASSUME Typed, ReplayInv, NEW w \in Workers, CompleteRead(w) \/ FailRead(w)
  PROVE  ReplayInv'
<1>1. PICK label \in Ending, status \in Ended : EndRead(w, label, status)
  BY DEF CompleteRead, FailRead, Ending, Ended
<1>2. /\ pc[w] # "idle" /\ on[w] \in Sources /\ Knows(w)
      /\ UNCHANGED <<job, replay, item, run, copied, decisions, on>>
  BY <1>1 DEF CompleteRead, FailRead, EndRead, Typed, Held, ReplayInv, rows, cases
<1>3. Grows
  BY <1>2 DEF Grows, IsSettled
<1>4. Alone(w)
  BY <1>1 DEF EndRead, Goto, Alone, Typed, TypeOK
<1>5. /\ pc'[w] \in Ending /\ same'[w] = (replay[on[w]] = status)
      /\ pc'[w] = "succeeding" => pc[w] = "picking" /\ left[w] = {}
  <2>1. pc'[w] = label /\ same'[w] = (replay[on[w]] = status)
    BY <1>1 DEF EndRead, Goto, Typed, TypeOK
  <2>2. pc'[w] = "succeeding" => CompleteRead(w)
    BY DEF FailRead, EndRead, Goto, Typed, TypeOK
  <2>3. QED
    BY <2>1, <2>2 DEF CompleteRead
<1>6. Knows(w)'
  <2>1. pc'[w] = "succeeding" => \A c \in ItemsOf(on[w]) : IsSettled(c)'
    BY <1>2, <1>5 DEF Knows, Chosen, Ending, IsSettled
  <2>2. same'[w] => replay'[on[w]] \in Ended
    BY <1>2, <1>5
  <2>3. job'[on[w]].status # "ABSENT"
    BY <1>2 DEF Knows
  <2>4. pc'[w] \in Ending /\ on'[w] = on[w] /\ ItemsOf(on[w])' = ItemsOf(on[w])
    BY <1>2, <1>5 DEF ItemsOf
  <2>5. QED
    BY <2>1, <2>2, <2>3, <2>4 DEF Knows, Chosen, Ending, Copied
<1>7. QED
  BY <1>2, <1>3, <1>4, <1>6, StillDiffer, SameItems

LEMMA EndsAgrees ==
  ASSUME Typed, ReplayInv, NEW w \in Workers, Complete(w) \/ Fail(w) \/ Crash(w)
  PROVE  ReplayInv'
<1>1. /\ pc[w] # "idle" /\ on[w] \in Sources /\ Knows(w)
      /\ Stop(w) /\ UNCHANGED <<item, target, run, copied, decisions>>
  BY DEF Complete, Fail, Crash, EndWrite, Typed, Held, ReplayInv, cases
<1>2. \A s \in Sources :
        \/ job'[s].status = job[s].status /\ replay'[s] = replay[s]
        \/ /\ replay'[s] \in Ended /\ job'[s].status \in Ended
           /\ job[s].status # "ABSENT"
           /\ "SUCCEEDED" \in {replay'[s], job'[s].status} =>
                "SUCCEEDED" \in {replay[s], job[s].status} \/ \A c \in ItemsOf(s) : IsSettled(c)
  <2>1. ASSUME NEW label \in Ending, NEW status \in Ended, EndWrite(w, label, status),
               label = "succeeding" <=> status = "SUCCEEDED", NEW s \in Sources
        PROVE  \/ job'[s].status = job[s].status /\ replay'[s] = replay[s]
               \/ /\ replay'[s] \in Ended /\ job'[s].status \in Ended
                  /\ job[s].status # "ABSENT"
                  /\ "SUCCEEDED" \in {replay'[s], job'[s].status} =>
                       \/ "SUCCEEDED" \in {replay[s], job[s].status}
                       \/ \A c \in ItemsOf(s) : IsSettled(c)
    <3>1. CASE s = on[w]
      <4>1. job'[s].status = status /\ replay'[s] = IF same[w] THEN replay[s] ELSE status
        BY <1>1, <2>1, <3>1 DEF EndWrite, Typed, TypeOK
      <4>2. /\ pc[w] = label /\ job[s].status # "ABSENT"
            /\ same[w] => replay[s] \in Ended
            /\ label = "succeeding" => \A c \in ItemsOf(s) : IsSettled(c)
        BY <1>1, <2>1, <3>1 DEF EndWrite, Knows
      <4>3. QED
        BY <2>1, <4>1, <4>2 DEF Ended
    <3>2. CASE s # on[w]
      BY <2>1, <3>2 DEF EndWrite, Typed, TypeOK
    <3>3. QED
      BY <3>1, <3>2
  <2>2. CASE Crash(w)
    BY <2>2 DEF Crash, rows
  <2>3. CASE Complete(w) \/ Fail(w)
    BY <2>1, <2>3 DEF Complete, Fail, Ending, Ended
  <2>4. QED
    BY <2>2, <2>3
<1>3. Grows
  BY <1>1, <1>2 DEF Grows, IsSettled, Ended
<1>4. Alone(w) /\ pc'[w] = "idle"
  BY <1>1 DEF Stop, Goto, Alone, Typed, TypeOK
<1>5. JobsAgree'
  <2>1. ASSUME NEW s \in Sources
        PROVE  /\ replay'[s] = job'[s].status \/ (replay'[s] \in Ended /\ job'[s].status \in Ended)
               /\ "SUCCEEDED" \in {replay'[s], job'[s].status} =>
                    \A c \in ItemsOf(s) : IsSettled(c)
    BY <1>2 DEF ReplayInv, JobsAgree
  <2>2. \A d \in Cases : job'[SourceOf(d)].status = "ABSENT" => job[SourceOf(d)].status = "ABSENT"
    BY <1>2, CaseParts DEF Ended
  <2>3. QED
    BY <1>1, <2>1, <2>2 DEF ReplayInv, JobsAgree, IsSettled
<1>6. DecisionsDiffer' /\ ResultsAreReplayed'
  BY <1>1, <1>3, StillDiffer, StillReplayed
<1>7. Knows(w)'
  BY <1>4 DEF Knows
<1>8. QED
  BY <1>3, <1>4, <1>5, <1>6, <1>7, AllKnow DEF ReplayInv

-----------------------------------------------------------------------------
(* The theorems *)

IInv == Typed /\ ReplayInv

LEMMA InitAgrees == Init => ReplayInv
<1> SUFFICES ASSUME Init
             PROVE  ReplayInv
  OBVIOUS
<1>1. \A c \in Cases : ~item[c].target /\ ~item[c].decided /\ ~IsSettled(c) /\ c \notin copied
  BY DEF Init, IsSettled, Settled
<1>2. JobsAgree
  BY <1>1 DEF Init, JobsAgree
<1>3. DecisionsDiffer
  BY DEF Init, DecisionsDiffer
<1>4. ResultsAreReplayed
  BY <1>1 DEF ResultsAreReplayed
<1>5. \A w \in Workers : Knows(w)
  BY DEF Init, Knows
<1>6. QED
  BY <1>2, <1>3, <1>4, <1>5 DEF ReplayInv

LEMMA Inductive == IInv /\ [Next]_vars => IInv'
<1> SUFFICES ASSUME Typed, ReplayInv, [Next]_vars
             PROVE  Typed' /\ ReplayInv'
  BY DEF IInv
<1>1. CASE UNCHANGED vars
  <2>1. UNCHANGED <<job, replay, item, copied>> /\ UNCHANGED <<target, run, decisions, pc, hands>>
    BY <1>1 DEF vars, hands
  <2>2. Grows
    BY <2>1 DEF Grows, IsSettled
  <2>3. JobsAgree' /\ DecisionsDiffer' /\ ResultsAreReplayed'
    BY <2>1, <2>2, StillDiffer, StillReplayed DEF ReplayInv, JobsAgree, IsSettled
  <2>4. \A u \in Workers : Knows(u)'
    BY <2>1, <2>2, StillKnows DEF ReplayInv, hands
  <2>5. QED
    BY <2>3, <2>4, TypedStays DEF ReplayInv
<1>2. CASE Next
  BY <1>2, TypedStays, OutsideAgrees, ClaimAgrees, ChooseAgrees, MaterializeAgrees,
     InvestigateAgrees, FinalizeAgrees, RecordAgrees, EndReadAgrees, EndsAgrees
     DEF Next, Execute, ExecuteItem, End
<1>3. QED
  BY <1>1, <1>2

LEMMA Invariant == Spec => []IInv
<1>1. Init => IInv
  BY InitTyped, InitAgrees DEF IInv
<1>2. QED
  BY <1>1, Inductive, PTL DEF Spec

(***************************************************************************)
(* A decision an item reports belongs to its own target case, weighed the  *)
(* evidence copied for it and came after an investigation of exactly its   *)
(* requirements (_execute_item, prepare, finalize_case).                   *)
(***************************************************************************)
THEOREM ResultsReplayed == Spec => []ResultsAreReplayed
<1>1. IInv => ResultsAreReplayed
  BY DEF IInv, ReplayInv
<1>2. QED
  BY <1>1, Invariant, PTL

(***************************************************************************)
(* A replay of which either row says that it succeeded has settled all its *)
(* items, and its rows differ at most in how it ended, whichever workers   *)
(* executed and ended it (claim, _complete, fail).                         *)
(***************************************************************************)
THEOREM SucceededSettled == Spec => []SucceededIsSettled
<1>1. IInv => SucceededIsSettled
  BY DEF IInv, ReplayInv, JobsAgree, SucceededIsSettled, IsSettled, Ended
<1>2. QED
  BY <1>1, Invariant, PTL

\* An item that alone has its target case weighs its own evidence only.
LEMMA OneDecision ==
  ASSUME IInv, NEW w \in Workers, RecordItem(w), item[at[w]].decided, ~Shared(at[w])
  PROVE  got[w] = item[at[w]].decision \/ got[w].own # item[at[w]].decision.own
<1> DEFINE c == at[w]
<1>1. /\ c \in Cases /\ VideoOf(c) \in Videos /\ Knows(w) /\ pc[w] = "recording"
  BY InHand DEF IInv, RecordItem, Chosen
<1>2. /\ got[w] \in decisions[VideoOf(c)] /\ c \in got[w].inputs
      /\ item[c].target
      /\ item[c].decision \in decisions[VideoOf(c)] /\ c \in item[c].decision.inputs
  BY <1>1 DEF Knows, IInv, ReplayInv, ResultsAreReplayed
<1>3. Inputs(VideoOf(c)) \subseteq {c}
  BY <1>1, <1>2 DEF Shared, SameTarget, Inputs, IInv, ReplayInv, JobsAgree, Typed, TypeOK
<1>4. /\ got[w].inputs = item[c].decision.inputs
      /\ ~got[w].repeats /\ ~item[c].decision.repeats
  BY <1>1, <1>2, <1>3 DEF IInv, ReplayInv, DecisionsDiffer
<1>5. got[w] \in Decision /\ item[c].decision \in Decision
  BY <1>1 DEF IInv, Typed, TypeOK
<1>6. QED
  BY <1>4, <1>5 DEF Decision

LEMMA StepStands ==
  ASSUME IInv, [Next]_vars, NEW c \in Cases, item[c].decided
  PROVE  \/ item'[c].decision = item[c].decision
         \/ item'[c].decision.own # item[c].decision.own
         \/ Shared(c)
<1> USE DEF IInv, Typed, TypeOK
<1>1. CASE UNCHANGED item
  BY <1>1
<1>2. ASSUME NEW s \in Sources, Prepare(s)
      PROVE  item'[c].decision = item[c].decision
  BY <1>2 DEF Prepare
<1>3. ASSUME NEW w \in Workers, Materialize(w)
      PROVE  item'[c].decision = item[c].decision
  <2>1. at[w] \in Cases
    BY <1>3, InHand DEF Materialize, Chosen
  <2>2. QED
    BY <1>3, <2>1 DEF Materialize
<1>4. ASSUME NEW w \in Workers, RecordItem(w)
      PROVE  \/ item'[c].decision = item[c].decision
             \/ item'[c].decision.own # item[c].decision.own
             \/ Shared(c)
  <2>1. item'[c].decision = IF c = at[w] THEN got[w] ELSE item[c].decision
    BY <1>4 DEF RecordItem
  <2>2. QED
    BY <1>4, <2>1, OneDecision
<1>5. QED
  BY <1>1, <1>2, <1>3, <1>4
     DEF Next, Others, Execute, ExecuteItem, vars, OthersCreate, OthersPrepare,
         OthersClaim, RunEnds, FindingsChange, OthersFinalize, Claim, ClaimSucceeded, Begin,
         SkipItem, PickItem, PrepareRun, ClaimRun, Finalize, End, CompleteRead, Complete,
         FailRead, Fail, EndRead, EndWrite, Crash

(***************************************************************************)
(* What an item reports stands, unless two replays came to share its       *)
(* target case or its own investigation has come to something else: a      *)
(* worker that lost its lease finds the decision there is (finalize_case,  *)
(* _execute_item).                                                         *)
(***************************************************************************)
THEOREM ResultsStand == Spec => ResultStands
<1>1. IInv /\ [Next]_vars =>
        [\A c \in Cases : item[c].decided =>
           \/ item'[c].decision = item[c].decision
           \/ item'[c].decision.own # item[c].decision.own
           \/ Shared(c)]_vars
  BY StepStands
<1>2. QED
  BY <1>1, Invariant, PTL DEF Spec, ResultStands

=============================================================================
