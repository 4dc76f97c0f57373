-------------------------- MODULE CaseVerdictProofs --------------------------
(***************************************************************************)
(* Proofs about CaseVerdict, for any workers, requests, requirements,      *)
(* policies and answers.                                                   *)
(***************************************************************************)
EXTENDS CaseVerdict, FiniteSetTheorems, TLAPS

-----------------------------------------------------------------------------
(* Types *)

LEMMA WorkerParts ==
  ASSUME TypeOK, NEW w \in Workers
  PROVE  /\ worker[w].pc \in {"idle", "ready", "executing", "answered", "calling",
                              "verified", "closing"}
         /\ worker[w].pc # "idle" => worker[w].state \in State
         /\ worker[w].pc = "verified" =>
              /\ worker[w] = [pc |-> "verified", state |-> worker[w].state,
                              drafts |-> worker[w].drafts]
              /\ worker[w].drafts \subseteq Draft
         /\ worker[w].pc = "closing" => worker[w].outcome \in {"COMPLETED", "OPEN"}
         /\ worker[w].pc \in {"ready", "executing", "answered", "calling"} =>
              worker[w] = [pc |-> worker[w].pc, state |-> worker[w].state]
BY DEF TypeOK, Worker, Idle

LEMMA SetWorker ==
  ASSUME TypeOK, NEW w \in Workers, NEW x \in Worker,
         worker' = [worker EXCEPT ![w] = x]
  PROVE  worker' \in [Workers -> Worker]
BY DEF TypeOK

LEMMA PlainWorker ==
  ASSUME NEW s \in State, NEW p \in {"ready", "executing", "answered", "calling"}
  PROVE  [pc |-> p, state |-> s] \in Worker
BY DEF Worker

LEMMA IdleWorker == Idle \in Worker
BY DEF Worker

LEMMA StatePc ==
  ASSUME TypeOK, NEW w \in Workers, NEW p \in {"ready", "executing", "answered", "calling"},
         worker[w].pc \in {"ready", "executing", "answered", "calling"},
         worker' = [worker EXCEPT ![w].pc = p]
  PROVE  worker' = [worker EXCEPT ![w] = [pc |-> p, state |-> worker[w].state]]
<1>1. worker[w] = [pc |-> worker[w].pc, state |-> worker[w].state]
  BY WorkerParts
<1>2. [worker[w] EXCEPT !.pc = p] = [pc |-> p, state |-> worker[w].state]
  BY <1>1
<1>3. QED
  BY <1>2

LEMMA InitTyped == Init => TypeOK
<1> SUFFICES ASSUME Init
             PROVE  TypeOK
  OBVIOUS
<1>1. policy \in Policies
  BY DEF Init
<1>2. FirstMissing(policy) \subseteq Keys
  BY <1>1, VerdictConstants DEF FirstMissing, Policy
<1>3. run \in [status: Status, state: State]
  <2>1. PICK q \in Requests :
          run = [status |-> "RUNNING",
                 state |-> [version |-> 0, node |-> "RETRIEVE", request |-> q,
                            found |-> FALSE, missing |-> FirstMissing(policy)]]
    BY DEF Init
  <2>2. 0 \in Version
    BY VerdictConstants DEF Version
  <2>3. QED
    BY <1>2, <2>1, <2>2 DEF State, Status
<1>4. tools \in [Requests -> Tool]
  BY DEF Init, Tool
<1>5. calls \in [Version -> Call]
  BY DEF Init, Call
<1>6. worker \in [Workers -> Worker]
  BY IdleWorker DEF Init
<1>7. QED
  BY <1>1, <1>3, <1>4, <1>5, <1>6 DEF Init, TypeOK

LEMMA WaitTyped ==
  ASSUME TypeOK, NEW w \in Workers, Resume(w) \/ Drop(w)
  PROVE  TypeOK'
<1>1. CASE Resume(w)
  <2>1. run.state \in State
    BY DEF TypeOK
  <2>2. worker' \in [Workers -> Worker]
    BY <1>1, <2>1, PlainWorker, SetWorker DEF Resume
  <2>3. QED
    BY <1>1, <2>2 DEF Resume, TypeOK
<1>2. CASE Drop(w)
  <2>1. worker' \in [Workers -> Worker]
    BY <1>2, IdleWorker, SetWorker DEF Drop
  <2>2. QED
    BY <1>2, <2>1 DEF Drop, TypeOK
<1>3. QED
  BY <1>1, <1>2

LEMMA StatusTyped ==
  ASSUME TypeOK, StatusChanges
  PROVE  TypeOK'
<1>1. PICK s \in Status \ {"COMPLETED"} : run' = [run EXCEPT !.status = s]
  BY DEF StatusChanges
<1>2. run' \in [status: Status, state: State]
  BY <1>1 DEF TypeOK
<1>3. QED
  BY <1>2 DEF StatusChanges, TypeOK

LEMMA ToolTyped ==
  ASSUME TypeOK, NEW w \in Workers, StartTool(w) \/ ToolReturns(w) \/ ToolKnown(w)
  PROVE  TypeOK'
<1>1. CASE StartTool(w)
  <2>1. worker[w].state \in State
    BY <1>1, WorkerParts DEF StartTool
  <2>2. worker' \in [Workers -> Worker]
    BY <1>1, <2>1, StatePc, PlainWorker, SetWorker DEF StartTool
  <2>3. tools' \in [Requests -> Tool]
    BY <1>1 DEF StartTool, TypeOK, Tool
  <2>4. QED
    BY <1>1, <2>2, <2>3 DEF StartTool, TypeOK
<1>2. ASSUME NEW found \in BOOLEAN, Answered(w, found), worker[w].pc \in {"ready", "executing"}
      PROVE  worker' \in [Workers -> Worker]
  <2>1. worker[w].state \in State
    BY <1>2, WorkerParts
  <2>2. [worker[w].state EXCEPT !.found = found] \in State
    BY <2>1 DEF State
  <2>3. worker' = [worker EXCEPT ![w] =
                     [pc |-> "answered", state |-> [worker[w].state EXCEPT !.found = found]]]
    BY <1>2 DEF Answered
  <2>4. QED
    BY <2>2, <2>3, PlainWorker, SetWorker
<1>3. CASE ToolReturns(w)
  <2>1. PICK answer \in Answers :
          /\ tools' = [tools EXCEPT ![worker[w].state.request] = answer]
          /\ Answered(w, answer = "found")
    BY <1>3 DEF ToolReturns
  <2>2. worker' \in [Workers -> Worker]
    BY <1>2, <1>3, <2>1 DEF ToolReturns
  <2>3. tools' \in [Requests -> Tool]
    BY <2>1 DEF TypeOK, Tool
  <2>4. QED
    BY <1>3, <2>2, <2>3 DEF ToolReturns, TypeOK
<1>4. CASE ToolKnown(w)
  <2>1. worker' \in [Workers -> Worker]
    BY <1>2, <1>4 DEF ToolKnown
  <2>2. QED
    BY <1>4, <2>1 DEF ToolKnown, TypeOK
<1>5. QED
  BY <1>1, <1>3, <1>4

LEMMA NextVersion ==
  ASSUME NEW s \in State, s.version < MaxVersion
  PROVE  s.version + 1 \in Version
BY VerdictConstants DEF State, Version

LEMMA CallTyped ==
  ASSUME TypeOK, NEW w \in Workers,
         StartCall(w) \/ CallSucceeds(w) \/ CallFails(w) \/ CallKnown(w)
  PROVE  TypeOK'
<1>1. ASSUME NEW drafts \in SUBSET Draft, Verified(w, drafts),
             worker[w].pc \in {"ready", "calling"}
      PROVE  worker' \in [Workers -> Worker]
  <2>1. worker[w].state \in State
    BY <1>1, WorkerParts
  <2>2. [pc |-> "verified", state |-> worker[w].state, drafts |-> drafts] \in Worker
    BY <2>1 DEF Worker
  <2>3. QED
    BY <1>1, <2>2, SetWorker DEF Verified
<1>2. CASE StartCall(w)
  <2>1. worker[w].state \in State
    BY <1>2, WorkerParts DEF StartCall
  <2>2. worker' \in [Workers -> Worker]
    BY <1>2, <2>1, StatePc, PlainWorker, SetWorker DEF StartCall
  <2>3. calls' \in [Version -> Call]
    BY <1>2, <2>1 DEF StartCall, TypeOK, Call, State
  <2>4. QED
    BY <1>2, <2>2, <2>3 DEF StartCall, TypeOK
<1>3. CASE CallSucceeds(w)
  <2>1. PICK drafts \in Outputs :
          /\ calls' = [calls EXCEPT ![worker[w].state.version] =
                         [status |-> "success", drafts |-> drafts]]
          /\ Verified(w, drafts)
    BY <1>3 DEF CallSucceeds
  <2>2. drafts \subseteq Draft
    BY VerdictConstants
  <2>3. worker' \in [Workers -> Worker]
    BY <1>1, <1>3, <2>1, <2>2 DEF CallSucceeds
  <2>4. calls' \in [Version -> Call]
    BY <2>1, <2>2 DEF TypeOK, Call
  <2>5. QED
    BY <1>3, <2>3, <2>4 DEF CallSucceeds, TypeOK
<1>4. CASE CallFails(w)
  <2>1. worker' \in [Workers -> Worker]
    BY <1>4, IdleWorker, SetWorker DEF CallFails
  <2>2. calls' \in [Version -> Call]
    BY <1>4 DEF CallFails, TypeOK, Call
  <2>3. QED
    BY <1>4, <2>1, <2>2 DEF CallFails, TypeOK
<1>5. CASE CallKnown(w)
  <2>1. worker[w].state.version \in Version
    BY <1>5, WorkerParts DEF CallKnown, State
  <2>2. (IF worker[w].state.found THEN calls[worker[w].state.version].drafts ELSE {})
          \in SUBSET Draft
    BY <2>1 DEF TypeOK, Call
  <2>3. worker' \in [Workers -> Worker]
    BY <1>1, <1>5, <2>2 DEF CallKnown
  <2>4. QED
    BY <1>5, <2>3 DEF CallKnown, TypeOK
<1>6. QED
  BY <1>2, <1>3, <1>4, <1>5

LEMMA PendingTyped ==
  ASSUME NEW s \in State, NEW drafts \in SUBSET Draft
  PROVE  PendingEvidence(s, drafts) \subseteq Evidence
BY DEF PendingEvidence, Evidence, State

LEMMA CheckpointTyped ==
  ASSUME TypeOK, NEW w \in Workers, Retrieved(w) \/ Verify(w)
  PROVE  TypeOK'
<1>1. worker' \in [Workers -> Worker]
  BY IdleWorker, SetWorker DEF Retrieved, Verify
<1>2. /\ worker[w].state \in State
      /\ worker[w].pc = "verified" => worker[w].drafts \subseteq Draft
  BY WorkerParts DEF Retrieved, Verify
<1>3. worker[w].state.version + 1 \in Version
  BY <1>2, NextVersion DEF Retrieved, Verify
<1>4. CASE Retrieved(w)
  <2>1. [worker[w].state EXCEPT !.version = @ + 1, !.node = "VERIFY"] \in State
    BY <1>2, <1>3 DEF State
  <2>2. run' \in [status: Status, state: State]
    BY <1>4, <2>1 DEF Retrieved, TypeOK
  <2>3. QED
    BY <1>1, <1>4, <2>2 DEF Retrieved, TypeOK
<1>5. CASE Verify(w)
  <2> DEFINE s == worker[w].state
             left == s.missing \ Resolved(s, worker[w].drafts)
  <2>1. PICK node \in {"RETRIEVE", "DECIDE"}, q \in Requests :
          run' = [run EXCEPT !.state = [version |-> s.version + 1, node |-> node, request |-> q,
                                        found |-> FALSE, missing |-> left]]
    BY <1>5 DEF Verify
  <2>2. left \subseteq Keys
    BY <1>2 DEF State
  <2>3. [version |-> s.version + 1, node |-> node, request |-> q,
         found |-> FALSE, missing |-> left] \in State
    BY <1>3, <2>2 DEF State
  <2>4. run' \in [status: Status, state: State]
    BY <2>1, <2>3 DEF TypeOK
  <2>5. evidence' \subseteq Evidence
    BY <1>2, <1>5, PendingTyped DEF Verify, TypeOK
  <2>6. QED
    BY <1>1, <1>5, <2>4, <2>5 DEF Verify, TypeOK
<1>6. QED
  BY <1>4, <1>5

LEMMA EndTyped ==
  ASSUME TypeOK, NEW w \in Workers, Decide(w) \/ Complete(w)
  PROVE  TypeOK'
<1>1. CASE Decide(w)
  <2> DEFINE s == worker[w].state
             closed == [s EXCEPT !.version = @ + 1, !.node = Finished]
  <2>1. PICK conclusive \in BOOLEAN :
          /\ run' = [run EXCEPT !.state = closed]
          /\ worker' = [worker EXCEPT ![w] =
                          [pc |-> "closing", state |-> closed, outcome |-> Outcome(conclusive, s)]]
    BY <1>1 DEF Decide
  <2>2. s \in State /\ s.version + 1 \in Version
    BY <1>1, WorkerParts, NextVersion DEF Decide
  <2>3. closed \in State
    BY <2>2 DEF State
  <2>4. [pc |-> "closing", state |-> closed, outcome |-> Outcome(conclusive, s)] \in Worker
    BY <2>3 DEF Worker, Outcome
  <2>5. worker' \in [Workers -> Worker]
    BY <2>1, <2>4, SetWorker
  <2>6. run' \in [status: Status, state: State]
    BY <2>1, <2>3 DEF TypeOK
  <2>7. QED
    BY <1>1, <2>5, <2>6 DEF Decide, TypeOK
<1>2. CASE Complete(w)
  <2>1. worker' \in [Workers -> Worker]
    BY <1>2, IdleWorker, SetWorker DEF Complete
  <2>2. worker[w].outcome \in Status
    BY <1>2, WorkerParts DEF Complete, Status
  <2>3. run' \in [status: Status, state: State]
    BY <1>2, <2>2 DEF Complete, TypeOK
  <2>4. QED
    BY <1>2, <2>1, <2>3 DEF Complete, TypeOK
<1>3. QED
  BY <1>1, <1>2

LEMMA EvaluateTyped ==
  ASSUME TypeOK, Evaluate
  PROVE  TypeOK'
<1>1. Verdict(ValidEvidence) \in {"APPROVE", "REJECT"}
  BY DEF Evaluate, Verdict
<1>2. ValidEvidence \subseteq Evidence
  BY DEF ValidEvidence, TypeOK
<1>3. verdicts' \subseteq Decision
  BY <1>1, <1>2 DEF Evaluate, TypeOK, Decision
<1>4. QED
  BY <1>3 DEF Evaluate, TypeOK

LEMMA NextTyped ==
  ASSUME TypeOK, [Next]_vars
  PROVE  TypeOK'
<1>1. CASE UNCHANGED vars
  BY <1>1 DEF vars, TypeOK
<1>2. CASE Next
  BY <1>2, WaitTyped, StatusTyped, ToolTyped, CallTyped, CheckpointTyped, EndTyped,
     EvaluateTyped DEF Next
<1>3. QED
  BY <1>1, <1>2

(***************************************************************************)
(* Every row, snapshot and worker of a case's investigation keeps its      *)
(* type; no evaluation ends otherwise than in the verdicts there are.      *)
(***************************************************************************)
THEOREM TypeCorrect == Spec => []TypeOK
<1>1. Init => TypeOK
  BY InitTyped
<1>2. TypeOK /\ [Next]_vars => TypeOK'
  BY NextTyped
<1>3. QED
  BY <1>1, <1>2, PTL DEF Spec

-----------------------------------------------------------------------------
(* A request is executed by one worker, and what was found is in its row *)

\* One worker executes a request, whose row is running meanwhile.
Executing ==
  /\ \A w \in Workers :
       worker[w].pc = "executing" => tools[worker[w].state.request] = "running"
  /\ \A w, x \in Workers :
       /\ worker[w].pc = "executing" /\ worker[x].pc = "executing"
       /\ worker[w].state.request = worker[x].state.request
       => w = x

\* A snapshot that has items has them from the answer in the row.
ItemsAreStored ==
  /\ run.state.found => tools[run.state.request] = "found"
  /\ \A w \in Workers :
       worker[w].pc # "idle" /\ worker[w].state.found =>
         tools[worker[w].state.request] = "found"

ToolInv == Executing /\ ItemsAreStored

\* The actions that execute no tool.
Elsewhere(w) ==
  \/ Resume(w) \/ Drop(w) \/ Retrieved(w)
  \/ StartCall(w) \/ CallSucceeds(w) \/ CallFails(w) \/ CallKnown(w) \/ Verify(w)
  \/ Decide(w) \/ Complete(w)

LEMMA InitToolInv == Init => ToolInv
BY DEF Init, ToolInv, Executing, ItemsAreStored, Idle

LEMMA StartToolKeeps ==
  ASSUME TypeOK, ToolInv, NEW w \in Workers, StartTool(w)
  PROVE  /\ ToolInv'
         /\ \A q \in Requests : tools[q] \in Answers => tools'[q] = tools[q]
<1> DEFINE q == worker[w].state.request
<1>1. /\ worker[w].pc = "ready" /\ tools[q] = "absent"
      /\ tools' = [tools EXCEPT ![q] = "running"]
      /\ run' = run
  BY DEF StartTool, NotStarted
<1>2. worker[w].state \in State /\ q \in Requests
  BY <1>1, WorkerParts DEF State
<1>3. worker' = [worker EXCEPT ![w] = [pc |-> "executing", state |-> worker[w].state]]
  BY <1>1, StatePc DEF StartTool
<1>4. /\ worker'[w] = [pc |-> "executing", state |-> worker[w].state]
      /\ \A x \in Workers : x # w => worker'[x] = worker[x]
  BY <1>3 DEF TypeOK
<1>5. /\ tools'[q] = "running"
      /\ \A r \in Requests : r # q => tools'[r] = tools[r]
  BY <1>1, <1>2 DEF TypeOK
<1>6. \A x \in Workers : worker[x].pc # "idle" => worker[x].state.request \in Requests
  BY WorkerParts DEF State
<1>7. \A x \in Workers : worker[x].pc = "executing" => worker[x].state.request # q
  BY <1>1 DEF ToolInv, Executing
<1>8. Executing'
  <2>1. ASSUME NEW x \in Workers, worker'[x].pc = "executing"
        PROVE  tools'[worker'[x].state.request] = "running"
    BY <1>4, <1>5, <1>6, <1>7, <2>1 DEF ToolInv, Executing
  <2>2. ASSUME NEW x \in Workers, NEW y \in Workers,
               worker'[x].pc = "executing", worker'[y].pc = "executing",
               worker'[x].state.request = worker'[y].state.request
        PROVE  x = y
    BY <1>4, <1>7, <2>2 DEF ToolInv, Executing
  <2>3. QED
    BY <2>1, <2>2 DEF Executing
<1>9. ItemsAreStored'
  <2>1. run'.state.found => tools'[run'.state.request] = "found"
    BY <1>1, <1>5 DEF ToolInv, ItemsAreStored, TypeOK, State
  <2>2. ASSUME NEW x \in Workers, worker'[x].pc # "idle", worker'[x].state.found
        PROVE  tools'[worker'[x].state.request] = "found"
    BY <1>1, <1>4, <1>5, <1>6, <2>2 DEF ToolInv, ItemsAreStored
  <2>3. QED
    BY <2>1, <2>2 DEF ItemsAreStored
<1>10. QED
  BY <1>1, <1>5, <1>8, <1>9 DEF ToolInv, Answers

LEMMA ToolReturnsKeeps ==
  ASSUME TypeOK, ToolInv, NEW w \in Workers, ToolReturns(w)
  PROVE  /\ ToolInv'
         /\ \A q \in Requests : tools[q] \in Answers => tools'[q] = tools[q]
<1> DEFINE q == worker[w].state.request
<1>1. PICK answer \in Answers :
        /\ tools' = [tools EXCEPT ![q] = answer]
        /\ Answered(w, answer = "found")
  BY DEF ToolReturns
<1>2. worker[w].pc = "executing" /\ run' = run
  BY DEF ToolReturns
<1>3. worker[w].state \in State /\ q \in Requests
  BY <1>2, WorkerParts DEF State
<1>4. tools[q] = "running"
  BY <1>2 DEF ToolInv, Executing
<1>5. /\ worker'[w] = [pc |-> "answered",
                       state |-> [worker[w].state EXCEPT !.found = (answer = "found")]]
      /\ \A x \in Workers : x # w => worker'[x] = worker[x]
  BY <1>1 DEF Answered, TypeOK
<1>6. /\ worker'[w].pc = "answered"
      /\ worker'[w].state.request = q
      /\ worker'[w].state.found = (answer = "found")
  BY <1>3, <1>5 DEF State
<1>7. /\ tools'[q] = answer
      /\ \A r \in Requests : r # q => tools'[r] = tools[r]
  BY <1>1, <1>3 DEF TypeOK
<1>8. \A x \in Workers : worker[x].pc # "idle" => worker[x].state.request \in Requests
  BY WorkerParts DEF State
<1>9. \A x \in Workers : x # w /\ worker[x].pc = "executing" => worker[x].state.request # q
  BY <1>2 DEF ToolInv, Executing
<1>10. Executing'
  <2>1. ASSUME NEW x \in Workers, worker'[x].pc = "executing"
        PROVE  tools'[worker'[x].state.request] = "running"
    BY <1>5, <1>6, <1>7, <1>8, <1>9, <2>1 DEF ToolInv, Executing
  <2>2. ASSUME NEW x \in Workers, NEW y \in Workers,
               worker'[x].pc = "executing", worker'[y].pc = "executing",
               worker'[x].state.request = worker'[y].state.request
        PROVE  x = y
    BY <1>5, <1>6, <2>2 DEF ToolInv, Executing
  <2>3. QED
    BY <2>1, <2>2 DEF Executing
<1>11. ItemsAreStored'
  <2>1. run'.state.found => tools'[run'.state.request] = "found"
    BY <1>2, <1>4, <1>7 DEF ToolInv, ItemsAreStored, TypeOK, State
  <2>2. ASSUME NEW x \in Workers, worker'[x].pc # "idle", worker'[x].state.found
        PROVE  tools'[worker'[x].state.request] = "found"
    <3>1. CASE x = w
      BY <1>6, <1>7, <2>2, <3>1
    <3>2. CASE x # w
      <4>1. /\ worker'[x] = worker[x]
            /\ worker[x].state.request \in Requests
            /\ tools[worker[x].state.request] = "found"
        BY <1>5, <1>8, <2>2, <3>2 DEF ToolInv, ItemsAreStored
      <4>2. worker[x].state.request # q
        BY <1>4, <4>1
      <4>3. QED
        BY <1>7, <4>1, <4>2
    <3>3. QED
      BY <3>1, <3>2
  <2>3. QED
    BY <2>1, <2>2 DEF ItemsAreStored
<1>12. QED
  BY <1>4, <1>7, <1>10, <1>11 DEF ToolInv, Answers

LEMMA ToolKnownKeeps ==
  ASSUME TypeOK, ToolInv, NEW w \in Workers, ToolKnown(w)
  PROVE  ToolInv' /\ tools' = tools
<1> DEFINE q == worker[w].state.request
<1>1. /\ worker[w].pc = "ready" /\ run' = run /\ tools' = tools
      /\ Answered(w, tools[q] = "found")
  BY DEF ToolKnown
<1>2. worker[w].state \in State /\ q \in Requests
  BY <1>1, WorkerParts DEF State
<1>3. /\ worker'[w] = [pc |-> "answered",
                       state |-> [worker[w].state EXCEPT !.found = (tools[q] = "found")]]
      /\ \A x \in Workers : x # w => worker'[x] = worker[x]
  BY <1>1 DEF Answered, TypeOK
<1>4. /\ worker'[w].pc = "answered"
      /\ worker'[w].state.request = q
      /\ worker'[w].state.found = (tools[q] = "found")
  BY <1>2, <1>3 DEF State
<1>5. Executing'
  BY <1>1, <1>3, <1>4 DEF ToolInv, Executing
<1>6. ItemsAreStored'
  BY <1>1, <1>3, <1>4 DEF ToolInv, ItemsAreStored
<1>7. QED
  BY <1>1, <1>5, <1>6 DEF ToolInv

\* What the other actions leave of it, and that they find nothing new.
LEMMA ElsewhereWorker ==
  ASSUME TypeOK, ToolInv, NEW w \in Workers, Elsewhere(w)
  PROVE  /\ tools' = tools
         /\ \A x \in Workers : x # w => worker'[x] = worker[x]
         /\ worker'[w].pc # "executing"
         /\ worker'[w].pc # "idle" /\ worker'[w].state.found =>
              tools[worker'[w].state.request] = "found"
<1> USE DEF Idle
<1>1. CASE Resume(w)
  BY <1>1 DEF Resume, TypeOK, ToolInv, ItemsAreStored
<1>2. CASE Drop(w) \/ Retrieved(w) \/ CallFails(w) \/ Verify(w) \/ Complete(w)
  BY <1>2 DEF Drop, Retrieved, CallFails, Verify, Complete, TypeOK
<1>3. CASE StartCall(w)
  <2>1. worker' = [worker EXCEPT ![w] = [pc |-> "calling", state |-> worker[w].state]]
    BY <1>3, StatePc DEF StartCall
  <2>2. QED
    BY <1>3, <2>1 DEF StartCall, TypeOK, ToolInv, ItemsAreStored
<1>4. CASE CallSucceeds(w)
  <2>1. PICK drafts \in Outputs : Verified(w, drafts)
    BY <1>4 DEF CallSucceeds
  <2>2. QED
    BY <1>4, <2>1 DEF CallSucceeds, Verified, TypeOK, ToolInv, ItemsAreStored
<1>5. CASE CallKnown(w)
  BY <1>5 DEF CallKnown, Verified, TypeOK, ToolInv, ItemsAreStored
<1>6. CASE Decide(w)
  <2> DEFINE s == worker[w].state
             closed == [s EXCEPT !.version = @ + 1, !.node = Finished]
  <2>1. s \in State
    BY <1>6, WorkerParts DEF Decide
  <2>2. closed.found = s.found /\ closed.request = s.request
    BY <2>1 DEF State
  <2>3. PICK conclusive \in BOOLEAN :
          worker' = [worker EXCEPT ![w] =
                       [pc |-> "closing", state |-> closed, outcome |-> Outcome(conclusive, s)]]
    BY <1>6 DEF Decide
  <2>4. /\ worker'[w].pc = "closing" /\ worker'[w].state = closed
        /\ \A x \in Workers : x # w => worker'[x] = worker[x]
    BY <2>3 DEF TypeOK
  <2>5. QED
    BY <1>6, <2>2, <2>4 DEF Decide, ToolInv, ItemsAreStored
<1>7. QED
  BY <1>1, <1>2, <1>3, <1>4, <1>5, <1>6 DEF Elsewhere

LEMMA ElsewhereRun ==
  ASSUME TypeOK, ToolInv, NEW w \in Workers, Elsewhere(w)
  PROVE  run'.state.found => tools[run'.state.request] = "found"
<1>1. CASE \/ Resume(w) \/ Drop(w) \/ StartCall(w) \/ CallSucceeds(w) \/ CallFails(w)
           \/ CallKnown(w)
  BY <1>1 DEF Resume, Drop, StartCall, CallSucceeds, CallFails, CallKnown, ToolInv,
              ItemsAreStored
<1>2. CASE Complete(w)
  <2>1. run'.state = run.state
    BY <1>2 DEF Complete, TypeOK
  <2>2. QED
    BY <2>1 DEF ToolInv, ItemsAreStored
<1>3. CASE Verify(w)
  <2>1. run'.state.found = FALSE
    BY <1>3 DEF Verify, TypeOK
  <2>2. QED
    BY <2>1
<1>4. CASE Retrieved(w) \/ Decide(w)
  <2>1. worker[w].state \in State /\ worker[w].pc # "idle"
    BY <1>4, WorkerParts DEF Retrieved, Decide
  <2>2. /\ run'.state.found = worker[w].state.found
        /\ run'.state.request = worker[w].state.request
    <3> DEFINE s == worker[w].state
    <3>1. CASE Retrieved(w)
      <4>1. run'.state = [s EXCEPT !.version = @ + 1, !.node = "VERIFY"]
        BY <3>1 DEF Retrieved, TypeOK
      <4>2. QED
        BY <2>1, <4>1 DEF State
    <3>2. CASE Decide(w)
      <4>1. run'.state = [s EXCEPT !.version = @ + 1, !.node = Finished]
        BY <3>2 DEF Decide, TypeOK
      <4>2. QED
        BY <2>1, <4>1 DEF State
    <3>3. QED
      BY <1>4, <3>1, <3>2
  <2>3. QED
    BY <2>1, <2>2 DEF ToolInv, ItemsAreStored
<1>5. QED
  BY <1>1, <1>2, <1>3, <1>4 DEF Elsewhere

LEMMA ElsewhereKeeps ==
  ASSUME TypeOK, ToolInv, NEW w \in Workers, Elsewhere(w)
  PROVE  ToolInv' /\ tools' = tools
<1>1. Executing'
  BY ElsewhereWorker DEF ToolInv, Executing
<1>2. ItemsAreStored'
  BY ElsewhereWorker, ElsewhereRun DEF ToolInv, ItemsAreStored
<1>3. QED
  BY <1>1, <1>2, ElsewhereWorker DEF ToolInv

LEMMA NextTool ==
  ASSUME TypeOK, ToolInv, [Next]_vars
  PROVE  /\ ToolInv'
         /\ \A q \in Requests : tools[q] \in Answers => tools'[q] = tools[q]
<1>1. CASE UNCHANGED vars
  BY <1>1 DEF vars, ToolInv, Executing, ItemsAreStored
<1>2. CASE StatusChanges \/ Evaluate
  <2>1. run'.state = run.state /\ tools' = tools /\ worker' = worker
    BY <1>2 DEF StatusChanges, Evaluate, TypeOK
  <2>2. QED
    BY <2>1 DEF ToolInv, Executing, ItemsAreStored
<1>3. ASSUME NEW w \in Workers, Elsewhere(w)
      PROVE  /\ ToolInv'
             /\ \A q \in Requests : tools[q] \in Answers => tools'[q] = tools[q]
  BY <1>3, ElsewhereKeeps
<1>4. ASSUME NEW w \in Workers, StartTool(w) \/ ToolReturns(w) \/ ToolKnown(w)
      PROVE  /\ ToolInv'
             /\ \A q \in Requests : tools[q] \in Answers => tools'[q] = tools[q]
  BY <1>4, StartToolKeeps, ToolReturnsKeeps, ToolKnownKeeps
<1>5. QED
  BY <1>1, <1>2, <1>3, <1>4 DEF Next, Elsewhere

(***************************************************************************)
(* A tool request has one answer for ever, whoever dies or takes over: the *)
(* row inserted before the call lets one worker execute it.                *)
(***************************************************************************)
THEOREM AnswersKept == Spec => AnswersStand
<1> DEFINE IInv == TypeOK /\ ToolInv
<1>1. Init => IInv
  BY InitTyped, InitToolInv
<1>2. IInv /\ [Next]_vars => IInv'
  BY NextTyped, NextTool
<1>3. IInv /\ [Next]_vars =>
        [\A q \in Requests : tools[q] \in Answers => tools'[q] = tools[q]]_vars
  BY NextTool
<1> HIDE DEF IInv
<1>4. QED
  BY <1>1, <1>2, <1>3, PTL DEF Spec, AnswersStand

-----------------------------------------------------------------------------
(* Evidence comes from a tool's items and an answered call *)

Asked(s) == s.found /\ s.version \in Version /\ calls[s.version].status # "absent"
Told(v) == v \in Version /\ calls[v].status \in {"success", "failed"}

\* A worker that waits for the verifier has items to show it, and drafts come
\* from an answered call.
CallInv ==
  \A w \in Workers :
    /\ worker[w].pc = "calling" => Asked(worker[w].state)
    /\ worker[w].pc = "verified" /\ worker[w].drafts # {} =>
         worker[w].state.found /\ Told(worker[w].state.version)

EvidenceInv ==
  \A e \in evidence :
    tools[e.request] = "found" /\ Told(e.version) /\ e.draft.source \in Items[e.request]

\* Whatever a step does, an answered call stays answered, a sent one sent.
LEMMA CallsGrow ==
  ASSUME TypeOK, [Next]_vars, NEW v \in Version
  PROVE  /\ calls[v].status # "absent" => calls'[v].status # "absent"
         /\ Told(v) => Told(v)'
<1>1. CASE calls' = calls
  BY <1>1 DEF Told
<1>2. ASSUME NEW w \in Workers, StartCall(w)
      PROVE  /\ calls[v].status # "absent" => calls'[v].status # "absent"
             /\ Told(v) => Told(v)'
  BY <1>2 DEF StartCall, TypeOK, Call, Told
<1>3. ASSUME NEW w \in Workers, CallSucceeds(w)
      PROVE  /\ calls[v].status # "absent" => calls'[v].status # "absent"
             /\ Told(v) => Told(v)'
  <2>1. PICK drafts \in Outputs :
          calls' = [calls EXCEPT ![worker[w].state.version] =
                      [status |-> "success", drafts |-> drafts]]
    BY <1>3 DEF CallSucceeds
  <2>2. QED
    BY <2>1 DEF TypeOK, Told
<1>4. ASSUME NEW w \in Workers, CallFails(w)
      PROVE  /\ calls[v].status # "absent" => calls'[v].status # "absent"
             /\ Told(v) => Told(v)'
  BY <1>4 DEF CallFails, TypeOK, Call, Told
<1>5. QED
  BY <1>1, <1>2, <1>3, <1>4 DEF Next, vars, Resume, Drop, StartTool, ToolReturns, ToolKnown,
     Retrieved, CallKnown, Verify, Decide, Complete, StatusChanges, Evaluate

\* The worker whose place changes is the one that acts.
LEMMA OneMoves ==
  ASSUME TypeOK, Next, NEW x \in Workers, worker'[x] # worker[x]
  PROVE  \/ Resume(x) \/ Drop(x)
         \/ StartTool(x) \/ ToolReturns(x) \/ ToolKnown(x) \/ Retrieved(x)
         \/ StartCall(x) \/ CallSucceeds(x) \/ CallFails(x) \/ CallKnown(x) \/ Verify(x)
         \/ Decide(x) \/ Complete(x)
<1>1. PICK w \in Workers :
        \/ Resume(w) \/ Drop(w)
        \/ StartTool(w) \/ ToolReturns(w) \/ ToolKnown(w) \/ Retrieved(w)
        \/ StartCall(w) \/ CallSucceeds(w) \/ CallFails(w) \/ CallKnown(w) \/ Verify(w)
        \/ Decide(w) \/ Complete(w)
  BY DEF Next, StatusChanges, Evaluate
<1>2. x = w
  BY <1>1 DEF Resume, Drop, StartTool, ToolReturns, ToolKnown, Answered, Retrieved, StartCall,
     CallSucceeds, CallFails, CallKnown, Verified, Verify, Decide, Complete, TypeOK
<1>3. QED
  BY <1>1, <1>2

LEMMA MoverCalls ==
  ASSUME TypeOK, Next, NEW x \in Workers, worker'[x] # worker[x]
  PROVE  \/ worker'[x].pc \notin {"calling", "verified"}
         \/ StartCall(x) \/ CallSucceeds(x) \/ CallKnown(x)
<1>1. CASE Resume(x) \/ Drop(x) \/ Retrieved(x) \/ CallFails(x) \/ Verify(x) \/ Complete(x)
  BY <1>1 DEF Resume, Drop, Retrieved, CallFails, Verify, Complete, Idle, TypeOK
<1>2. CASE StartTool(x)
  <2>1. worker' = [worker EXCEPT ![x] = [pc |-> "executing", state |-> worker[x].state]]
    BY <1>2, StatePc DEF StartTool
  <2>2. QED
    BY <2>1 DEF TypeOK
<1>3. CASE ToolReturns(x) \/ ToolKnown(x) \/ Decide(x)
  BY <1>3 DEF ToolReturns, ToolKnown, Answered, Decide, TypeOK
<1>4. QED
  BY <1>1, <1>2, <1>3, OneMoves

LEMMA NextCall ==
  ASSUME TypeOK, CallInv, [Next]_vars
  PROVE  CallInv'
<1>1. ASSUME NEW x \in Workers, worker'[x] = worker[x]
      PROVE  /\ worker'[x].pc = "calling" => Asked(worker[x].state)'
             /\ worker'[x].pc = "verified" /\ worker'[x].drafts # {} =>
                  worker'[x].state.found /\ Told(worker[x].state.version)'
  BY <1>1, CallsGrow DEF CallInv, Asked, Told
<1>2. ASSUME NEW x \in Workers, StartCall(x)
      PROVE  worker'[x].pc = "calling" /\ Asked(worker[x].state)'
  <2>1. worker'[x] = [pc |-> "calling", state |-> worker[x].state]
    BY <1>2, StatePc DEF StartCall, TypeOK
  <2>2. worker[x].state \in State
    BY <1>2, WorkerParts DEF StartCall
  <2>3. calls'[worker[x].state.version].status = "running"
    BY <1>2, <2>2 DEF StartCall, TypeOK, Call, State
  <2>4. QED
    BY <1>2, <2>1, <2>2, <2>3 DEF StartCall, Asked, State
<1>3. ASSUME NEW x \in Workers, CallSucceeds(x)
      PROVE  /\ worker'[x].pc = "verified"
             /\ worker'[x].state.found /\ Told(worker[x].state.version)'
  <2>1. PICK drafts \in Outputs :
          /\ calls' = [calls EXCEPT ![worker[x].state.version] =
                         [status |-> "success", drafts |-> drafts]]
          /\ Verified(x, drafts)
    BY <1>3 DEF CallSucceeds
  <2>2. Asked(worker[x].state)
    BY <1>3 DEF CallSucceeds, CallInv
  <2>3. worker'[x] = [pc |-> "verified", state |-> worker[x].state, drafts |-> drafts]
    BY <2>1 DEF Verified, TypeOK
  <2>4. calls'[worker[x].state.version].status = "success"
    BY <2>1, <2>2 DEF TypeOK, Asked
  <2>5. QED
    BY <2>2, <2>3, <2>4 DEF Asked, Told
<1>4. ASSUME NEW x \in Workers, CallKnown(x)
      PROVE  /\ worker'[x].pc = "verified"
             /\ worker'[x].drafts # {} =>
                  worker'[x].state.found /\ Told(worker[x].state.version)'
  <2>1. worker[x].state \in State
    BY <1>4, WorkerParts DEF CallKnown
  <2>2. /\ worker'[x].pc = "verified" /\ worker'[x].state = worker[x].state
        /\ worker'[x].drafts # {} => worker[x].state.found
    BY <1>4 DEF CallKnown, Verified, TypeOK
  <2>3. calls' = calls /\ (worker[x].state.found => calls[worker[x].state.version].status = "success")
    BY <1>4 DEF CallKnown
  <2>4. QED
    BY <2>1, <2>2, <2>3 DEF Told, State
<1>5. ASSUME NEW x \in Workers
      PROVE  /\ worker'[x].pc = "calling" => Asked(worker[x].state)'
             /\ worker'[x].pc = "verified" /\ worker'[x].drafts # {} =>
                  worker'[x].state.found /\ Told(worker[x].state.version)'
  <2>1. CASE worker'[x] = worker[x]
    BY <1>1, <2>1
  <2>2. CASE worker'[x] # worker[x]
    <3>1. Next
      BY <2>2 DEF vars
    <3>2. QED
      BY <1>2, <1>3, <1>4, <2>2, <3>1, MoverCalls
  <2>3. QED
    BY <2>1, <2>2
<1>6. QED
  BY <1>5 DEF CallInv

\* New evidence is what the verifier said of items the tool found.
LEMMA NewEvidence ==
  ASSUME TypeOK, ToolInv, CallInv, NEW w \in Workers, Verify(w), NEW e \in evidence',
         e \notin evidence
  PROVE  tools[e.request] = "found" /\ Told(e.version) /\ e.draft.source \in Items[e.request]
<1> DEFINE s == worker[w].state
<1>1. worker[w].pc = "verified" /\ e \in PendingEvidence(s, worker[w].drafts)
  BY DEF Verify
<1>2. /\ e.request = s.request /\ e.version = s.version /\ worker[w].drafts # {}
      /\ e.draft \in worker[w].drafts
  BY <1>1 DEF PendingEvidence
<1>3. s.found /\ Told(s.version)
  BY <1>1, <1>2 DEF CallInv
<1>4. tools[s.request] = "found"
  BY <1>1, <1>3 DEF ToolInv, ItemsAreStored
<1>5. e.draft.source \in Items[s.request]
  BY <1>2 DEF Verify, FromItems
<1>6. QED
  BY <1>2, <1>3, <1>4, <1>5

LEMMA EvidenceChanges ==
  ASSUME [Next]_vars
  PROVE  \/ evidence' = evidence
         \/ \E w \in Workers : Verify(w)
BY DEF Next, vars, Resume, Drop, StartTool, ToolReturns, ToolKnown, Retrieved, StartCall,
   CallSucceeds, CallFails, CallKnown, Decide, Complete, StatusChanges, Evaluate

LEMMA NextEvidence ==
  ASSUME TypeOK, ToolInv, CallInv, EvidenceInv, [Next]_vars
  PROVE  EvidenceInv'
<1> SUFFICES ASSUME NEW e \in evidence'
             PROVE  /\ tools'[e.request] = "found" /\ Told(e.version)'
                    /\ e.draft.source \in Items[e.request]
  BY DEF EvidenceInv
<1>1. e \in Evidence
  BY NextTyped DEF TypeOK
<1>2. tools[e.request] = "found" /\ Told(e.version) /\ e.draft.source \in Items[e.request]
  BY EvidenceChanges, NewEvidence DEF EvidenceInv
<1>3. tools'[e.request] = "found"
  BY <1>1, <1>2, NextTool DEF Evidence, Answers
<1>4. Told(e.version)'
  BY <1>2, CallsGrow DEF Told
<1>5. QED
  BY <1>2, <1>3, <1>4

SourceInv == TypeOK /\ ToolInv /\ CallInv /\ EvidenceInv

LEMMA InitSource == Init => SourceInv
<1> SUFFICES ASSUME Init
             PROVE  SourceInv
  OBVIOUS
<1>1. CallInv /\ EvidenceInv
  BY DEF Init, CallInv, EvidenceInv, Idle
<1>2. QED
  BY <1>1, InitTyped, InitToolInv DEF SourceInv

LEMMA NextSource == SourceInv /\ [Next]_vars => SourceInv'
BY NextTyped, NextTool, NextCall, NextEvidence DEF SourceInv

(***************************************************************************)
(* What the agent appended as evidence cites an item that answered its     *)
(* request, and governance counts it too: it may lose it to a modality its *)
(* requirement does not allow or to a late error, and to nothing else.     *)
(***************************************************************************)
THEOREM EvidenceKept == Spec => []EvidenceCounts
<1>1. SourceInv => EvidenceCounts
  BY DEF SourceInv, EvidenceInv, EvidenceCounts, Told, IsValid
<1>2. QED
  BY <1>1, InitSource, NextSource, PTL DEF Spec

-----------------------------------------------------------------------------
(* What a finished run can no longer change *)

\* A worker holds a snapshot of the past, or the present one's node, and is
\* where that node sends it.
Abreast(s) ==
  /\ s.version <= run.state.version
  /\ s.version = run.state.version => s.node = run.state.node

InStep ==
  \A w \in Workers :
    /\ worker[w].pc # "idle" => Abreast(worker[w].state)
    /\ worker[w].pc \in {"executing", "answered"} => worker[w].state.node = "RETRIEVE"
    /\ worker[w].pc \in {"calling", "verified"} => worker[w].state.node = "VERIFY"

\* The run has come to its end, and nothing it found speaks against itself.
Consistent == run.state.node = Finished /\ Conflicts(evidence) = {}

FinishInv ==
  /\ run.status = "COMPLETED" => Consistent
  /\ \A w \in Workers :
       worker[w].pc = "closing" =>
         /\ run.state.node = Finished
         /\ worker[w].outcome = "COMPLETED" => Consistent

\* The only three steps that write the snapshot, and from where.
LEMMA StateChanges ==
  ASSUME TypeOK, InStep, [Next]_vars
  PROVE  \/ run'.state = run.state
         \/ \E w \in Workers :
              /\ Retrieved(w) \/ Verify(w) \/ Decide(w)
              /\ run.state.node = worker[w].state.node
              /\ run.state.node # Finished
              /\ run'.state.version = run.state.version + 1
<1>1. CASE UNCHANGED vars \/ StatusChanges \/ Evaluate
  BY <1>1 DEF vars, StatusChanges, Evaluate, TypeOK
<1>2. ASSUME NEW w \in Workers,
             \/ Resume(w) \/ Drop(w) \/ StartTool(w) \/ ToolReturns(w) \/ ToolKnown(w)
             \/ StartCall(w) \/ CallSucceeds(w) \/ CallFails(w) \/ CallKnown(w)
      PROVE  run'.state = run.state
  BY <1>2 DEF Resume, Drop, StartTool, ToolReturns, ToolKnown, StartCall, CallSucceeds,
     CallFails, CallKnown
<1>3. ASSUME NEW w \in Workers, Complete(w)
      PROVE  run'.state = run.state
  BY <1>3 DEF Complete, TypeOK
<1>4. ASSUME NEW w \in Workers, Retrieved(w) \/ Verify(w) \/ Decide(w)
      PROVE  /\ run.state.node = worker[w].state.node
             /\ run.state.node # Finished
             /\ run'.state.version = run.state.version + 1
  <2> DEFINE s == worker[w].state
  <2>1. s \in State /\ s.version = run.state.version
    BY <1>4, WorkerParts DEF Retrieved, Verify, Decide, MayCheckpoint
  <2>2. s.node = run.state.node /\ s.node # Finished
    BY <1>4, <2>1 DEF Retrieved, Verify, Decide, InStep, Abreast, Finished
  <2>3. CASE Retrieved(w)
    <3>1. run'.state = [s EXCEPT !.version = @ + 1, !.node = "VERIFY"]
      BY <2>3 DEF Retrieved, TypeOK
    <3>2. QED
      BY <2>1, <2>2, <3>1 DEF State
  <2>4. CASE Verify(w)
    BY <2>1, <2>2, <2>4 DEF Verify, TypeOK
  <2>5. CASE Decide(w)
    <3>1. run'.state = [s EXCEPT !.version = @ + 1, !.node = Finished]
      BY <2>5 DEF Decide, TypeOK
    <3>2. QED
      BY <2>1, <2>2, <3>1 DEF State
  <2>6. QED
    BY <1>4, <2>3, <2>4, <2>5
<1>5. QED
  BY <1>1, <1>2, <1>3, <1>4 DEF Next

LEMMA FinishedStands ==
  ASSUME TypeOK, InStep, [Next]_vars, run.state.node = Finished
  PROVE  run'.state = run.state /\ evidence' = evidence
<1>1. run'.state = run.state
  BY StateChanges
<1>2. ASSUME NEW w \in Workers, Verify(w)
      PROVE  FALSE
  <2>1. worker[w].state.node = run.state.node
    BY <1>2 DEF Verify, MayCheckpoint, InStep, Abreast
  <2>2. worker[w].state.node = "VERIFY"
    BY <1>2 DEF Verify, InStep
  <2>3. QED
    BY <2>1, <2>2 DEF Finished
<1>3. QED
  BY <1>1, <1>2, EvidenceChanges

AbreastNext(s) ==
  /\ s.version <= run'.state.version
  /\ s.version = run'.state.version => s.node = run'.state.node

InStepNext(x) ==
  /\ worker'[x].pc # "idle" => AbreastNext(worker'[x].state)
  /\ worker'[x].pc \in {"executing", "answered"} => worker'[x].state.node = "RETRIEVE"
  /\ worker'[x].pc \in {"calling", "verified"} => worker'[x].state.node = "VERIFY"

LEMMA StillAbreast ==
  ASSUME TypeOK, InStep, [Next]_vars, NEW s \in State, Abreast(s)
  PROVE  AbreastNext(s)
<1>1. CASE run'.state = run.state
  BY <1>1 DEF Abreast, AbreastNext
<1>2. CASE run'.state.version = run.state.version + 1
  BY <1>2, VerdictConstants DEF Abreast, AbreastNext, TypeOK, State, Version
<1>3. QED
  BY <1>1, <1>2, StateChanges

LEMMA MoverInStep ==
  ASSUME TypeOK, InStep, Next, NEW w \in Workers,
         \/ Resume(w) \/ Drop(w)
         \/ StartTool(w) \/ ToolReturns(w) \/ ToolKnown(w) \/ Retrieved(w)
         \/ StartCall(w) \/ CallSucceeds(w) \/ CallFails(w) \/ CallKnown(w) \/ Verify(w)
         \/ Decide(w) \/ Complete(w)
  PROVE  InStepNext(w)
<1> DEFINE s == worker[w].state
<1>1. CASE Resume(w)
  <2>1. worker'[w] = [pc |-> "ready", state |-> run.state] /\ run' = run
    BY <1>1 DEF Resume, TypeOK
  <2>2. run.state.version \in Nat
    BY VerdictConstants DEF TypeOK, State, Version
  <2>3. QED
    BY <2>1, <2>2 DEF InStepNext, AbreastNext
<1>2. CASE Drop(w) \/ Retrieved(w) \/ CallFails(w) \/ Verify(w) \/ Complete(w)
  <2>1. worker'[w] = Idle
    BY <1>2 DEF Drop, Retrieved, CallFails, Verify, Complete, TypeOK
  <2>2. QED
    BY <2>1 DEF InStepNext, Idle
<1>3. ASSUME NEW p \in {"executing", "answered", "calling", "verified"},
             worker[w].pc # "idle",
             worker'[w].pc = p, worker'[w].state.version = s.version,
             worker'[w].state.node = s.node,
             p \in {"executing", "answered"} => s.node = "RETRIEVE",
             p \in {"calling", "verified"} => s.node = "VERIFY"
      PROVE  InStepNext(w)
  <2>1. s \in State /\ Abreast(s)
    BY <1>3, WorkerParts DEF InStep
  <2>2. AbreastNext(s)
    BY <2>1, StillAbreast
  <2>3. QED
    BY <1>3, <2>2 DEF InStepNext, AbreastNext
<1>4. CASE StartTool(w)
  <2>1. worker'[w] = [pc |-> "executing", state |-> s]
    BY <1>4, StatePc DEF StartTool, TypeOK
  <2>2. QED
    BY <1>3, <1>4, <2>1 DEF StartTool
<1>5. CASE ToolReturns(w) \/ ToolKnown(w)
  <2>1. PICK found \in BOOLEAN : Answered(w, found)
    BY <1>5 DEF ToolReturns, ToolKnown
  <2>2. worker'[w] = [pc |-> "answered", state |-> [s EXCEPT !.found = found]]
    BY <2>1 DEF Answered, TypeOK
  <2>3. s \in State /\ worker[w].pc # "idle" /\ s.node = "RETRIEVE"
    BY <1>5, WorkerParts DEF ToolReturns, ToolKnown, InStep
  <2>4. worker'[w].state.version = s.version /\ worker'[w].state.node = s.node
    BY <2>2, <2>3 DEF State
  <2>5. QED
    BY <1>3, <2>2, <2>3, <2>4
<1>6. CASE StartCall(w)
  <2>1. worker'[w] = [pc |-> "calling", state |-> s]
    BY <1>6, StatePc DEF StartCall, TypeOK
  <2>2. QED
    BY <1>3, <1>6, <2>1 DEF StartCall
<1>7. CASE CallSucceeds(w) \/ CallKnown(w)
  <2>1. worker'[w].pc = "verified" /\ worker'[w].state = s
    <3>1. PICK drafts : Verified(w, drafts)
      BY <1>7 DEF CallSucceeds, CallKnown
    <3>2. QED
      BY <3>1 DEF Verified, TypeOK
  <2>2. worker[w].pc # "idle" /\ s.node = "VERIFY"
    BY <1>7 DEF CallSucceeds, CallKnown, InStep
  <2>3. QED
    BY <1>3, <2>1, <2>2
<1>8. CASE Decide(w)
  <2> DEFINE closed == [s EXCEPT !.version = @ + 1, !.node = Finished]
  <2>1. run'.state = closed /\ worker'[w].pc = "closing" /\ worker'[w].state = closed
    BY <1>8 DEF Decide, TypeOK
  <2>2. s \in State /\ s.version + 1 \in Version
    BY <1>8, WorkerParts, NextVersion DEF Decide
  <2>3. closed.version \in Nat
    BY <2>2, VerdictConstants DEF State, Version
  <2>4. QED
    BY <2>1, <2>3 DEF InStepNext, AbreastNext
<1>9. QED
  BY <1>1, <1>2, <1>4, <1>5, <1>6, <1>7, <1>8

LEMMA NextInStep ==
  ASSUME TypeOK, InStep, [Next]_vars
  PROVE  InStep'
<1>1. ASSUME NEW x \in Workers
      PROVE  InStepNext(x)
  <2>1. CASE worker'[x] = worker[x]
    <3>1. worker[x].pc # "idle" => AbreastNext(worker[x].state)
      BY WorkerParts, StillAbreast DEF InStep
    <3>2. QED
      BY <2>1, <3>1 DEF InStep, InStepNext
  <2>2. CASE worker'[x] # worker[x]
    <3>1. Next
      BY <2>2 DEF vars
    <3>2. QED
      BY <2>2, <3>1, OneMoves, MoverInStep
  <2>3. QED
    BY <2>1, <2>2
<1>2. QED
  BY <1>1 DEF InStep, InStepNext, Abreast, AbreastNext

LEMMA ConsistentStands ==
  ASSUME TypeOK, InStep, [Next]_vars, Consistent
  PROVE  Consistent'
BY FinishedStands DEF Consistent

LEMMA StatusMoves ==
  ASSUME TypeOK, [Next]_vars, run'.status = "COMPLETED"
  PROVE  \/ run.status = "COMPLETED"
         \/ \E w \in Workers : Complete(w) /\ worker[w].outcome = "COMPLETED"
<1>1. CASE UNCHANGED vars
  BY <1>1 DEF vars
<1>2. CASE StatusChanges
  BY <1>2 DEF StatusChanges, TypeOK
<1>3. ASSUME NEW w \in Workers, Complete(w)
      PROVE  worker[w].outcome = "COMPLETED"
  BY <1>3 DEF Complete, TypeOK
<1>4. ASSUME NEW w \in Workers, Retrieved(w) \/ Verify(w) \/ Decide(w)
      PROVE  run.status = "COMPLETED"
  BY <1>4 DEF Retrieved, Verify, Decide, TypeOK
<1>5. QED
  BY <1>1, <1>2, <1>3, <1>4 DEF Next, Resume, Drop, StartTool, ToolReturns, ToolKnown,
     StartCall, CallSucceeds, CallFails, CallKnown, Evaluate

LEMMA Closing ==
  ASSUME TypeOK, Next, NEW x \in Workers, worker'[x] # worker[x], worker'[x].pc = "closing"
  PROVE  Decide(x)
<1>1. CASE Resume(x) \/ Drop(x) \/ Retrieved(x) \/ CallFails(x) \/ Verify(x) \/ Complete(x)
  BY <1>1 DEF Resume, Drop, Retrieved, CallFails, Verify, Complete, Idle, TypeOK
<1>2. CASE StartTool(x) \/ StartCall(x)
  <2>1. PICK p \in {"executing", "calling"} :
          worker' = [worker EXCEPT ![x] = [pc |-> p, state |-> worker[x].state]]
    BY <1>2, StatePc DEF StartTool, StartCall
  <2>2. QED
    BY <2>1 DEF TypeOK
<1>3. CASE ToolReturns(x) \/ ToolKnown(x)
  BY <1>3 DEF ToolReturns, ToolKnown, Answered, TypeOK
<1>4. CASE CallSucceeds(x) \/ CallKnown(x)
  <2>1. PICK drafts : Verified(x, drafts)
    BY <1>4 DEF CallSucceeds, CallKnown
  <2>2. QED
    BY <2>1 DEF Verified, TypeOK
<1>5. QED
  BY <1>1, <1>2, <1>3, <1>4, OneMoves

LEMMA DecideCloses ==
  ASSUME TypeOK, NEW w \in Workers, Decide(w)
  PROVE  /\ run'.state.node = Finished
         /\ worker'[w].outcome = "COMPLETED" => Consistent'
<1> DEFINE s == worker[w].state
           closed == [s EXCEPT !.version = @ + 1, !.node = Finished]
<1>1. PICK conclusive \in BOOLEAN :
        /\ run' = [run EXCEPT !.state = closed]
        /\ worker' = [worker EXCEPT ![w] =
                        [pc |-> "closing", state |-> closed, outcome |-> Outcome(conclusive, s)]]
  BY DEF Decide
<1>2. s \in State
  BY WorkerParts DEF Decide
<1>3. run'.state.node = Finished
  BY <1>1, <1>2 DEF TypeOK, State
<1>4. worker'[w].outcome = Outcome(conclusive, s)
  BY <1>1 DEF TypeOK
<1>5. evidence' = evidence
  BY DEF Decide
<1>6. Outcome(conclusive, s) = "COMPLETED" => Conflicts(evidence) = {}
  BY DEF Outcome
<1>7. QED
  BY <1>3, <1>4, <1>5, <1>6 DEF Consistent

LEMMA NextFinish ==
  ASSUME TypeOK, InStep, FinishInv, [Next]_vars
  PROVE  FinishInv'
<1>1. run'.status = "COMPLETED" => Consistent'
  BY StatusMoves, ConsistentStands DEF FinishInv, Complete
<1>2. ASSUME NEW x \in Workers, worker'[x].pc = "closing"
      PROVE  /\ run'.state.node = Finished
             /\ worker'[x].outcome = "COMPLETED" => Consistent'
  <2>1. CASE worker'[x] = worker[x]
    BY <1>2, <2>1, FinishedStands, ConsistentStands DEF FinishInv
  <2>2. CASE worker'[x] # worker[x]
    <3>1. Next
      BY <2>2 DEF vars
    <3>2. QED
      BY <1>2, <2>2, <3>1, Closing, DecideCloses
  <2>3. QED
    BY <2>1, <2>2
<1>3. QED
  BY <1>1, <1>2 DEF FinishInv

-----------------------------------------------------------------------------
(* The rules on one case's evidence *)

\* A requirement counts as met or unmet only by a sure piece of evidence.
LEMMA CountedExists ==
  ASSUME policy \in Policies, NEW rows, NEW key, NEW stance, NEW n \in Nat \ {0},
         Counted(rows, key, stance) >= n
  PROVE  \E e \in rows : KeyOf[e.request] = key /\ e.draft.stance = stance /\ e.draft.sure
<1> DEFINE found == {e \in rows : KeyOf[e.request] = key
                                  /\ e.draft.stance = stance /\ e.draft.sure}
<1>1. SUFFICES ASSUME found = {}
               PROVE  FALSE
  OBVIOUS
<1>2. Counted(rows, key, stance) = Cardinality(found)
  BY DEF Counted
<1> HIDE DEF found
<1>3. Cardinality(found) = 0
  BY <1>1, FS_EmptySet
<1>4. QED
  BY <1>2, <1>3

LEMMA StatusHasEvidence ==
  ASSUME policy \in Policies, NEW rows, NEW key
  PROVE  /\ Aggregate(rows, key) \in {"SATISFIED", "CONFLICTED"} =>
              \E e \in rows : KeyOf[e.request] = key
                              /\ e.draft.stance = "SUPPORT" /\ e.draft.sure
         /\ Aggregate(rows, key) \in {"NOT_SATISFIED", "CONFLICTED"} =>
              \E e \in rows : KeyOf[e.request] = key
                              /\ e.draft.stance = "CONTRADICT" /\ e.draft.sure
         /\ Aggregate(rows, key) \in {"SATISFIED", "NOT_SATISFIED", "CONFLICTED", "UNKNOWN"}
<1>1. policy.support \in Nat \ {0} /\ policy.contradict \in Nat \ {0}
  BY VerdictConstants DEF Policy
<1>2. /\ Aggregate(rows, key) \in {"SATISFIED", "CONFLICTED"} =>
           Counted(rows, key, "SUPPORT") >= policy.support
      /\ Aggregate(rows, key) \in {"NOT_SATISFIED", "CONFLICTED"} =>
           Counted(rows, key, "CONTRADICT") >= policy.contradict
      /\ Aggregate(rows, key) \in {"SATISFIED", "NOT_SATISFIED", "CONFLICTED", "UNKNOWN"}
  BY DEF Aggregate
<1>3. QED
  BY <1>1, <1>2, CountedExists

\* The evidence of two evaluations does not speak against itself.
LEMMA NoDispute ==
  ASSUME Conflicts(evidence) = {}, NEW key \in Keys,
         NEW d \in evidence, NEW e \in evidence,
         KeyOf[d.request] = key, KeyOf[e.request] = key,
         d.draft.stance = "SUPPORT", e.draft.stance = "CONTRADICT"
  PROVE  FALSE
BY DEF Conflicts, StancesOf

\* What an evaluation that ends the case looked at.
Clear(rows) ==
  /\ rows \subseteq evidence
  /\ \A key \in policy.required : Aggregate(rows, key) \notin Open

LEMMA NeverConflicted ==
  ASSUME policy \in Policies, Conflicts(evidence) = {}, NEW rows, rows \subseteq evidence,
         NEW key \in Keys
  PROVE  Aggregate(rows, key) # "CONFLICTED"
<1>1. SUFFICES ASSUME Aggregate(rows, key) = "CONFLICTED"
               PROVE  FALSE
  OBVIOUS
<1>2. PICK d \in rows : KeyOf[d.request] = key
                        /\ d.draft.stance = "SUPPORT" /\ d.draft.sure
  BY <1>1, StatusHasEvidence
<1>3. PICK e \in rows : KeyOf[e.request] = key
                        /\ e.draft.stance = "CONTRADICT" /\ e.draft.sure
  BY <1>1, StatusHasEvidence
<1>4. QED
  BY <1>2, <1>3, NoDispute

LEMMA NeverOpposite ==
  ASSUME policy \in Policies, Conflicts(evidence) = {}, NEW R, NEW S,
         R \subseteq evidence, S \subseteq evidence, NEW key \in Keys,
         Aggregate(R, key) = "SATISFIED", Aggregate(S, key) = "NOT_SATISFIED"
  PROVE  FALSE
<1>1. PICK d \in R : KeyOf[d.request] = key
                     /\ d.draft.stance = "SUPPORT" /\ d.draft.sure
  BY StatusHasEvidence
<1>2. PICK e \in S : KeyOf[e.request] = key
                     /\ e.draft.stance = "CONTRADICT" /\ e.draft.sure
  BY StatusHasEvidence
<1>3. QED
  BY <1>1, <1>2, NoDispute

LEMMA ValuesAgree ==
  ASSUME policy \in Policies, Conflicts(evidence) = {}, NEW R, NEW S, Clear(R), Clear(S),
         NEW name \in Keys, Value(R, name) = "TRUE", Value(S, name) = "FALSE"
  PROVE  FALSE
<1>1. CASE name = "unresolved_exception"
  <2>1. policy.exceptions \subseteq policy.required
    BY VerdictConstants
  <2>2. ~(\E key \in policy.exceptions : Aggregate(R, key) \in Open)
    BY <2>1 DEF Clear
  <2>3. QED
    BY <1>1, <2>2 DEF Value, Truth
<1>2. CASE name = "contradictory_evidence"
  <2>1. ~(\E key \in Keys : Aggregate(R, key) = "CONFLICTED")
    BY NeverConflicted DEF Clear
  <2>2. QED
    BY <1>2, <2>1 DEF Value, Truth
<1>3. CASE name \notin Sentinels
  <2>1. Leaf(Aggregate(R, name)) = "TRUE" /\ Leaf(Aggregate(S, name)) = "FALSE"
    BY <1>3 DEF Value, Sentinels
  <2>2. Aggregate(R, name) = "SATISFIED" /\ Aggregate(S, name) = "NOT_SATISFIED"
    BY <2>1, StatusHasEvidence DEF Leaf
  <2>3. QED
    BY <2>2, NeverOpposite DEF Clear
<1>4. QED
  BY <1>1, <1>2, <1>3 DEF Sentinels

\* Two lists of values that combine to the opposite disagree on a member.
LEMMA CombineOpposes ==
  ASSUME NEW op \in Operators, NEW V, NEW W,
         Combine(op, V) = "TRUE", Combine(op, W) = "FALSE"
  PROVE  \/ V \subseteq {"TRUE"} /\ "FALSE" \in W
         \/ "TRUE" \in V /\ W \subseteq {"FALSE"}
BY DEF Combine, Operators

LEMMA FlatAgree ==
  ASSUME policy \in Policies, Conflicts(evidence) = {}, NEW R, NEW S, Clear(R), Clear(S),
         NEW e \in Flat(Keys), EvalFlat(R, e) = "TRUE", EvalFlat(S, e) = "FALSE"
  PROVE  FALSE
<1> DEFINE V == {Value(R, name) : name \in e.leaves}
           W == {Value(S, name) : name \in e.leaves}
<1>1. e.op \in Operators /\ e.leaves \subseteq Keys
  BY DEF Flat
<1>2. Combine(e.op, V) = "TRUE" /\ Combine(e.op, W) = "FALSE"
  BY DEF EvalFlat
<1>3. \/ V \subseteq {"TRUE"} /\ "FALSE" \in W
      \/ "TRUE" \in V /\ W \subseteq {"FALSE"}
  BY <1>1, <1>2, CombineOpposes
<1>4. PICK name \in e.leaves : Value(R, name) = "TRUE" /\ Value(S, name) = "FALSE"
  BY <1>3
<1>5. QED
  BY <1>1, <1>4, ValuesAgree

LEMMA ExpressionsAgree ==
  ASSUME policy \in Policies, Conflicts(evidence) = {}, NEW R, NEW S, Clear(R), Clear(S),
         NEW e \in Expression(Keys), Eval(R, e) = "TRUE", Eval(S, e) = "FALSE"
  PROVE  FALSE
<1> DEFINE V == {Value(R, name) : name \in e.leaves} \cup {EvalFlat(R, n) : n \in e.nested}
           W == {Value(S, name) : name \in e.leaves} \cup {EvalFlat(S, n) : n \in e.nested}
<1>1. e.op \in Operators /\ e.leaves \subseteq Keys /\ e.nested \subseteq Flat(Keys)
  BY DEF Expression
<1>2. Combine(e.op, V) = "TRUE" /\ Combine(e.op, W) = "FALSE"
  BY DEF Eval
<1>3. \/ V \subseteq {"TRUE"} /\ "FALSE" \in W
      \/ "TRUE" \in V /\ W \subseteq {"FALSE"}
  BY <1>1, <1>2, CombineOpposes
<1>4. \/ \E name \in e.leaves : Value(R, name) = "TRUE" /\ Value(S, name) = "FALSE"
      \/ \E n \in e.nested : EvalFlat(R, n) = "TRUE" /\ EvalFlat(S, n) = "FALSE"
  BY <1>3
<1>5. QED
  BY <1>1, <1>4, ValuesAgree, FlatAgree

LEMMA ExpressionValues ==
  ASSUME NEW rows, NEW e
  PROVE  Eval(rows, e) \in {"TRUE", "FALSE", "UNKNOWN"}
BY DEF Eval, Combine

-----------------------------------------------------------------------------
(* Verdicts *)

\* What the rules ask of the evidence of a verdict.
Lawful(d) ==
  /\ Clear(d.rows)
  /\ d.verdict = "REJECT" =>
       Eval(d.rows, policy.reject) = "TRUE" /\ ~IsExcepted(d.rows)
  /\ d.verdict = "APPROVE" =>
       Eval(d.rows, policy.reject) = "FALSE" \/ IsExcepted(d.rows)

VerdictInv ==
  /\ verdicts # {} => Consistent
  /\ \A d \in verdicts : Lawful(d)

LEMMA NewVerdict ==
  ASSUME TypeOK, FinishInv, Evaluate
  PROVE  /\ Consistent
         /\ Lawful([verdict |-> Verdict(ValidEvidence), rows |-> ValidEvidence])
<1> DEFINE rows == ValidEvidence
<1>1. ~IsOpen(rows)
  BY DEF Evaluate, Verdict
<1>2. Consistent
  BY <1>1 DEF IsOpen, FinishInv
<1>3. Clear(rows)
  BY <1>1 DEF IsOpen, Clear, ValidEvidence
<1>4. Eval(rows, policy.reject) \in {"TRUE", "FALSE"}
  BY <1>1, ExpressionValues DEF IsOpen
<1>5. /\ Verdict(rows) = "REJECT" => Eval(rows, policy.reject) = "TRUE" /\ ~IsExcepted(rows)
      /\ Verdict(rows) = "APPROVE" => Eval(rows, policy.reject) = "FALSE" \/ IsExcepted(rows)
  BY <1>1, <1>4 DEF Verdict
<1>6. QED
  BY <1>2, <1>3, <1>5 DEF Lawful

\* The verdicts there are stay lawful: their evidence and policy stay.
LEMMA LawfulStands ==
  ASSUME policy' = policy, evidence \subseteq evidence', NEW d, Lawful(d)
  PROVE  Lawful(d)'
BY DEF Lawful, Clear, IsExcepted, Eval, EvalFlat, Value, Aggregate

LEMMA RowsStay ==
  ASSUME [Next]_vars
  PROVE  policy' = policy /\ evidence \subseteq evidence'
BY DEF Next, vars, Resume, Drop, StartTool, ToolReturns, ToolKnown, Retrieved, StartCall,
   CallSucceeds, CallFails, CallKnown, Verify, Decide, Complete, StatusChanges, Evaluate

LEMMA VerdictsChange ==
  ASSUME [Next]_vars
  PROVE  verdicts' = verdicts \/ Evaluate
BY DEF Next, vars, Resume, Drop, StartTool, ToolReturns, ToolKnown, Retrieved, StartCall,
   CallSucceeds, CallFails, CallKnown, Verify, Decide, Complete, StatusChanges

LEMMA NextVerdict ==
  ASSUME TypeOK, InStep, FinishInv, VerdictInv, [Next]_vars
  PROVE  VerdictInv'
<1>1. verdicts' # {} => Consistent'
  BY VerdictsChange, NewVerdict, ConsistentStands DEF VerdictInv
<1>2. ASSUME NEW d \in verdicts'
      PROVE  Lawful(d)'
  <2>1. Lawful(d)
    BY VerdictsChange, NewVerdict DEF VerdictInv, Evaluate
  <2>2. QED
    BY <2>1, LawfulStands, RowsStay
<1>3. QED
  BY <1>1, <1>2 DEF VerdictInv

CaseInv == SourceInv /\ InStep /\ FinishInv /\ VerdictInv

LEMMA InitCase == Init => CaseInv
<1> SUFFICES ASSUME Init
             PROVE  CaseInv
  OBVIOUS
<1>1. InStep /\ FinishInv /\ VerdictInv
  BY DEF Init, InStep, FinishInv, VerdictInv, Idle
<1>2. QED
  BY <1>1, InitSource DEF CaseInv

LEMMA NextCase == CaseInv /\ [Next]_vars => CaseInv'
BY NextSource, NextInStep, NextFinish, NextVerdict DEF CaseInv, SourceInv

\* An approval and a rejection of the same evidence, or of more or less of it.
LEMMA LawfulAgree ==
  ASSUME policy \in Policies, Conflicts(evidence) = {}, NEW d, NEW e, Lawful(d), Lawful(e),
         d.verdict = "APPROVE", e.verdict = "REJECT"
  PROVE  FALSE
<1>1. /\ Clear(d.rows) /\ Clear(e.rows)
      /\ Eval(e.rows, policy.reject) = "TRUE" /\ ~IsExcepted(e.rows)
  BY DEF Lawful
<1>2. policy.reject \in Expression(Keys)
  BY VerdictConstants DEF Policy
<1>3. CASE Eval(d.rows, policy.reject) = "FALSE"
  BY <1>1, <1>2, <1>3, ExpressionsAgree
<1>4. CASE IsExcepted(d.rows)
  <2>1. PICK key \in policy.exceptions : Aggregate(d.rows, key) = "SATISFIED"
    BY <1>4 DEF IsExcepted
  <2>2. key \in policy.required /\ key \in Keys
    BY <2>1, VerdictConstants DEF Policy
  <2>3. Aggregate(e.rows, key) \notin Open /\ Aggregate(e.rows, key) # "SATISFIED"
    BY <1>1, <2>1, <2>2 DEF Clear, IsExcepted
  <2>4. Aggregate(e.rows, key) = "NOT_SATISFIED"
    BY <2>3, StatusHasEvidence DEF Open
  <2>5. QED
    BY <1>1, <2>1, <2>2, <2>4, NeverOpposite DEF Clear
<1>5. QED
  BY <1>3, <1>4 DEF Lawful

(***************************************************************************)
(* The machine never approves a case in one evaluation and rejects it in   *)
(* another, whatever evidence late errors took away in between: what it    *)
(* took a verdict from was consistent, and is frozen.                      *)
(***************************************************************************)
THEOREM VerdictsNeverOppose == Spec => []VerdictsAgree
<1>1. CaseInv => VerdictsAgree
  <2> SUFFICES ASSUME CaseInv, NEW d \in verdicts, NEW e \in verdicts,
                      d.verdict = "APPROVE", e.verdict = "REJECT"
               PROVE  FALSE
    BY DEF VerdictsAgree
  <2>1. policy \in Policies /\ Conflicts(evidence) = {} /\ Lawful(d) /\ Lawful(e)
    BY DEF CaseInv, SourceInv, TypeOK, VerdictInv, Consistent
  <2>2. QED
    BY <2>1, LawfulAgree
<1>2. QED
  BY <1>1, InitCase, NextCase, PTL DEF Spec

(***************************************************************************)
(* A verdict of the machine has a sure piece of evidence on everything the *)
(* policy requires, and no valid evidence against another.                 *)
(***************************************************************************)
THEOREM VerdictsHaveGrounds == Spec => []VerdictsAreGrounded
<1>1. CaseInv => VerdictsAreGrounded
  <2> SUFFICES ASSUME CaseInv, NEW d \in verdicts
               PROVE  /\ \A key \in policy.required :
                           \E e \in d.rows : KeyOf[e.request] = key /\ e.draft.sure
                      /\ \A key \in Keys :
                           ~({"SUPPORT", "CONTRADICT"} \subseteq StancesOf(d.rows, key))
    BY DEF VerdictsAreGrounded
  <2>1. policy \in Policies /\ Conflicts(evidence) = {} /\ Clear(d.rows)
    BY DEF CaseInv, SourceInv, TypeOK, VerdictInv, Consistent, Lawful
  <2>2. ASSUME NEW key \in policy.required
        PROVE  \E e \in d.rows : KeyOf[e.request] = key /\ e.draft.sure
    <3>1. Aggregate(d.rows, key) \in {"SATISFIED", "NOT_SATISFIED"}
      BY <2>1, <2>2, StatusHasEvidence DEF Clear, Open
    <3>2. QED
      BY <2>1, <3>1, StatusHasEvidence
  <2>3. ASSUME NEW key \in Keys
        PROVE  ~({"SUPPORT", "CONTRADICT"} \subseteq StancesOf(d.rows, key))
    <3>1. StancesOf(d.rows, key) \subseteq StancesOf(evidence, key)
      BY <2>1 DEF Clear, StancesOf
    <3>2. ~({"SUPPORT", "CONTRADICT"} \subseteq StancesOf(evidence, key))
      BY <2>1, <2>3 DEF Conflicts
    <3>3. QED
      BY <3>1, <3>2
  <2>4. QED
    BY <2>2, <2>3
<1>2. QED
  BY <1>1, InitCase, NextCase, PTL DEF Spec

=============================================================================
