------------------------- MODULE CaseLifecycleProofs -------------------------
(***************************************************************************)
(* Proofs about CaseLifecycle: the components keep, together, what each of *)
(* them was proved to keep alone.                                          *)
(***************************************************************************)
EXTENDS CaseLifecycle, InvestigationProofs

\* What is proved of the agent alone.
AgentInv == IInv /\ AuditInv

\* What decisions and views consist of is of no concern here.
History == \E S : decisions \in Seq(S)
Views == \E S : view \in [Actors -> S]

\* Whoever reads or read a current decision has one.
DecisionsExist ==
  /\ current # 0 => Len(decisions) > 0
  /\ \A a \in Actors : view[a].current # 0 => Len(decisions) > 0

UnpreparedIsEmpty == run.status = "ABSENT" => Len(log) = 0

GroundInv ==
  /\ History
  /\ Views
  /\ DecisionsExist
  /\ DecidedIsClosed
  /\ UnpreparedIsEmpty
  /\ VerdictsEndTheGraph

lifecycleVars == <<agentVars, caseStatus, governanceVars>>

-----------------------------------------------------------------------------
(* The agent in the presence of the governance *)

(***************************************************************************)
(* The governance touches nothing of the agent's but the case status, and  *)
(* that only to a decided or reviewed case: one that was closed before, or *)
(* that was never prepared.                                                *)
(***************************************************************************)
LEMMA GovernanceTouches ==
  ASSUME AgentInv, GroundInv, GovernanceMoves
  PROVE  /\ UNCHANGED agentVars
         /\ \/ caseStatus' = caseStatus
            \/ /\ caseStatus' \in {"DECIDED", "NEEDS_HUMAN_REVIEW"}
               /\ run.status = "ABSENT" \/ ~ClaimableCase
<1> DEFINE Touched == \/ caseStatus' = caseStatus
                      \/ /\ caseStatus' \in {"DECIDED", "NEEDS_HUMAN_REVIEW"}
                         /\ run.status = "ABSENT" \/ ~ClaimableCase
<1>1. Len(decisions) > 0 => ~ClaimableCase
  BY DEF GroundInv, DecidedIsClosed
<1>2. \A a \in Actors : view[a].current # 0 => ~ClaimableCase
  BY <1>1 DEF GroundInv, DecisionsExist
<1>3. CASE Governance!InputChanges
  BY <1>3 DEF GovernanceMoves, Governance!InputChanges
<1>4. ASSUME NEW a \in Actors, Governance!CreateReview(a) PROVE Touched
  BY <1>2, <1>4 DEF Governance!CreateReview, Governance!AddDecision
<1>5. ASSUME NEW a \in Actors, Governance!SubmitAppeal(a) PROVE Touched
  BY <1>2, <1>5 DEF Governance!SubmitAppeal
<1>6. ASSUME NEW a \in Actors, Governance!EvaluateNew(a) PROVE Touched
  <2>1. RunAsSeen # "UNFINISHED" /\ caseStatus' \in {"DECIDED", "NEEDS_HUMAN_REVIEW"}
    BY <1>6 DEF Governance!EvaluateNew, Governance!MayEvaluate, Governance!AddDecision
  <2>2. run.status \in {"ABSENT", "COMPLETED", "NEEDS_HUMAN_REVIEW"}
    BY <2>1 DEF RunAsSeen, ClosedStatus
  <2> QED
    BY <2>1, <2>2 DEF AgentInv, IInv, CaseGatesRun
<1>7. ASSUME NEW a \in Actors, Governance!Act(a) PROVE Touched
  BY <1>4, <1>5, <1>6, <1>7 DEF Governance!Act, Governance!Ask, Governance!LockAppeal,
       Governance!LockCase, Governance!Lock, Governance!StartEvaluation,
       Governance!Drop, Governance!SubmitReview, Governance!ResolveAppeal,
       Governance!EvaluateAgain
<1> QED
  BY <1>3, <1>7 DEF GovernanceMoves

(***************************************************************************)
(* What holds of the agent alone survives any such write to the case.      *)
(***************************************************************************)
LEMMA AgentUndisturbed ==
  ASSUME AgentInv, UNCHANGED agentVars,
         \/ caseStatus' = caseStatus
         \/ /\ caseStatus' \in {"DECIDED", "NEEDS_HUMAN_REVIEW"}
            /\ run.status = "ABSENT" \/ ~ClaimableCase
  PROVE  AgentInv'
<1> USE DEF AgentInv, IInv, agentVars
<1>1. TypeOK'
  BY DEF TypeOK, RowsOK, HistoryOK, QueueOK, LocalOK, CaseStatus
<1>2. OneHistory' /\ VersionsPlaced' /\ EvidenceIsAccounted' /\ RoundsBounded'
  BY DEF OneHistory, VersionsPlaced, EvidenceIsAccounted, RoundsBounded, StateAt
<1>3. ClaimableCase' => ClaimableCase
  BY DEF ClaimableCase
<1>4. WorkersKnow'
  BY DEF WorkersKnow, Knows
<1>5. RowsTold'
  BY <1>3 DEF RowsTold, Told
<1>6. CaseGatesRun'
  BY <1>3 DEF CaseGatesRun, ClaimableCase
<1>7. ResumesFromHistory'
  BY <1>3 DEF ResumesFromHistory, Recorded, StateAt
<1>8. AuditInv'
  BY DEF AuditInv, CallsMatchHistory, Asked, StateAt, NeedsCall
<1> QED
  BY <1>1, <1>2, <1>4, <1>5, <1>6, <1>7, <1>8

(***************************************************************************)
(* Every step of the two together keeps what holds of the agent.           *)
(***************************************************************************)
LEMMA AgentInvNext ==
  AgentInv /\ GroundInv /\ [LifecycleNext]_lifecycleVars => AgentInv'
<1> SUFFICES ASSUME AgentInv, GroundInv, [LifecycleNext]_lifecycleVars PROVE AgentInv'
  OBVIOUS
<1>1. CASE AgentMoves
  <2>1. [Next]_vars
    BY <1>1 DEF AgentMoves
  <2>2. IInv'
    BY <2>1, TypeNext, HistoryNext, WorkersKnowNext, ResumesNext, RoundsNext,
       RowsToldNext, CaseGatesRunNext DEF AgentInv, IInv
  <2> QED
    BY <2>1, <2>2, AuditNext DEF AgentInv
<1>2. CASE GovernanceMoves
  BY <1>2, GovernanceTouches, AgentUndisturbed
<1>3. CASE UNCHANGED lifecycleVars
  BY <1>3, AgentUndisturbed DEF lifecycleVars
<1> QED
  BY <1>1, <1>2, <1>3 DEF LifecycleNext

(***************************************************************************)
(* It holds from the start.                                                *)
(***************************************************************************)
LEMMA AgentInvInit == Init => AgentInv
BY AuditInit, InitIInv DEF AgentInv

-----------------------------------------------------------------------------
(* The governance in the presence of the agent *)

(***************************************************************************)
(* Every step of the two together is one of the governance's model, in     *)
(* which AgentPrepares and AgentWrites stand for all the agent does.       *)
(***************************************************************************)
LEMMA GovernanceStep ==
  AgentInv /\ [LifecycleNext]_lifecycleVars => [Governance!Next]_(Governance!vars)
<1> SUFFICES ASSUME AgentInv, [LifecycleNext]_lifecycleVars
             PROVE  Governance!Next \/ UNCHANGED Governance!vars
  OBVIOUS
<1>1. CASE AgentMoves
  <2>1. Case!Next \/ UNCHANGED <<RunAsSeen, caseStatus>>
    BY <1>1, CaseStep DEF AgentMoves, AgentInv
  <2>2. Governance!Surroundings /\ UNCHANGED input
    BY <1>1 DEF AgentMoves, governanceVars, Governance!Surroundings, Governance!records
  <2>3. CASE UNCHANGED <<RunAsSeen, caseStatus>>
    BY <1>1, <2>3 DEF AgentMoves, governanceVars, Governance!vars
  <2>4. CASE Case!Prepare /\ Governance!CaseIsFree
    BY <2>2, <2>4 DEF Case!Prepare, Governance!Agent!Prepare,
         Governance!AgentPrepares, Governance!Environment, Governance!Next
  <2>5. CASE Case!Write /\ Governance!CaseIsFree
    <3>1. Governance!Agent!Write
      BY <2>5 DEF Case!Write, Case!Work, Case!WorkLate, Governance!Agent!Write,
           Governance!Agent!Work, Governance!Agent!WorkLate
    <3> QED
      BY <2>2, <2>5, <3>1 DEF Governance!AgentWrites, Governance!Environment,
           Governance!Next
  <2> QED
    BY <1>1, <2>1, <2>3, <2>4, <2>5 DEF AgentMoves, Case!Next
<1>2. CASE GovernanceMoves
  BY <1>2 DEF GovernanceMoves, Governance!Next, Governance!Environment
<1>3. CASE UNCHANGED lifecycleVars
  BY <1>3 DEF lifecycleVars, agentVars, governanceVars, Governance!vars, RunAsSeen
<1> QED
  BY <1>1, <1>2, <1>3 DEF LifecycleNext

-----------------------------------------------------------------------------
(* The case as a whole *)

(***************************************************************************)
(* A step of the governance adds no decision, or one that closes the case; *)
(* a conclusive one of the machine only while the run is absent or         *)
(* completed.                                                              *)
(***************************************************************************)
LEMMA DecisionAdded ==
  ASSUME GovernanceMoves
  PROVE  \/ UNCHANGED decisions
         \/ /\ caseStatus' \in {"DECIDED", "NEEDS_HUMAN_REVIEW"}
            /\ \E d : /\ decisions' = Append(decisions, d)
                      /\ d.source = "MACHINE" /\ d.verdict = "CONCLUSIVE" =>
                           RunAsSeen \in {"ABSENT", "COMPLETED"}
<1> DEFINE Added ==
      /\ caseStatus' \in {"DECIDED", "NEEDS_HUMAN_REVIEW"}
      /\ \E d : /\ decisions' = Append(decisions, d)
                /\ d.source = "MACHINE" /\ d.verdict = "CONCLUSIVE" =>
                     RunAsSeen \in {"ABSENT", "COMPLETED"}
<1>1. CASE Governance!InputChanges
  BY <1>1 DEF Governance!InputChanges, Governance!Surroundings, Governance!records
<1>2. ASSUME NEW a \in Actors, Governance!CreateReview(a) PROVE Added
  BY <1>2 DEF Governance!CreateReview, Governance!AddDecision
<1>3. ASSUME NEW a \in Actors, Governance!EvaluateNew(a) PROVE Added
  <2>1. RunAsSeen \in {"ABSENT", "COMPLETED", "NEEDS_HUMAN_REVIEW"}
    BY <1>3 DEF Governance!EvaluateNew, Governance!MayEvaluate, RunAsSeen, ClosedStatus
  <2>2. Governance!Evaluation.verdict = "CONCLUSIVE" => RunAsSeen # "NEEDS_HUMAN_REVIEW"
    BY DEF Governance!Evaluation
  <2> QED
    BY <1>3, <2>1, <2>2 DEF Governance!EvaluateNew, Governance!AddDecision
<1>4. ASSUME NEW a \in Actors, Governance!Act(a) PROVE UNCHANGED decisions \/ Added
  <2>1. CASE Governance!SubmitReview(a) \/ Governance!ResolveAppeal(a)
    BY <1>2, <2>1 DEF Governance!SubmitReview, Governance!ResolveAppeal
  <2>2. CASE Governance!EvaluateNew(a)
    BY <1>3, <2>2
  <2>3. CASE ~Governance!SubmitReview(a) /\ ~Governance!ResolveAppeal(a)
             /\ ~Governance!EvaluateNew(a)
    BY <1>4, <2>3 DEF Governance!Act, Governance!Ask, Governance!LockAppeal,
         Governance!LockCase, Governance!Lock, Governance!StartEvaluation,
         Governance!Drop, Governance!SubmitAppeal, Governance!EvaluateAgain,
         Governance!records
  <2> QED
    BY <2>1, <2>2, <2>3
<1> QED
  BY <1>1, <1>4 DEF GovernanceMoves

(***************************************************************************)
(* A step of the governance makes no decision current, and lets nobody     *)
(* read one, that does not exist.                                          *)
(***************************************************************************)
LEMMA DecisionsExistNext ==
  ASSUME GroundInv, GovernanceMoves
  PROVE  Views' /\ DecisionsExist'
<1> USE DEF GroundInv
<1>0. PICK S : decisions \in Seq(S)
  BY DEF History
<1>1. PICK V : view \in [Actors -> V]
  BY DEF Views
<1> DEFINE Forgets(a) == view' = [view EXCEPT ![a] = Governance!NoView]
<1>v. ASSUME NEW a \in Actors, NEW v, view' = [view EXCEPT ![a] = v]
      PROVE  Views' /\ \A b \in Actors : view'[b] = IF b = a THEN v ELSE view[b]
  <2>1. view' \in [Actors -> V \cup {v}]
    BY <1>1, <1>v
  <2> QED
    BY <1>1, <1>v, <2>1 DEF Views
<1>2. \/ UNCHANGED decisions
      \/ \E d : decisions' = Append(decisions, d)
  BY DecisionAdded
<1>3. Len(decisions) > 0 => Len(decisions') > 0
  BY <1>0, <1>2
<1>4. ASSUME NEW a \in Actors, Forgets(a),
             current' = current \/ Len(decisions') > 0
      PROVE  Views' /\ DecisionsExist'
  <2>1. /\ Views'
        /\ \A b \in Actors : view'[b] = IF b = a THEN Governance!NoView ELSE view[b]
    BY <1>4, <1>v
  <2>2. Governance!NoView.current = 0
    BY DEF Governance!NoView
  <2> QED
    BY <1>3, <1>4, <2>1, <2>2 DEF DecisionsExist
<1>5. CASE Governance!InputChanges
  BY <1>5 DEF Governance!InputChanges, Governance!Surroundings, Governance!records,
              DecisionsExist, Views
<1>6. ASSUME NEW a \in Actors, Governance!Ask(a) \/ Governance!LockAppeal(a)
      PROVE  Views' /\ DecisionsExist'
  BY <1>6 DEF Governance!Ask, Governance!LockAppeal, Governance!records, DecisionsExist,
              Views
<1>7. ASSUME NEW a \in Actors, Governance!Lock(a) PROVE Views' /\ DecisionsExist'
  <2>1. /\ UNCHANGED <<decisions, current>>
        /\ view' = [view EXCEPT ![a] = [current |-> current, length |-> Len(decisions)]]
    BY <1>7 DEF Governance!Lock, Governance!records
  <2> DEFINE v == [current |-> current, length |-> Len(decisions)]
  <2>2. v.current = current
    OBVIOUS
  <2> HIDE DEF v
  <2>3. Views' /\ \A b \in Actors : view'[b] = IF b = a THEN v ELSE view[b]
    BY <2>1, <1>v DEF v
  <2> QED
    BY <2>1, <2>2, <2>3 DEF DecisionsExist
<1>8. ASSUME NEW a \in Actors, Governance!Drop(a) \/ Governance!SubmitAppeal(a)
      PROVE  Views' /\ DecisionsExist'
  BY <1>4, <1>8 DEF Governance!Drop, Governance!SubmitAppeal, Governance!Finish,
                    Governance!records
<1>9. ASSUME NEW a \in Actors, NEW d, Governance!AddDecision(a, d)
      PROVE  Len(decisions') > 0
  BY <1>0, <1>9 DEF Governance!AddDecision
<1>10. ASSUME NEW a \in Actors, Governance!EvaluateAgain(a)
       PROVE  Len(decisions') > 0
  BY <1>0, <1>10 DEF Governance!EvaluateAgain
<1>11. ASSUME NEW a \in Actors,
              \/ Governance!SubmitReview(a) \/ Governance!ResolveAppeal(a)
              \/ Governance!EvaluateAgain(a) \/ Governance!EvaluateNew(a)
       PROVE  Views' /\ DecisionsExist'
  BY <1>4, <1>9, <1>10, <1>11 DEF Governance!SubmitReview, Governance!ResolveAppeal,
       Governance!EvaluateAgain, Governance!EvaluateNew, Governance!CreateReview,
       Governance!Finish
<1>12. ASSUME NEW a \in Actors, Governance!Act(a) PROVE Views' /\ DecisionsExist'
  BY <1>6, <1>7, <1>8, <1>11, <1>12 DEF Governance!Act, Governance!LockCase,
       Governance!StartEvaluation
<1> QED
  BY <1>5, <1>12 DEF GovernanceMoves

(***************************************************************************)
(* A closed case gets no further step, and a run that was never prepared   *)
(* has none.                                                               *)
(***************************************************************************)
LEMMA ClosedIsFinal ==
  ASSUME AgentInv, UnpreparedIsEmpty, AgentMoves
  PROVE  /\ ~ClaimableCase => ~ClaimableCase' /\ UNCHANGED log
         /\ UnpreparedIsEmpty'
<1>1. [Next]_vars /\ IInv /\ TypeOK
  BY DEF AgentMoves, AgentInv, IInv
<1>2. ASSUME NEW w \in Workers, Checkpoint(w) PROVE ClaimableCase /\ run.status # "ABSENT"
  BY <1>1, <1>2 DEF Checkpoint, HoldsCurrentVersion, IInv, CaseGatesRun, ClaimableCase
<1>3. ~(\E w \in Workers : Checkpoint(w)) => UNCHANGED log
  BY <1>1, HistoryStays
<1>4. /\ run.status # "ABSENT" => run'.status # "ABSENT"
      /\ ~ClaimableCase => ~ClaimableCase'
  BY <1>1, CloseIsFinal
<1> QED
  BY <1>2, <1>3, <1>4 DEF UnpreparedIsEmpty

(***************************************************************************)
(* Every step keeps the machine's verdicts on their ground.                *)
(***************************************************************************)
LEMMA GroundNext ==
  AgentInv /\ GroundInv /\ [LifecycleNext]_lifecycleVars => GroundInv'
<1> SUFFICES ASSUME AgentInv, GroundInv, [LifecycleNext]_lifecycleVars
             PROVE  GroundInv'
  OBVIOUS
<1> USE DEF GroundInv
<1>1. CASE AgentMoves
  <2>1. UNCHANGED <<decisions, current, view>>
    BY <1>1 DEF AgentMoves, governanceVars
  <2>2. /\ ~ClaimableCase => ~ClaimableCase' /\ UNCHANGED log
        /\ UnpreparedIsEmpty'
    BY <1>1, ClosedIsFinal
  <2>3. DecidedIsClosed'
    BY <2>1, <2>2 DEF DecidedIsClosed
  <2>4. Len(decisions) \in Nat
    BY DEF History
  <2>5. VerdictsEndTheGraph'
    <3>1. CASE Len(decisions) > 0
      BY <2>1, <2>2, <3>1 DEF DecidedIsClosed, VerdictsEndTheGraph, StateAt
    <3>2. CASE ~(Len(decisions) > 0)
      BY <2>1, <2>4, <3>2 DEF VerdictsEndTheGraph
    <3> QED
      BY <3>1, <3>2
  <2> QED
    BY <2>1, <2>2, <2>3, <2>5 DEF History, Views, DecisionsExist
<1>2. CASE GovernanceMoves
  <2>1. /\ UNCHANGED <<run, log>>
        /\ ClaimableCase' => ClaimableCase
    BY <1>2, GovernanceTouches DEF agentVars, ClaimableCase
  <2>2. Views' /\ DecisionsExist'
    BY <1>2, DecisionsExistNext
  <2>3. UnpreparedIsEmpty'
    BY <2>1 DEF UnpreparedIsEmpty
  <2>4. CASE UNCHANGED decisions
    BY <2>1, <2>2, <2>3, <2>4 DEF History, DecidedIsClosed, VerdictsEndTheGraph, StateAt
  <2>5. ASSUME NEW d, decisions' = Append(decisions, d),
               caseStatus' \in {"DECIDED", "NEEDS_HUMAN_REVIEW"},
               d.source = "MACHINE" /\ d.verdict = "CONCLUSIVE" =>
                 RunAsSeen \in {"ABSENT", "COMPLETED"}
        PROVE  GroundInv'
    <3>0. PICK S : decisions \in Seq(S)
      BY DEF History
    <3>1. d.source = "MACHINE" /\ d.verdict = "CONCLUSIVE" =>
            Len(log) = 0 \/ StateAt(Len(log)).node = Finished
      BY <2>5 DEF RunAsSeen, AgentInv, IInv, RoundsBounded, UnpreparedIsEmpty
    <3>2. ASSUME NEW i \in 1 .. Len(decisions'),
                 decisions'[i].source = "MACHINE", decisions'[i].verdict = "CONCLUSIVE"
          PROVE  Len(log) = 0 \/ StateAt(Len(log)).node = Finished
      <4>1. CASE i = Len(decisions) + 1
        <5>1. decisions'[i] = d
          BY <2>5, <3>0, <4>1
        <5> QED
          BY <3>1, <3>2, <5>1
      <4>2. CASE i # Len(decisions) + 1
        <5>1. i \in 1 .. Len(decisions) /\ decisions'[i] = decisions[i]
          BY <2>5, <3>0, <4>2
        <5> QED
          BY <3>2, <5>1 DEF VerdictsEndTheGraph
      <4> QED
        BY <4>1, <4>2
    <3>3. History'
      <4>1. decisions' \in Seq(S \cup {d})
        BY <2>5, <3>0
      <4> QED
        BY <4>1 DEF History
    <3>4. DecidedIsClosed'
      BY <2>5 DEF DecidedIsClosed, ClaimableCase
    <3>5. VerdictsEndTheGraph'
      BY <2>1, <3>2 DEF VerdictsEndTheGraph, StateAt
    <3> QED
      BY <2>2, <2>3, <3>3, <3>4, <3>5
  <2> QED
    BY <1>2, <2>4, <2>5, DecisionAdded
<1>3. CASE UNCHANGED lifecycleVars
  BY <1>3 DEF lifecycleVars, agentVars, governanceVars, History, Views, DecisionsExist,
              DecidedIsClosed, UnpreparedIsEmpty, VerdictsEndTheGraph, StateAt,
              ClaimableCase
<1> QED
  BY <1>1, <1>2, <1>3 DEF LifecycleNext

(***************************************************************************)
(* It holds from the start.                                                *)
(***************************************************************************)
LEMMA GroundInit == LifecycleInit => GroundInv
<1> SUFFICES ASSUME LifecycleInit PROVE GroundInv
  OBVIOUS
<1>1. /\ decisions = <<>> /\ decisions \in Seq({}) /\ Len(decisions) = 0
      /\ current = 0 /\ view = [a \in Actors |-> Governance!NoView]
      /\ log = <<>> /\ Len(log) = 0
  BY DEF LifecycleInit, Governance!Init, Init
<1>2. Views
  <2>1. view \in [Actors -> {Governance!NoView}]
    BY <1>1
  <2> QED
    BY <2>1 DEF Views
<1>3. DecisionsExist
  BY <1>1 DEF DecisionsExist, Governance!NoView
<1> QED
  BY <1>1, <1>2, <1>3 DEF GroundInv, History, DecidedIsClosed, UnpreparedIsEmpty,
       VerdictsEndTheGraph

-----------------------------------------------------------------------------
(* The theorems *)

(***************************************************************************)
(* What was proved of the agent alone holds while the case is evaluated,   *)
(* reviewed and appealed: types, the one history, resumption, evidence,    *)
(* rounds, the gate that the case is for its run, and the audit.           *)
(***************************************************************************)
THEOREM AgentHoldsUnderGovernance ==
  LifecycleSpec =>
    [](/\ TypeOK /\ OneHistory /\ ResumesFromHistory /\ EvidenceIsAccounted
       /\ RoundsBounded /\ CaseGatesRun /\ CallsMatchHistory)
<1>1. LifecycleInit => AgentInv /\ GroundInv
  BY AgentInvInit, GroundInit DEF LifecycleInit
<1>2. AgentInv /\ GroundInv /\ [LifecycleNext]_lifecycleVars => AgentInv' /\ GroundInv'
  BY AgentInvNext, GroundNext
<1>3. AgentInv => /\ TypeOK /\ OneHistory /\ ResumesFromHistory /\ EvidenceIsAccounted
                  /\ RoundsBounded /\ CaseGatesRun /\ CallsMatchHistory
  BY DEF AgentInv, IInv, AuditInv
<1> QED
  BY <1>1, <1>2, <1>3, PTL DEF LifecycleSpec, lifecycleVars

(***************************************************************************)
(* While the governance writes to the case, the run still is one process.  *)
(***************************************************************************)
THEOREM OneProcessUnderGovernance == LifecycleSpec => ImplementsAgentRun
<1>1. LifecycleInit => AgentInv /\ GroundInv /\ Agent!Init
  BY AgentInvInit, GroundInit
     DEF LifecycleInit, Init, Agent!Init, StateAt, FirstState, ClaimableCase
<1>2. AgentInv /\ GroundInv /\ [LifecycleNext]_lifecycleVars => AgentInv' /\ GroundInv'
  BY AgentInvNext, GroundNext
<1>3. AgentInv /\ GroundInv /\ [LifecycleNext]_lifecycleVars
        => [Agent!Next]_<<run.status, ClaimableCase, Agent!walk>>
  <2> SUFFICES ASSUME AgentInv, GroundInv, [LifecycleNext]_lifecycleVars
               PROVE  Agent!Next \/ UNCHANGED <<run.status, ClaimableCase, Agent!walk>>
    OBVIOUS
  <2>1. CASE AgentMoves
    BY <2>1, AgentStep DEF AgentMoves, AgentInv
  <2>2. CASE GovernanceMoves
    <3>1. UNCHANGED <<run, Agent!walk>>
      BY <2>2 DEF GovernanceMoves, agentVars, Agent!walk, StateAt
    <3>2. \/ ClaimableCase' = ClaimableCase
          \/ run.status = "ABSENT" /\ ClaimableCase' = FALSE
      BY <2>2, GovernanceTouches DEF ClaimableCase
    <3> QED
      BY <3>1, <3>2 DEF Agent!Next, Agent!Close
  <2>3. CASE UNCHANGED lifecycleVars
    BY <2>3 DEF lifecycleVars, agentVars, Agent!walk, StateAt, ClaimableCase
  <2> QED
    BY <2>1, <2>2, <2>3 DEF LifecycleNext
<1> QED
  BY <1>1, <1>2, <1>3, PTL DEF LifecycleSpec, lifecycleVars, ImplementsAgentRun, Agent!Spec

(***************************************************************************)
(* The two together implement the model of the governance, with its summary *)
(* of the agent: what is proved and checked of CaseGovernance holds of the *)
(* case with every step of the agent in it.                                *)
(***************************************************************************)
THEOREM GovernanceHoldsUnderAgent == LifecycleSpec => Governance!Spec
<1>1. LifecycleInit => AgentInv /\ GroundInv /\ Governance!Init
  BY AgentInvInit, GroundInit DEF LifecycleInit
<1>2. AgentInv /\ GroundInv /\ [LifecycleNext]_lifecycleVars => AgentInv' /\ GroundInv'
  BY AgentInvNext, GroundNext
<1>3. AgentInv /\ [LifecycleNext]_lifecycleVars => [Governance!Next]_(Governance!vars)
  BY GovernanceStep
<1> QED
  BY <1>1, <1>2, <1>3, PTL DEF LifecycleSpec, lifecycleVars, Governance!Spec

(***************************************************************************)
(* The machine approves or rejects only a case to which no step is ever    *)
(* committed, or whose history has gone through DECIDE to its end.         *)
(***************************************************************************)
THEOREM VerdictsRestOnTheEnd == LifecycleSpec => []VerdictsEndTheGraph
<1>1. LifecycleInit => AgentInv /\ GroundInv
  BY AgentInvInit, GroundInit DEF LifecycleInit
<1>2. AgentInv /\ GroundInv /\ [LifecycleNext]_lifecycleVars => AgentInv' /\ GroundInv'
  BY AgentInvNext, GroundNext
<1>3. GroundInv => VerdictsEndTheGraph
  BY DEF GroundInv
<1> QED
  BY <1>1, <1>2, <1>3, PTL DEF LifecycleSpec, lifecycleVars

-----------------------------------------------------------------------------
(* What is proved of the governance, of the composition *)

\* Module CaseGovernance again, with the theorems about it.  The provers take the
\* two instances for different, so that each definition is compared with itself.
Governed == INSTANCE CaseGovernanceProofs
  WITH status <- caseStatus, run <- RunAsSeen, pc <- actorPc

(***************************************************************************)
(* A request takes the same steps under either name, ...                   *)
(***************************************************************************)
LEMMA SameActs ==
  ASSUME NEW a \in Actors
  PROVE  Governance!Act(a) = Governed!Act(a)
<1>1. Governance!Ask(a) = Governed!Ask(a)
  BY DEF Governance!Ask, Governed!Ask,
       Governance!KeyUsed, Governed!KeyUsed,
       Governance!Answered, Governed!Answered,
       Governance!None, Governed!None,
       Governance!Requests, Governed!Requests,
       Governance!records, Governed!records,
       Governance!surroundings, Governed!surroundings
<1>2. Governance!LockAppeal(a) = Governed!LockAppeal(a)
  BY DEF Governance!LockAppeal, Governed!LockAppeal,
       Governance!AppealIsFree, Governed!AppealIsFree,
       Governance!records, Governed!records,
       Governance!surroundings, Governed!surroundings
<1>3. Governance!LockCase(a) = Governed!LockCase(a)
  BY DEF Governance!LockCase, Governed!LockCase,
       Governance!Lock, Governed!Lock,
       Governance!CaseIsFree, Governed!CaseIsFree,
       Governance!records, Governed!records,
       Governance!surroundings, Governed!surroundings
<1>4. Governance!StartEvaluation(a) = Governed!StartEvaluation(a)
  BY DEF Governance!StartEvaluation, Governed!StartEvaluation,
       Governance!Lock, Governed!Lock,
       Governance!CaseIsFree, Governed!CaseIsFree,
       Governance!EvaluationRequest, Governed!EvaluationRequest,
       Governance!None, Governed!None,
       Governance!records, Governed!records,
       Governance!surroundings, Governed!surroundings
<1>5. Governance!Drop(a) = Governed!Drop(a)
  BY DEF Governance!Drop, Governed!Drop,
       Governance!Finish, Governed!Finish,
       Governance!NoRequest, Governed!NoRequest,
       Governance!None, Governed!None,
       Governance!NoView, Governed!NoView,
       Governance!records, Governed!records,
       Governance!surroundings, Governed!surroundings
<1>6. Governance!SubmitReview(a) = Governed!SubmitReview(a)
  BY DEF Governance!SubmitReview, Governed!SubmitReview,
       Governance!CreateReview, Governed!CreateReview,
       Governance!AddDecision, Governed!AddDecision,
       Governance!KeyUsed, Governed!KeyUsed,
       Governance!Verdict, Governed!Verdict,
       Governance!Finish, Governed!Finish,
       Governance!NoRequest, Governed!NoRequest,
       Governance!None, Governed!None,
       Governance!NoView, Governed!NoView,
       Governance!surroundings, Governed!surroundings
<1>7. Governance!SubmitAppeal(a) = Governed!SubmitAppeal(a)
  BY DEF Governance!SubmitAppeal, Governed!SubmitAppeal,
       Governance!Finish, Governed!Finish,
       Governance!NoRequest, Governed!NoRequest,
       Governance!None, Governed!None,
       Governance!NoView, Governed!NoView,
       Governance!records, Governed!records,
       Governance!surroundings, Governed!surroundings
<1>8. Governance!ResolveAppeal(a) = Governed!ResolveAppeal(a)
  BY DEF Governance!ResolveAppeal, Governed!ResolveAppeal,
       Governance!CreateReview, Governed!CreateReview,
       Governance!AddDecision, Governed!AddDecision,
       Governance!KeyUsed, Governed!KeyUsed,
       Governance!Verdict, Governed!Verdict,
       Governance!Finish, Governed!Finish,
       Governance!NoRequest, Governed!NoRequest,
       Governance!None, Governed!None,
       Governance!NoView, Governed!NoView,
       Governance!surroundings, Governed!surroundings
<1>9. Governance!EvaluateAgain(a) = Governed!EvaluateAgain(a)
  BY DEF Governance!EvaluateAgain, Governed!EvaluateAgain,
       Governance!MayEvaluate, Governed!MayEvaluate,
       Governance!SameEvaluation, Governed!SameEvaluation,
       Governance!Evaluation, Governed!Evaluation,
       Governance!Finish, Governed!Finish,
       Governance!NoRequest, Governed!NoRequest,
       Governance!None, Governed!None,
       Governance!NoView, Governed!NoView,
       Governance!surroundings, Governed!surroundings
<1>10. Governance!EvaluateNew(a) = Governed!EvaluateNew(a)
  BY DEF Governance!EvaluateNew, Governed!EvaluateNew,
       Governance!MayEvaluate, Governed!MayEvaluate,
       Governance!SameEvaluation, Governed!SameEvaluation,
       Governance!Evaluation, Governed!Evaluation,
       Governance!HumanStands, Governed!HumanStands,
       Governance!AddDecision, Governed!AddDecision,
       Governance!Finish, Governed!Finish,
       Governance!NoRequest, Governed!NoRequest,
       Governance!None, Governed!None,
       Governance!NoView, Governed!NoView,
       Governance!surroundings, Governed!surroundings
<1> QED
  BY <1>1, <1>2, <1>3, <1>4, <1>5, <1>6, <1>7, <1>8, <1>9, <1>10
    DEF Governance!Act, Governed!Act

(***************************************************************************)
(* ... and the case starts and goes on in the same way.                    *)
(***************************************************************************)
LEMMA SameGovernance == Governance!Spec => Governed!Spec
<1>1. Governance!Init => Governed!Init
  BY DEF Governance!Init, Governed!Init,
       Governance!None, Governed!None,
       Governance!NoAppeal, Governed!NoAppeal,
       Governance!NoRequest, Governed!NoRequest,
       Governance!NoView, Governed!NoView,
       Governance!Agent!Init, Governed!Agent!Init
<1>2. Governance!Environment => Governed!Environment
  BY DEF Governance!Environment, Governed!Environment,
       Governance!AgentPrepares, Governed!AgentPrepares,
       Governance!AgentWrites, Governed!AgentWrites,
       Governance!InputChanges, Governed!InputChanges,
       Governance!Surroundings, Governed!Surroundings,
       Governance!CaseIsFree, Governed!CaseIsFree,
       Governance!records, Governed!records,
       Governance!Agent!Prepare, Governed!Agent!Prepare,
       Governance!Agent!Write, Governed!Agent!Write,
       Governance!Agent!Work, Governed!Agent!Work,
       Governance!Agent!WorkLate, Governed!Agent!WorkLate
<1>3. [Governance!Next]_(Governance!vars) => [Governed!Next]_(Governed!vars)
  BY <1>2, SameActs DEF Governance!Next, Governed!Next, Governance!vars, Governed!vars
<1> QED
  BY <1>1, <1>3, PTL DEF Governance!Spec, Governed!Spec

(***************************************************************************)
(* With the real agent at work on the case, its late claims and closes     *)
(* included, the history of decisions, reviews and appeals is consistent:  *)
(* every property of CaseGovernance holds of the composition.              *)
(***************************************************************************)
THEOREM GovernanceIsSoundUnderAgent ==
  ASSUME Governance!InputsAssumption
  PROVE  LifecycleSpec =>
           /\ []Governance!TypeOK
           /\ []Governance!MachineYieldsToHuman
           /\ []Governance!ReviewsMatchDecisions
           /\ []Governance!AppealsAreAnswered
           /\ []Governance!ResultsMatchDecision
           /\ []Governance!ConclusiveCitesEvidence
           /\ Governance!ActsOnCurrent
           /\ Governance!ResolutionsAreFinal
           /\ Governance!ImplementsLedger
<1>1. LifecycleSpec => Governed!Spec
  BY GovernanceHoldsUnderAgent, SameGovernance, PTL
<1>2. Governed!Spec => []Governance!TypeOK
  <2>1. Governed!TypeOK => Governance!TypeOK
    BY DEF Governance!TypeOK, Governed!TypeOK,
         Governance!Decision, Governed!Decision,
         Governance!Verdict, Governed!Verdict,
         Governance!None, Governed!None,
         Governance!CaseStatus, Governed!CaseStatus,
         Governance!RunStatus, Governed!RunStatus,
         Governance!ClosedStatus, Governed!ClosedStatus,
         Governance!Requests, Governed!Requests,
         Governance!EvaluationRequest, Governed!EvaluationRequest,
         Governance!NoRequest, Governed!NoRequest
  <2> QED
    BY <2>1, Governed!TypeCorrect, PTL
<1>3. Governed!Spec => []Governance!MachineYieldsToHuman
  <2>1. Governed!MachineYieldsToHuman => Governance!MachineYieldsToHuman
    BY DEF Governance!MachineYieldsToHuman, Governed!MachineYieldsToHuman,
         Governance!SameEvaluation, Governed!SameEvaluation
  <2> QED
    BY <2>1, Governed!MachineYields, PTL
<1>4. Governed!Spec => []Governance!ReviewsMatchDecisions
  <2>1. Governed!ReviewsMatchDecisions => Governance!ReviewsMatchDecisions
    BY DEF Governance!ReviewsMatchDecisions, Governed!ReviewsMatchDecisions
  <2> QED
    BY <2>1, Governed!ReviewsMatch, PTL
<1>5. Governed!Spec => []Governance!AppealsAreAnswered
  <2>1. Governed!AppealsAreAnswered => Governance!AppealsAreAnswered
    BY DEF Governance!AppealsAreAnswered, Governed!AppealsAreAnswered
  <2> QED
    BY <2>1, Governed!AppealsAnswered, PTL
<1>6. Governed!Spec => []Governance!ResultsMatchDecision
  <2>1. Governed!ResultsMatchDecision => Governance!ResultsMatchDecision
    BY DEF Governance!ResultsMatchDecision, Governed!ResultsMatchDecision
  <2> QED
    BY <2>1, Governed!ResultsMatch, PTL
<1>7. Governed!Spec => []Governance!ConclusiveCitesEvidence
  <2>1. Governed!ConclusiveCitesEvidence => Governance!ConclusiveCitesEvidence
    BY DEF Governance!ConclusiveCitesEvidence, Governed!ConclusiveCitesEvidence
  <2> QED
    BY <2>1, Governed!ConclusiveCites, PTL
<1>8. Governed!Spec => Governance!ActsOnCurrent
  BY Governed!ActingOnCurrent, PTL
  DEF Governance!ActsOnCurrent, Governed!ActsOnCurrent,
      Governance!vars, Governed!vars
<1>9. Governed!Spec => Governance!ResolutionsAreFinal
  BY Governed!ResolvedOnce, PTL
  DEF Governance!ResolutionsAreFinal, Governed!ResolutionsAreFinal,
      Governance!vars, Governed!vars
<1>10. Governed!Spec => Governance!ImplementsLedger
  BY Governed!CaseImplementsLedger, PTL
  DEF Governance!ImplementsLedger, Governed!ImplementsLedger,
      Governance!Ledger!Source, Governed!Ledger!Source,
      Governance!Ledger!CurrentIsHuman, Governed!Ledger!CurrentIsHuman,
      Governance!Ledger!Spec, Governed!Ledger!Spec,
      Governance!Ledger!Init, Governed!Ledger!Init,
      Governance!Ledger!Next, Governed!Ledger!Next,
      Governance!Ledger!Decide, Governed!Ledger!Decide,
      Governance!Ledger!Reinstate, Governed!Ledger!Reinstate
<1> QED
  BY <1>1, <1>2, <1>3, <1>4, <1>5, <1>6, <1>7, <1>8, <1>9, <1>10, PTL

=============================================================================
