------------------------ MODULE CaseGovernanceProofs ------------------------
(***************************************************************************)
(* Proofs about CaseGovernance, for any number of requests, keys, appeals, *)
(* inputs and decisions.                                                   *)
(***************************************************************************)
EXTENDS CaseGovernance, TLAPS

\* Whoever holds the case row holds it alone, and what it read still stands.
LockInv ==
  \A a \in Actors : pc[a] = "caseLocked" =>
    /\ view[a].current = current
    /\ view[a].length = Len(decisions)
    /\ \A b \in Actors : pc[b] = "caseLocked" => b = a

\* What the environment and the steps of a request before its commit keep.
Quiet == UNCHANGED <<decisions, current, results, reviews, appeals>>

-----------------------------------------------------------------------------
(* Lemmas about the steps *)

(***************************************************************************)
(* A decision is added behind the ones that exist, and becomes current.    *)
(***************************************************************************)
LEMMA DecisionAdded ==
  ASSUME TypeOK, NEW a \in Actors, NEW d \in Decision, AddDecision(a, d)
  PROVE  /\ decisions' \in Seq(Decision)
         /\ Len(decisions') = Len(decisions) + 1
         /\ decisions'[Len(decisions) + 1] = d
         /\ \A i \in 1 .. Len(decisions) : decisions'[i] = decisions[i]
         /\ current' = Len(decisions) + 1
         /\ status' \in CaseStatus
BY DEF TypeOK, AddDecision, CaseStatus

(***************************************************************************)
(* _create_review adds one human decision, which supersedes the decision   *)
(* that was read, and one review of that decision.                         *)
(***************************************************************************)
LEMMA ReviewCreated ==
  ASSUME TypeOK, NEW a \in Actors, CreateReview(a)
  PROVE  /\ view[a].current # 0
         /\ Len(decisions) = view[a].length
         /\ results' = results
         /\ ~KeyUsed(ask[a].key)
         /\ reviews' = reviews \cup {[key |-> ask[a].key,
                                      reviewed |-> view[a].current,
                                      decision |-> Len(decisions) + 1]}
         /\ \E d \in Decision :
              /\ AddDecision(a, d)
              /\ d.source = "HUMAN"
              /\ d.supersedes = view[a].current
              /\ d.verdict = "CONCLUSIVE" => d.evidence
<1>1. PICK verdict \in Verdict, cites \in BOOLEAN :
        LET evidence == cites \/ decisions[view[a].current].evidence
        IN  /\ verdict = "CONCLUSIVE" => evidence
            /\ AddDecision(a, [source |-> "HUMAN", results |-> results,
                 incomplete |-> FALSE, verdict |-> verdict,
                 evidence |-> evidence, supersedes |-> view[a].current])
  BY DEF CreateReview
<1> DEFINE e == cites \/ decisions[view[a].current].evidence
           d == [source |-> "HUMAN", results |-> results, incomplete |-> FALSE,
                 verdict |-> verdict, evidence |-> e, supersedes |-> view[a].current]
<1>2. view[a].current \in Nat /\ view[a].current # 0
  BY DEF TypeOK, CreateReview
<1>3. e \in BOOLEAN
  OBVIOUS
<1>4. d \in Decision
  BY <1>2, <1>3 DEF TypeOK, Decision
<1>5. AddDecision(a, d) /\ (d.verdict = "CONCLUSIVE" => d.evidence)
  BY <1>1
<1>6. d.source = "HUMAN" /\ d.supersedes = view[a].current
  OBVIOUS
<1>7. Len(decisions) = view[a].length
  BY <1>5 DEF AddDecision
<1> QED
  BY <1>2, <1>4, <1>5, <1>6, <1>7 DEF CreateReview

(***************************************************************************)
(* An evaluation adds one machine decision, of an input that has none.     *)
(***************************************************************************)
LEMMA EvaluationAdded ==
  ASSUME TypeOK, NEW a \in Actors, EvaluateNew(a)
  PROVE  /\ results' = input
         /\ UNCHANGED <<reviews, appeals>>
         /\ ~HumanStands(a)
         /\ \E d \in Decision :
              /\ AddDecision(a, d)
              /\ d.source = "MACHINE"
              /\ d.results = input
              /\ d.supersedes = view[a].current
              /\ d.verdict = "CONCLUSIVE" => d.evidence
              /\ \A i \in 1 .. Len(decisions) : ~SameEvaluation(decisions[i], d)
<1> DEFINE d == [source |-> "MACHINE", results |-> input,
                 incomplete |-> Evaluation.incomplete,
                 verdict |-> Evaluation.verdict, evidence |-> Evaluation.evidence,
                 supersedes |-> view[a].current]
<1>1. Evaluation.incomplete \in BOOLEAN /\ Evaluation.evidence \in BOOLEAN
      /\ Evaluation.verdict \in Verdict
      /\ (Evaluation.verdict = "CONCLUSIVE" => Evaluation.evidence)
  <2>1. Evaluation.incomplete = (run = "NEEDS_HUMAN_REVIEW")
    BY Zenon DEF Evaluation
  <2>2. Evaluation.evidence = (input \in Cited)
    BY Zenon DEF Evaluation
  <2>3. Evaluation.verdict =
          IF run # "NEEDS_HUMAN_REVIEW" /\ input \in Decidable \cap Cited
          THEN "CONCLUSIVE" ELSE "NEEDS_HUMAN_REVIEW"
    BY Zenon DEF Evaluation
  <2>4. Evaluation.incomplete \in BOOLEAN /\ Evaluation.evidence \in BOOLEAN
    <3>1. (run = "NEEDS_HUMAN_REVIEW") \in BOOLEAN /\ (input \in Cited) \in BOOLEAN
      OBVIOUS
    <3> QED
      BY Zenon, <3>1 DEF Evaluation
  <2>5. Evaluation.verdict \in Verdict
    BY <2>3 DEF Verdict
  <2>6. Evaluation.verdict = "CONCLUSIVE" => input \in Cited
    BY <2>3
  <2> QED
    BY Zenon, <2>2, <2>4, <2>5, <2>6
<1>2. view[a].current \in Nat /\ input \in Inputs
  BY DEF TypeOK
<1>3. d \in Decision
  BY <1>1, <1>2 DEF Decision
<1>4. AddDecision(a, d)
  BY DEF EvaluateNew
<1>5. \A i \in 1 .. Len(decisions) : ~SameEvaluation(decisions[i], d)
  <2>1. d.results = Evaluation.results /\ d.incomplete = Evaluation.incomplete
    BY Zenon DEF Evaluation
  <2>2. \A i \in 1 .. Len(decisions) : ~SameEvaluation(decisions[i], Evaluation)
    BY DEF EvaluateNew
  <2> HIDE DEF d
  <2> QED
    BY <2>1, <2>2 DEF SameEvaluation
<1>6. /\ d.source = "MACHINE" /\ d.results = input /\ d.supersedes = view[a].current
      /\ d.verdict = "CONCLUSIVE" => d.evidence
  BY <1>1
<1>7. results' = input /\ UNCHANGED <<reviews, appeals>> /\ ~HumanStands(a)
  BY DEF EvaluateNew
<1> HIDE DEF d
<1> QED
  BY <1>3, <1>4, <1>5, <1>6, <1>7

-----------------------------------------------------------------------------
(* Type correctness *)

(***************************************************************************)
(* Ending a transaction leaves the local state of every request well typed. *)
(***************************************************************************)
LEMMA FinishType ==
  ASSUME TypeOK, NEW a \in Actors, Finish(a), decisions' \in Seq(Decision),
         Len(decisions') >= Len(decisions)
  PROVE  /\ pc' \in [Actors -> {"idle", "asked", "appealLocked", "caseLocked"}]
         /\ ask' \in [Actors -> Requests \cup {EvaluationRequest, NoRequest}]
         /\ view' \in [Actors -> [current: 0 .. Len(decisions)',
                                  length: 0 .. Len(decisions)']]
<1>1. Len(decisions) \in Nat /\ Len(decisions)' \in Nat
  BY DEF TypeOK
<1>2. NoView \in [current: 0 .. Len(decisions)', length: 0 .. Len(decisions)']
  BY <1>1 DEF NoView
<1>3. [current: 0 .. Len(decisions), length: 0 .. Len(decisions)] \subseteq
      [current: 0 .. Len(decisions)', length: 0 .. Len(decisions)']
  BY <1>1
<1> QED
  BY <1>2, <1>3 DEF Finish, TypeOK

(***************************************************************************)
(* The rows of reviews and appeals stay well typed as the history grows.   *)
(***************************************************************************)
LEMMA RowsType ==
  ASSUME TypeOK, decisions' \in Seq(Decision), Len(decisions') >= Len(decisions),
         UNCHANGED <<reviews, appeals>>
  PROVE  /\ reviews' \subseteq [key: ReviewKeys, reviewed: 1 .. Len(decisions)',
                                decision: 1 .. Len(decisions)']
         /\ appeals' \in [Appeals -> [status: {"ABSENT", "OPEN", "RESOLVED"},
                                      challenged: 0 .. Len(decisions)',
                                      resolution: 0 .. Len(decisions)']]
<1>1. Len(decisions) \in Nat /\ Len(decisions)' \in Nat
  BY DEF TypeOK
<1>2. [key: ReviewKeys, reviewed: 1 .. Len(decisions), decision: 1 .. Len(decisions)]
      \subseteq [key: ReviewKeys, reviewed: 1 .. Len(decisions)',
                 decision: 1 .. Len(decisions)']
  BY <1>1
<1>3. [status: {"ABSENT", "OPEN", "RESOLVED"}, challenged: 0 .. Len(decisions),
       resolution: 0 .. Len(decisions)]
      \subseteq [status: {"ABSENT", "OPEN", "RESOLVED"}, challenged: 0 .. Len(decisions)',
                 resolution: 0 .. Len(decisions)']
  BY <1>1
<1> QED
  BY <1>2, <1>3 DEF TypeOK

(***************************************************************************)
(* A request of an operation has the key and the appeal of the operation.  *)
(***************************************************************************)
LEMMA RequestFields ==
  ASSUME TypeOK, NEW a \in Actors
  PROVE  /\ ask[a].op \in {"review", "resolve"} => ask[a].key \in ReviewKeys
         /\ ask[a].op \in {"appeal", "resolve"} => ask[a].appeal \in Appeals
         /\ ask[a].op = "evaluate" => ask[a] = EvaluationRequest
BY DEF TypeOK, Requests, EvaluationRequest, NoRequest, None

(***************************************************************************)
(* A case starts well typed.                                               *)
(***************************************************************************)
LEMMA InitType == Init => TypeOK
BY DEF Init, TypeOK, NoAppeal, NoView, NoRequest, RunStatus, CaseStatus

(***************************************************************************)
(* Steps that write no decision, review or appeal keep the types.          *)
(***************************************************************************)
LEMMA QuietType ==
  ASSUME TypeOK, Quiet, status' \in CaseStatus, run' \in RunStatus, input' \in Inputs,
         pc' \in [Actors -> {"idle", "asked", "appealLocked", "caseLocked"}],
         ask' \in [Actors -> Requests \cup {EvaluationRequest, NoRequest}],
         view' \in [Actors -> [current: 0 .. Len(decisions), length: 0 .. Len(decisions)]]
  PROVE  TypeOK'
BY DEF TypeOK, Quiet

(***************************************************************************)
(* A review keeps the types, with and without an appeal it resolves.       *)
(***************************************************************************)
LEMMA ReviewGrows ==
  ASSUME TypeOK, NEW a \in Actors, CreateReview(a), Finish(a),
         ask[a].key \in ReviewKeys
  PROVE  /\ decisions' \in Seq(Decision)
         /\ Len(decisions') = Len(decisions) + 1
         /\ current' = Len(decisions) + 1
         /\ status' \in CaseStatus
         /\ results' = results
         /\ reviews' \subseteq [key: ReviewKeys, reviewed: 1 .. Len(decisions)',
                                decision: 1 .. Len(decisions)']
<1>1. PICK d \in Decision : AddDecision(a, d)
  BY ReviewCreated
<1>2. /\ decisions' \in Seq(Decision) /\ Len(decisions') = Len(decisions) + 1
      /\ current' = Len(decisions) + 1 /\ status' \in CaseStatus
  BY <1>1, DecisionAdded
<1>3. view[a].current \in 1 .. Len(decisions) /\ Len(decisions) \in Nat
  BY ReviewCreated DEF TypeOK
<1>4. reviews' = reviews \cup {[key |-> ask[a].key, reviewed |-> view[a].current,
                               decision |-> Len(decisions) + 1]}
  BY ReviewCreated
<1>5. \A r \in reviews : r \in [key: ReviewKeys, reviewed: 1 .. Len(decisions)',
                                decision: 1 .. Len(decisions)']
  BY <1>2, <1>3 DEF TypeOK
<1> QED
  BY <1>2, <1>3, <1>4, <1>5, ReviewCreated

(***************************************************************************)
(* The review step of a request keeps the types.                           *)
(***************************************************************************)
LEMMA ReviewTypes ==
  ASSUME TypeOK, NEW a \in Actors, CreateReview(a), Finish(a),
         ask[a].key \in ReviewKeys, UNCHANGED <<run, input, appeals>>
  PROVE  TypeOK'
<1>1. Len(decisions) \in Nat
  BY DEF TypeOK
<1>2. appeals' \in [Appeals -> [status: {"ABSENT", "OPEN", "RESOLVED"},
                               challenged: 0 .. Len(decisions)',
                               resolution: 0 .. Len(decisions)']]
  <2>1. [status: {"ABSENT", "OPEN", "RESOLVED"}, challenged: 0 .. Len(decisions),
         resolution: 0 .. Len(decisions)]
        \subseteq [status: {"ABSENT", "OPEN", "RESOLVED"},
                   challenged: 0 .. Len(decisions)', resolution: 0 .. Len(decisions)']
    BY <1>1, ReviewGrows
  <2> QED
    BY <2>1 DEF TypeOK
<1>3. /\ decisions' \in Seq(Decision)
      /\ Len(decisions') = Len(decisions) + 1
      /\ current' = Len(decisions) + 1
      /\ status' \in CaseStatus
      /\ results' = results
      /\ reviews' \subseteq [key: ReviewKeys, reviewed: 1 .. Len(decisions)',
                             decision: 1 .. Len(decisions)']
  BY ReviewGrows
<1>4. /\ pc' \in [Actors -> {"idle", "asked", "appealLocked", "caseLocked"}]
      /\ ask' \in [Actors -> Requests \cup {EvaluationRequest, NoRequest}]
      /\ view' \in [Actors -> [current: 0 .. Len(decisions)', length: 0 .. Len(decisions)']]
  BY <1>1, <1>3, FinishType
<1> QED
  BY <1>1, <1>2, <1>3, <1>4 DEF TypeOK

(***************************************************************************)
(* A resolution keeps the types.                                           *)
(***************************************************************************)
LEMMA ResolveTypes ==
  ASSUME TypeOK, NEW a \in Actors, ResolveAppeal(a)
  PROVE  TypeOK'
<1>1. /\ CreateReview(a) /\ Finish(a) /\ UNCHANGED <<run, input>>
      /\ appeals' = [appeals EXCEPT ![ask[a].appeal].status = "RESOLVED",
                                    ![ask[a].appeal].resolution = view[a].length + 1]
  BY DEF ResolveAppeal, surroundings
<1>2. ask[a].key \in ReviewKeys /\ ask[a].appeal \in Appeals
  BY RequestFields DEF ResolveAppeal
<1>3. Len(decisions) \in Nat /\ view[a].length = Len(decisions)
  BY <1>1, ReviewCreated DEF TypeOK
<1>4. appeals' \in [Appeals -> [status: {"ABSENT", "OPEN", "RESOLVED"},
                               challenged: 0 .. Len(decisions)',
                               resolution: 0 .. Len(decisions)']]
  <2> DEFINE T == [status: {"ABSENT", "OPEN", "RESOLVED"},
                   challenged: 0 .. Len(decisions)', resolution: 0 .. Len(decisions)']
  <2> DEFINE N == Len(decisions)
             M == Len(decisions)'
  <2>1. N \in Nat /\ M = N + 1
    BY <1>1, <1>2, <1>3, ReviewGrows
  <2>2. 0 .. N \subseteq 0 .. M /\ N + 1 \in 0 .. M
    <3> HIDE DEF N, M
    <3> QED
      BY <2>1
  <2>3. appeals \in [Appeals -> [status: {"ABSENT", "OPEN", "RESOLVED"},
                                challenged: 0 .. N, resolution: 0 .. N]]
    BY DEF TypeOK
  <2>4. \A p \in Appeals : appeals[p] \in T
    <3> HIDE DEF N
    <3> QED
      BY <2>2, <2>3
  <2> QED
    BY <1>1, <1>2, <1>3, <2>2, <2>3, <2>4
<1> QED
  BY <1>1, <1>2, <1>3, <1>4, ReviewGrows, FinishType DEF TypeOK

(***************************************************************************)
(* Every step of a request keeps the types.                                *)
(***************************************************************************)
LEMMA ActType ==
  ASSUME TypeOK, NEW a \in Actors, Act(a)
  PROVE  TypeOK'
<1> USE DEF surroundings, records
<1>1. CASE Ask(a)
  <2>1. PICK r \in Requests : ask' = [ask EXCEPT ![a] = r]
    BY <1>1 DEF Ask
  <2> QED
    BY <1>1, <2>1, QuietType DEF Ask, TypeOK, Quiet
<1>2. CASE LockAppeal(a)
  BY <1>2, QuietType DEF LockAppeal, TypeOK, Quiet
<1>3. CASE LockCase(a) \/ StartEvaluation(a)
  <2>1. [current |-> current, length |-> Len(decisions)] \in
          [current: 0 .. Len(decisions), length: 0 .. Len(decisions)]
    BY DEF TypeOK
  <2>2. /\ view' \in [Actors -> [current: 0 .. Len(decisions), length: 0 .. Len(decisions)]]
        /\ pc' \in [Actors -> {"idle", "asked", "appealLocked", "caseLocked"}]
    <3>1. /\ view' = [view EXCEPT ![a] = [current |-> current, length |-> Len(decisions)]]
          /\ pc' = [pc EXCEPT ![a] = "caseLocked"]
      BY <1>3 DEF LockCase, StartEvaluation, Lock
    <3> QED
      BY <2>1, <3>1 DEF TypeOK
  <2>3. ask' \in [Actors -> Requests \cup {EvaluationRequest, NoRequest}]
    BY <1>3 DEF LockCase, StartEvaluation, TypeOK
  <2>4. Quiet /\ UNCHANGED <<status, surroundings>>
    BY <1>3 DEF LockCase, StartEvaluation, Lock, Quiet
  <2> QED
    BY <2>2, <2>3, <2>4, QuietType DEF TypeOK
<1>4. CASE Drop(a)
  <2>1. Quiet /\ UNCHANGED <<status, surroundings>>
    BY <1>4 DEF Drop, Quiet
  <2>2. /\ pc' \in [Actors -> {"idle", "asked", "appealLocked", "caseLocked"}]
        /\ ask' \in [Actors -> Requests \cup {EvaluationRequest, NoRequest}]
        /\ view' \in [Actors -> [current: 0 .. Len(decisions), length: 0 .. Len(decisions)]]
    BY <1>4, <2>1, FinishType DEF Drop, Quiet, TypeOK
  <2> QED
    BY <2>1, <2>2, QuietType DEF TypeOK
<1>5. CASE SubmitReview(a)
  <2>1. CreateReview(a) /\ Finish(a) /\ UNCHANGED <<surroundings, appeals>>
    BY <1>5 DEF SubmitReview
  <2>2. ask[a].key \in ReviewKeys
    BY <1>5, RequestFields DEF SubmitReview
  <2> QED
    BY <2>1, <2>2, ReviewTypes
<1>6. CASE ResolveAppeal(a)
  BY <1>6, ResolveTypes
<1>7. CASE SubmitAppeal(a)
  <2>1. /\ UNCHANGED <<decisions, current, results, reviews, surroundings>>
        /\ status' \in CaseStatus /\ Finish(a)
    BY <1>7 DEF SubmitAppeal, CaseStatus
  <2>2. appeals' \in [Appeals -> [status: {"ABSENT", "OPEN", "RESOLVED"},
                                  challenged: 0 .. Len(decisions),
                                  resolution: 0 .. Len(decisions)]]
    BY <1>7, RequestFields DEF SubmitAppeal, TypeOK
  <2> QED
    BY <2>1, <2>2, FinishType DEF TypeOK
<1>8. CASE EvaluateAgain(a)
  <2>1. /\ UNCHANGED <<decisions, status, surroundings, reviews, appeals>>
        /\ results' = input /\ Finish(a) /\ current' \in 0 .. Len(decisions)
    BY <1>8 DEF EvaluateAgain, TypeOK
  <2> QED
    BY <2>1, FinishType DEF TypeOK
<1>9. CASE EvaluateNew(a)
  <2>1. /\ results' = input /\ UNCHANGED <<reviews, appeals, surroundings>> /\ Finish(a)
    BY <1>9 DEF EvaluateNew
  <2>2. /\ decisions' \in Seq(Decision) /\ Len(decisions') = Len(decisions) + 1
        /\ current' = Len(decisions) + 1 /\ status' \in CaseStatus
    BY <1>9, EvaluationAdded, DecisionAdded
  <2>3. Len(decisions) \in Nat
    BY DEF TypeOK
  <2> QED
    BY <2>1, <2>2, <2>3, FinishType, RowsType DEF TypeOK
<1> QED
  BY <1>1, <1>2, <1>3, <1>4, <1>5, <1>6, <1>7, <1>8, <1>9 DEF Act

(***************************************************************************)
(* A worker, a person or the environment takes no state out of its type.   *)
(***************************************************************************)
LEMMA NextType == TypeOK /\ [Next]_vars => TypeOK'
<1> SUFFICES ASSUME TypeOK, [Next]_vars PROVE TypeOK'
  OBVIOUS
<1>1. CASE \E a \in Actors : Act(a)
  BY <1>1, ActType
<1>2. CASE Environment
  <2>1. /\ Quiet /\ UNCHANGED <<pc, ask, view>>
        /\ status' \in CaseStatus /\ run' \in RunStatus /\ input' \in Inputs
    BY <1>2 DEF Environment, AgentPrepares, Agent!Prepare, AgentWrites,
                Agent!Write, Agent!Work, Agent!WorkLate, InputChanges, Surroundings,
                records, Quiet, TypeOK, RunStatus, ClosedStatus, CaseStatus
  <2> QED
    BY <2>1, QuietType DEF TypeOK
<1>3. CASE UNCHANGED vars
  BY <1>3 DEF TypeOK, vars
<1> QED
  BY <1>1, <1>2, <1>3 DEF Next

(***************************************************************************)
(* Type correctness of the rows and of the requests.                       *)
(***************************************************************************)
THEOREM TypeCorrect == Spec => []TypeOK
<1>1. Init => TypeOK
  BY InitType
<1>2. TypeOK /\ [Next]_vars => TypeOK'
  BY NextType
<1> QED
  BY <1>1, <1>2, PTL DEF Spec

-----------------------------------------------------------------------------
(* The row lock of the case *)

(***************************************************************************)
(* A lock is taken only when it is free, and nobody else writes under it.  *)
(***************************************************************************)
LEMMA LockNext == TypeOK /\ LockInv /\ [Next]_vars => LockInv'
<1> SUFFICES ASSUME TypeOK, LockInv, [Next]_vars PROVE LockInv'
  OBVIOUS
<1>1. CASE UNCHANGED <<decisions, current, pc, view>>
  BY <1>1 DEF LockInv
<1>2. ASSUME NEW a \in Actors, Act(a) PROVE LockInv'
  <2> USE <1>2 DEF records, TypeOK, LockInv
  <2>1. CASE Ask(a)
    BY <2>1 DEF Ask
  <2>2. CASE LockAppeal(a)
    BY <2>2 DEF LockAppeal
  <2>3. CASE LockCase(a) \/ StartEvaluation(a)
    <3>1. Lock(a)
      BY <2>3 DEF LockCase, StartEvaluation
    <3> QED
      BY <3>1 DEF Lock, CaseIsFree
  <2>4. CASE Drop(a)
    BY <2>4 DEF Drop, Finish
  <2>5. CASE pc[a] = "caseLocked" /\ Finish(a)
    BY <2>5 DEF Finish
  <2> QED
    BY <2>1, <2>2, <2>3, <2>4, <2>5
       DEF Act, SubmitReview, SubmitAppeal, ResolveAppeal, EvaluateAgain, EvaluateNew,
           MayEvaluate
<1>3. CASE Environment
  BY <1>3, <1>1 DEF Environment, AgentPrepares, AgentWrites, InputChanges,
                    Surroundings, records
<1> QED
  BY <1>1, <1>2, <1>3 DEF Next, vars

(***************************************************************************)
(* Nobody else holds the case row while a request does, and its view of    *)
(* the pointer and of the last sequence is current when it commits.        *)
(***************************************************************************)
THEOREM LockCorrect == Spec => [](TypeOK /\ LockInv)
<1>1. Init => TypeOK /\ LockInv
  BY InitType DEF Init, LockInv
<1>2. TypeOK /\ LockInv /\ [Next]_vars => TypeOK' /\ LockInv'
  BY NextType, LockNext
<1> QED
  BY <1>1, <1>2, PTL DEF Spec

-----------------------------------------------------------------------------
(* The machine yields to the human *)

(***************************************************************************)
(* A decision that supersedes the current one, and whose evaluation is     *)
(* new, keeps machine decisions from superseding human ones.               *)
(***************************************************************************)
LEMMA MachineYieldsAdd ==
  ASSUME TypeOK, MachineYieldsToHuman,
         NEW a \in Actors, NEW d \in Decision, AddDecision(a, d),
         d.supersedes = view[a].current,
         d.source = "HUMAN" => view[a].current # 0,
         d.source = "MACHINE" =>
           /\ ~HumanStands(a)
           /\ \A i \in 1 .. Len(decisions) : ~SameEvaluation(decisions[i], d)
  PROVE  MachineYieldsToHuman'
<1> DEFINE n == Len(decisions) + 1
<1>1. /\ decisions' \in Seq(Decision) /\ Len(decisions') = n /\ decisions'[n] = d
      /\ \A i \in 1 .. Len(decisions) : decisions'[i] = decisions[i]
  BY DecisionAdded
<1>2. Len(decisions) \in Nat /\ view[a].current \in 0 .. Len(decisions)
  BY DEF TypeOK
<1>3. \A i \in 1 .. Len(decisions) : decisions[i] \in Decision
  BY DEF TypeOK
<1> SUFFICES ASSUME NEW i \in 1 .. n
             PROVE  LET e == decisions'[i] IN
                    /\ e.supersedes < i
                    /\ e.source = "HUMAN" => e.supersedes # 0
                    /\ e.source = "MACHINE" =>
                         /\ e.supersedes # 0 => decisions'[e.supersedes].source = "MACHINE"
                         /\ \A j \in 1 .. n : SameEvaluation(decisions'[j], e) => j = i
  BY <1>1 DEF MachineYieldsToHuman
<1>4. CASE i = n
  <2>1. d.source = "MACHINE" /\ d.supersedes # 0 =>
          decisions[d.supersedes].source = "MACHINE"
    BY <1>2, <1>3 DEF HumanStands, Decision
  <2>2. d.source = "MACHINE" =>
          \A j \in 1 .. Len(decisions) : ~SameEvaluation(decisions'[j], d)
    BY <1>1
  <2> QED
    BY <1>1, <1>2, <1>4, <2>1, <2>2
<1>5. CASE i \in 1 .. Len(decisions)
  <2> DEFINE e == decisions[i]
  <2>1. /\ e.supersedes < i
        /\ e.source = "HUMAN" => e.supersedes # 0
        /\ e.source = "MACHINE" =>
             /\ e.supersedes # 0 => decisions[e.supersedes].source = "MACHINE"
             /\ \A j \in 1 .. Len(decisions) : SameEvaluation(decisions[j], e) => j = i
    BY <1>5 DEF MachineYieldsToHuman
  <2>2. e.supersedes \in Nat
    BY <1>3, <1>5 DEF Decision
  <2>3. e.source = "MACHINE" => ~SameEvaluation(d, e)
    BY <1>5 DEF SameEvaluation
  <2>4. e.supersedes # 0 => e.supersedes \in 1 .. Len(decisions)
    BY <1>2, <1>5, <2>1, <2>2
  <2> QED
    BY <1>1, <1>2, <1>5, <2>1, <2>3, <2>4
<1> QED
  BY <1>2, <1>4, <1>5

(***************************************************************************)
(* Every step keeps machine decisions from superseding human ones.         *)
(***************************************************************************)
LEMMA MachineYieldsNext ==
  TypeOK /\ MachineYieldsToHuman /\ [Next]_vars => MachineYieldsToHuman'
<1> SUFFICES ASSUME TypeOK, MachineYieldsToHuman, [Next]_vars
             PROVE  MachineYieldsToHuman'
  OBVIOUS
<1>1. CASE UNCHANGED decisions
  BY <1>1 DEF MachineYieldsToHuman, SameEvaluation
<1>2. ASSUME NEW a \in Actors, CreateReview(a) PROVE MachineYieldsToHuman'
  <2>1. PICK d \in Decision : /\ AddDecision(a, d)
                              /\ d.source = "HUMAN"
                              /\ d.supersedes = view[a].current
    BY <1>2, ReviewCreated
  <2> QED
    BY <1>2, <2>1, MachineYieldsAdd, ReviewCreated
<1>3. ASSUME NEW a \in Actors, EvaluateNew(a) PROVE MachineYieldsToHuman'
  <2>1. PICK d \in Decision :
          /\ AddDecision(a, d)
          /\ d.source = "MACHINE"
          /\ d.supersedes = view[a].current
          /\ \A i \in 1 .. Len(decisions) : ~SameEvaluation(decisions[i], d)
    BY <1>3, EvaluationAdded
  <2>2. ~HumanStands(a)
    BY <1>3, EvaluationAdded
  <2> QED
    BY <2>1, <2>2, MachineYieldsAdd
<1>4. ASSUME NEW a \in Actors, Act(a)
      PROVE  UNCHANGED decisions \/ CreateReview(a) \/ EvaluateNew(a)
  BY <1>4 DEF Act, Ask, LockAppeal, LockCase, Lock, StartEvaluation, Drop, SubmitReview,
              ResolveAppeal, SubmitAppeal, EvaluateAgain, records
<1>5. CASE Environment
  BY <1>5, <1>1 DEF Environment, AgentPrepares, AgentWrites, InputChanges,
                    Surroundings, records
<1> QED
  BY <1>1, <1>2, <1>3, <1>4, <1>5 DEF Next, vars

(***************************************************************************)
(* No history of overlapping evaluations, reviews and appeals contains a   *)
(* machine decision that supersedes a human one, or two machine decisions  *)
(* of one input.                                                           *)
(***************************************************************************)
THEOREM MachineYields == Spec => []MachineYieldsToHuman
<1>1. Init => MachineYieldsToHuman
  BY DEF Init, MachineYieldsToHuman
<1>2. TypeOK /\ MachineYieldsToHuman /\ [Next]_vars => MachineYieldsToHuman'
  BY MachineYieldsNext
<1> QED
  BY <1>1, <1>2, TypeCorrect, PTL DEF Spec

-----------------------------------------------------------------------------
(* The row lock of an appeal *)

Resolving(a) == ask[a].op = "resolve" /\ pc[a] \in {"appealLocked", "caseLocked"}

\* An appeal that is being resolved is open and held by one request; every
\* appeal challenges a decision.
AppealInv ==
  /\ \A a \in Actors : Resolving(a) =>
       /\ appeals[ask[a].appeal].status = "OPEN"
       /\ \A b \in Actors : Resolving(b) /\ ask[b].appeal = ask[a].appeal => b = a
  /\ \A p \in Appeals : appeals[p].status # "ABSENT" => appeals[p].challenged # 0

(***************************************************************************)
(* Every step keeps what is known of the appeals that are open or          *)
(* resolved.                                                               *)
(***************************************************************************)
LEMMA AppealNext == TypeOK /\ AppealInv /\ [Next]_vars => AppealInv'
<1> SUFFICES ASSUME TypeOK, AppealInv, [Next]_vars PROVE AppealInv'
  OBVIOUS
<1> USE DEF TypeOK, AppealInv, Resolving
<1>1. CASE UNCHANGED <<appeals, pc, ask>>
  BY <1>1
<1>2. ASSUME NEW a \in Actors, Act(a) PROVE AppealInv'
  <2>1. CASE Ask(a)
    <3>1. pc' = [pc EXCEPT ![a] = "asked"] /\ UNCHANGED appeals
          /\ \A b \in Actors \ {a} : ask'[b] = ask[b]
      BY <2>1 DEF Ask
    <3> QED
      BY <1>2, <3>1
  <2>2. CASE LockAppeal(a)
    BY <1>2, <2>2 DEF LockAppeal, AppealIsFree
  <2>3. CASE LockCase(a)
    BY <1>2, <2>3 DEF LockCase, Lock
  <2>4. CASE StartEvaluation(a)
    <3>1. /\ pc' = [pc EXCEPT ![a] = "caseLocked"]
          /\ ask' = [ask EXCEPT ![a] = EvaluationRequest]
          /\ UNCHANGED appeals
      BY <2>4 DEF StartEvaluation, Lock
    <3>2. EvaluationRequest.op # "resolve"
      BY DEF EvaluationRequest
    <3> QED
      BY <1>2, <3>1, <3>2
  <2>5. CASE Finish(a) /\ UNCHANGED appeals
    BY <1>2, <2>5 DEF Finish
  <2>6. CASE SubmitAppeal(a)
    <3>1. /\ pc[a] = "caseLocked" /\ ask[a].op = "appeal" /\ view[a].current # 0
          /\ appeals[ask[a].appeal].status = "ABSENT"
          /\ appeals' = [appeals EXCEPT ![ask[a].appeal] =
                [status |-> "OPEN", challenged |-> view[a].current, resolution |-> 0]]
          /\ pc' = [pc EXCEPT ![a] = "idle"] /\ ask' = [ask EXCEPT ![a] = NoRequest]
      BY <2>6 DEF SubmitAppeal, Finish
    <3>2. \A b \in Actors : pc'[b] \in {"appealLocked", "caseLocked"} =>
            b # a /\ pc'[b] = pc[b] /\ ask'[b] = ask[b]
      BY <1>2, <3>1
    <3>3. \A b \in Actors : Resolving(b) => appeals'[ask[b].appeal] = appeals[ask[b].appeal]
      BY <1>2, <3>1
    <3>4. \A p \in Appeals : appeals'[p].status # "ABSENT" => appeals'[p].challenged # 0
      BY <1>2, <3>1
    <3> QED
      BY <1>2, <3>1, <3>2, <3>3, <3>4
  <2>7. CASE ResolveAppeal(a)
    <3>1. /\ Resolving(a)
          /\ appeals' = [appeals EXCEPT ![ask[a].appeal].status = "RESOLVED",
                                        ![ask[a].appeal].resolution = view[a].length + 1]
          /\ pc' = [pc EXCEPT ![a] = "idle"] /\ ask' = [ask EXCEPT ![a] = NoRequest]
      BY <2>7 DEF ResolveAppeal, Finish
    <3>2. \A b \in Actors : pc'[b] \in {"appealLocked", "caseLocked"} =>
            b # a /\ pc'[b] = pc[b] /\ ask'[b] = ask[b]
      BY <1>2, <3>1
    <3>3. \A b \in Actors \ {a} : Resolving(b) =>
            appeals'[ask[b].appeal] = appeals[ask[b].appeal]
      <4>1. \A p \in Appeals \ {ask[a].appeal} : appeals'[p] = appeals[p]
        BY <3>1
      <4>2. \A b \in Actors : Resolving(b) => ask[b].appeal \in Appeals
        BY RequestFields
      <4> QED
        BY <1>2, <3>1, <4>1, <4>2
    <3>4. \A p \in Appeals : appeals'[p].status # "ABSENT" => appeals'[p].challenged # 0
      BY <1>2, <3>1
    <3>5. \A b \in Actors : Resolving(b)' => b # a /\ Resolving(b)
      BY <3>2
    <3>6. \A b \in Actors : Resolving(b)' => (ask[b].appeal)' = ask[b].appeal
      BY <3>2
    <3> HIDE DEF Resolving
    <3> QED
      BY <3>3, <3>4, <3>5, <3>6
  <2> QED
    BY <1>2, <2>1, <2>2, <2>3, <2>4, <2>5, <2>6, <2>7
       DEF Act, Drop, SubmitReview, EvaluateAgain, EvaluateNew
<1>3. CASE Environment
  BY <1>3, <1>1 DEF Environment, AgentPrepares, AgentWrites, InputChanges, Surroundings
<1> QED
  BY <1>1, <1>2, <1>3 DEF Next, vars

(***************************************************************************)
(* A case starts without appeals.                                          *)
(***************************************************************************)
LEMMA AppealInit == Init => AppealInv
BY DEF Init, AppealInv, Resolving, NoAppeal

-----------------------------------------------------------------------------
(* Acting on the current decision *)

(***************************************************************************)
(* What a request supersedes or challenges is what it read under the lock, *)
(* and that still is current.                                              *)
(***************************************************************************)
LEMMA ActsOnCurrentStep ==
  ASSUME TypeOK, LockInv, AppealInv, [Next]_vars
  PROVE  /\ decisions' # decisions => decisions'[Len(decisions')].supersedes = current
         /\ \A p \in Appeals :
              appeals[p].status = "ABSENT" /\ appeals'[p].status # "ABSENT" =>
                appeals'[p].challenged = current
<1>1. ASSUME NEW a \in Actors, NEW d \in Decision, AddDecision(a, d),
             d.supersedes = view[a].current, view[a].current = current
      PROVE  decisions'[Len(decisions')].supersedes = current
  BY <1>1, DecisionAdded
<1>2. ASSUME NEW a \in Actors, Act(a), decisions' # decisions
      PROVE  decisions'[Len(decisions')].supersedes = current
  <2>1. /\ CreateReview(a) \/ EvaluateNew(a)
        /\ view[a].current = current
    BY <1>2 DEF Act, Ask, LockAppeal, LockCase, Lock, StartEvaluation, Drop, SubmitReview,
                ResolveAppeal, SubmitAppeal, EvaluateAgain, EvaluateNew, MayEvaluate,
                records, LockInv
  <2> QED
    BY <1>1, <2>1, ReviewCreated, EvaluationAdded
<1>3. ASSUME NEW a \in Actors, Act(a), NEW p \in Appeals,
             appeals[p].status = "ABSENT", appeals'[p].status # "ABSENT"
      PROVE  appeals'[p].challenged = current
  <2>1. CASE UNCHANGED appeals
    BY <1>3, <2>1
  <2>2. CASE SubmitAppeal(a)
    BY <1>3, <2>2 DEF SubmitAppeal, LockInv, TypeOK
  <2>3. CASE ResolveAppeal(a)
    <3>1. /\ ask[a].op = "resolve" /\ pc[a] = "caseLocked"
          /\ appeals' = [appeals EXCEPT ![ask[a].appeal].status = "RESOLVED",
                                        ![ask[a].appeal].resolution = view[a].length + 1]
      BY <2>3 DEF ResolveAppeal
    <3>2. appeals[ask[a].appeal].status = "OPEN"
      BY <1>3, <3>1 DEF AppealInv, Resolving
    <3> QED
      BY <1>3, <3>1, <3>2 DEF TypeOK
  <2> QED
    BY <1>3, <2>1, <2>2, <2>3
       DEF Act, Ask, LockAppeal, LockCase, Lock, StartEvaluation, Drop, SubmitReview,
           EvaluateAgain, EvaluateNew, records
<1>4. CASE Environment \/ UNCHANGED vars
  BY <1>4 DEF Environment, AgentPrepares, AgentWrites, InputChanges,
              Surroundings, records, vars
<1> QED
  BY <1>2, <1>3, <1>4 DEF Next

(***************************************************************************)
(* Every new decision supersedes, and every new appeal challenges, the     *)
(* decision that is current when it commits.                               *)
(***************************************************************************)
THEOREM ActingOnCurrent == Spec => ActsOnCurrent
<1>1. Spec => [](TypeOK /\ LockInv /\ AppealInv)
  <2>1. TypeOK /\ AppealInv /\ [Next]_vars => AppealInv'
    BY AppealNext
  <2> QED
    BY <2>1, LockCorrect, AppealInit, PTL DEF Spec
<1>2. TypeOK /\ LockInv /\ AppealInv /\ [Next]_vars =>
        [/\ decisions' # decisions => decisions'[Len(decisions')].supersedes = current
         /\ \A p \in Appeals :
              appeals[p].status = "ABSENT" /\ appeals'[p].status # "ABSENT" =>
                appeals'[p].challenged = current]_vars
  BY ActsOnCurrentStep
<1> QED
  BY <1>1, <1>2, PTL DEF Spec, ActsOnCurrent

-----------------------------------------------------------------------------
(* The case implements the abstract history of decisions *)

(***************************************************************************)
(* A case starts with the empty history of the abstract ledger.            *)
(***************************************************************************)
LEMMA LedgerInit == Init => Ledger!Init
BY DEF Init, Ledger!Init

\* The history of decisions as the abstract specification sees it.
Seen == [i \in 1 .. Len(decisions) |->
           [source |-> decisions[i].source, supersedes |-> decisions[i].supersedes]]

(***************************************************************************)
(* Adding a decision to the case appends its image to the abstract ledger. *)
(***************************************************************************)
LEMMA LedgerAdds ==
  ASSUME TypeOK, NEW a \in Actors, NEW d \in Decision, AddDecision(a, d),
         view[a].current = current, d.supersedes = view[a].current
  PROVE  Seen' = Append(Seen, [source |-> d.source, supersedes |-> current])
<1> DEFINE n == Len(decisions)
           rec == [source |-> d.source, supersedes |-> current]
<1>1. /\ Len(decisions') = n + 1 /\ decisions'[n + 1] = d /\ n \in Nat
      /\ \A i \in 1 .. n : decisions'[i] = decisions[i]
  BY DecisionAdded DEF TypeOK
<1>2. Seen \in Seq([source: {"MACHINE", "HUMAN"}, supersedes: Nat]) /\ Len(Seen) = n
  <2>1. \A i \in 1 .. n : [source |-> decisions[i].source,
                           supersedes |-> decisions[i].supersedes]
                          \in [source: {"MACHINE", "HUMAN"}, supersedes: Nat]
    <3>1. \A i \in 1 .. n : decisions[i] \in Decision
      BY DEF TypeOK
    <3> HIDE DEF n
    <3> QED
      BY <3>1 DEF Decision
  <2> QED
    BY <1>1, <2>1 DEF Seen
<1>3. Append(Seen, rec) = [i \in 1 .. n + 1 |-> IF i = n + 1 THEN rec ELSE Seen[i]]
  BY <1>1, <1>2
<1>4. Seen' = [i \in 1 .. n + 1 |->
                 [source |-> decisions'[i].source, supersedes |-> decisions'[i].supersedes]]
  BY <1>1 DEF Seen
<1> QED
  BY <1>1, <1>3, <1>4 DEF Seen

(***************************************************************************)
(* Every step of the case is a step of the abstract history or leaves it   *)
(* alone.                                                                  *)
(***************************************************************************)
LEMMA LedgerStep ==
  ASSUME TypeOK, LockInv, [Next]_vars
  PROVE  [Ledger!Next]_(<<Seen, current>>)
<1> USE DEF Seen
<1>1. Len(Seen) = Len(decisions)
  BY DEF TypeOK
<1>2. ASSUME NEW a \in Actors, NEW d \in Decision, AddDecision(a, d),
             view[a].current = current, d.supersedes = view[a].current,
             d.source = "HUMAN" => current # 0,
             d.source = "MACHINE" => ~HumanStands(a)
      PROVE  Ledger!Next
  <2>1. /\ Seen' = Append(Seen, [source |-> d.source, supersedes |-> current])
        /\ current' = Len(Seen) + 1
    BY <1>1, <1>2, LedgerAdds, DecisionAdded
  <2>2. d.source \in {"MACHINE", "HUMAN"}
    BY DEF Decision
  <2>3. d.source = "MACHINE" => ~Ledger!CurrentIsHuman
    BY <1>2 DEF Ledger!CurrentIsHuman, HumanStands, TypeOK
  <2>4. Ledger!Decide(d.source)
    BY <1>2, <2>1, <2>3 DEF Ledger!Decide
  <2> QED
    BY <2>2, <2>4 DEF Ledger!Next, Ledger!Source
<1>3. ASSUME NEW a \in Actors, EvaluateAgain(a) PROVE Ledger!Next
  <2>1. /\ UNCHANGED Seen
        /\ \E i \in 1 .. Len(Seen) : Seen[i].source = "MACHINE" /\ current' = i
    BY <1>1, <1>3 DEF EvaluateAgain, SameEvaluation
  <2> QED
    BY <2>1 DEF Ledger!Next, Ledger!Reinstate
<1>4. ASSUME NEW a \in Actors, CreateReview(a), view[a].current = current
      PROVE  Ledger!Next
  <2>1. PICK d \in Decision : /\ AddDecision(a, d)
                              /\ d.source = "HUMAN"
                              /\ d.supersedes = view[a].current
    BY <1>4, ReviewCreated
  <2>2. current # 0
    BY <1>4, ReviewCreated
  <2> QED
    BY <1>2, <1>4, <2>1, <2>2
<1>5. ASSUME NEW a \in Actors, EvaluateNew(a), view[a].current = current
      PROVE  Ledger!Next
  <2>1. PICK d \in Decision : /\ AddDecision(a, d)
                              /\ d.source = "MACHINE"
                              /\ d.supersedes = view[a].current
    BY <1>5, EvaluationAdded
  <2>2. ~HumanStands(a)
    BY <1>5, EvaluationAdded
  <2> QED
    BY <1>2, <1>5, <2>1, <2>2
<1>6. ASSUME NEW a \in Actors, Act(a)
      PROVE  \/ UNCHANGED <<decisions, current>>
             \/ CreateReview(a) /\ view[a].current = current
             \/ EvaluateNew(a) /\ view[a].current = current
             \/ EvaluateAgain(a)
  BY <1>6 DEF Act, Ask, LockAppeal, LockCase, Lock, StartEvaluation, Drop, SubmitReview,
              ResolveAppeal, SubmitAppeal, EvaluateNew, MayEvaluate, records, LockInv
<1>7. CASE UNCHANGED <<decisions, current>>
  BY <1>7
<1>8. CASE Environment \/ UNCHANGED vars
  BY <1>7, <1>8 DEF Environment, AgentPrepares, AgentWrites, InputChanges,
                    Surroundings, records, vars
<1> QED
  BY <1>3, <1>4, <1>5, <1>6, <1>7, <1>8 DEF Next

(***************************************************************************)
(* The formal decisions of a case keep the promise of DecisionLedger for   *)
(* any number of requests, keys, appeals and inputs.                       *)
(***************************************************************************)
THEOREM CaseImplementsLedger == Spec => ImplementsLedger
<1>1. Init => Ledger!Init
  BY LedgerInit
<1>2. TypeOK /\ LockInv /\ [Next]_vars => [Ledger!Next]_(<<Seen, current>>)
  BY LedgerStep
<1>3. Spec => [](TypeOK /\ LockInv)
  BY LockCorrect
<1> QED
  BY <1>1, <1>2, <1>3, PTL DEF Spec, ImplementsLedger, Ledger!Spec, Seen

-----------------------------------------------------------------------------
(* Reviews, appeals, results and evidence *)

\* The kinds of steps that write rows, with what each writes.
LEMMA StepKinds ==
  ASSUME TypeOK, LockInv, [Next]_vars
  PROVE  \/ Quiet
         \/ \E a \in Actors : CreateReview(a) /\ (UNCHANGED appeals \/ ResolveAppeal(a))
                              /\ ask[a].key \in ReviewKeys
         \/ \E a \in Actors : SubmitAppeal(a)
         \/ \E a \in Actors : EvaluateAgain(a)
         \/ \E a \in Actors : EvaluateNew(a)
<1>1. ASSUME NEW a \in Actors, Act(a)
      PROVE  \/ Quiet \/ SubmitAppeal(a) \/ EvaluateAgain(a) \/ EvaluateNew(a)
             \/ CreateReview(a) /\ (UNCHANGED appeals \/ ResolveAppeal(a))
                /\ ask[a].key \in ReviewKeys
  BY <1>1, RequestFields
     DEF Act, Ask, LockAppeal, LockCase, Lock, StartEvaluation, Drop, SubmitReview,
         ResolveAppeal, records, Quiet
<1>2. CASE Environment \/ UNCHANGED vars
  BY <1>2 DEF Environment, AgentPrepares, AgentWrites, InputChanges,
              Surroundings, records, vars, Quiet
<1> QED
  BY <1>1, <1>2 DEF Next

(***************************************************************************)
(* Every step keeps human decisions and reviews matched: a review writes   *)
(* one of each, under a key that no review has.                            *)
(***************************************************************************)
LEMMA ReviewsMatchNext ==
  ASSUME TypeOK, LockInv, ReviewsMatchDecisions, [Next]_vars
  PROVE  ReviewsMatchDecisions'
<1> DEFINE n == Len(decisions) + 1
<1>1. CASE UNCHANGED <<decisions, reviews>>
  BY <1>1 DEF ReviewsMatchDecisions
<1>2. ASSUME NEW a \in Actors, CreateReview(a) PROVE ReviewsMatchDecisions'
  <2> DEFINE q == [key |-> ask[a].key, reviewed |-> view[a].current, decision |-> n]
  <2>1. PICK d \in Decision : /\ AddDecision(a, d)
                              /\ d.source = "HUMAN"
                              /\ d.supersedes = view[a].current
    BY <1>2, ReviewCreated
  <2>2. /\ Len(decisions') = n /\ decisions'[n] = d
        /\ \A i \in 1 .. Len(decisions) : decisions'[i] = decisions[i]
    BY <2>1, DecisionAdded
  <2>3. /\ reviews' = reviews \cup {q}
        /\ \A r \in reviews : r.key # ask[a].key
    BY <1>2, ReviewCreated DEF KeyUsed
  <2>4. Len(decisions) \in Nat /\ \A r \in reviews : r.decision \in 1 .. Len(decisions)
    BY DEF TypeOK
  <2>5. \A i \in 1 .. n : decisions'[i].source = "HUMAN" =>
          \E r \in reviews' : r.decision = i
    <3>1. \A i \in 1 .. Len(decisions) : decisions[i].source = "HUMAN" =>
            \E r \in reviews : r.decision = i
      BY DEF ReviewsMatchDecisions
    <3>2. q \in reviews' /\ q.decision = n
      BY <2>3
    <3>3. \A r \in reviews : r \in reviews'
      BY <2>3
    <3>4. \A i \in 1 .. n : i = n \/ i \in 1 .. Len(decisions)
      BY <2>4
    <3> HIDE DEF q, n
    <3> QED
      BY <2>2, <3>1, <3>2, <3>3, <3>4
  <2>6. ASSUME NEW r \in reviews'
        PROVE  /\ decisions'[r.decision].source = "HUMAN"
               /\ decisions'[r.decision].supersedes = r.reviewed
               /\ \A o \in reviews' : o.key = r.key \/ o.decision = r.decision => o = r
    <3>1. CASE r = q
      BY <2>1, <2>2, <2>3, <2>4, <3>1
    <3>2. CASE r \in reviews
      BY <2>2, <2>3, <2>4, <3>2 DEF ReviewsMatchDecisions
    <3> QED
      BY <2>3, <3>1, <3>2
  <2> QED
    BY <2>2, <2>5, <2>6 DEF ReviewsMatchDecisions
<1>3. ASSUME NEW a \in Actors, EvaluateNew(a) PROVE ReviewsMatchDecisions'
  <2>1. PICK d \in Decision : AddDecision(a, d) /\ d.source = "MACHINE"
    BY <1>3, EvaluationAdded
  <2>2. /\ Len(decisions') = n /\ decisions'[n] = d /\ reviews' = reviews
        /\ \A i \in 1 .. Len(decisions) : decisions'[i] = decisions[i]
    BY <1>3, <2>1, DecisionAdded, EvaluationAdded
  <2>3. Len(decisions) \in Nat /\ \A r \in reviews : r.decision \in 1 .. Len(decisions)
    BY DEF TypeOK
  <2>4. \A i \in 1 .. n : decisions'[i].source = "HUMAN" => i \in 1 .. Len(decisions)
    BY <2>1, <2>2, <2>3
  <2> QED
    BY <2>2, <2>3, <2>4 DEF ReviewsMatchDecisions
<1> QED
  BY <1>1, <1>2, <1>3, StepKinds DEF SubmitAppeal, EvaluateAgain, Quiet, records

(***************************************************************************)
(* Human decisions and reviews match one to one.                           *)
(***************************************************************************)
THEOREM ReviewsMatch == Spec => []ReviewsMatchDecisions
<1>1. Init => ReviewsMatchDecisions
  BY DEF Init, ReviewsMatchDecisions
<1>2. TypeOK /\ LockInv /\ ReviewsMatchDecisions /\ [Next]_vars => ReviewsMatchDecisions'
  BY ReviewsMatchNext
<1> QED
  BY <1>1, <1>2, LockCorrect, PTL DEF Spec

(***************************************************************************)
(* Every step keeps the results and the current machine decision together. *)
(***************************************************************************)
LEMMA ResultsMatchNext ==
  ASSUME TypeOK, LockInv, ResultsMatchDecision, [Next]_vars
  PROVE  ResultsMatchDecision'
<1>1. CASE UNCHANGED <<decisions, current, results>>
  BY <1>1 DEF ResultsMatchDecision
<1>2. ASSUME NEW a \in Actors, CreateReview(a) PROVE ResultsMatchDecision'
  <2>1. PICK d \in Decision : AddDecision(a, d) /\ d.source = "HUMAN"
    BY <1>2, ReviewCreated
  <2> QED
    BY <2>1, DecisionAdded DEF ResultsMatchDecision
<1>3. ASSUME NEW a \in Actors, EvaluateNew(a) PROVE ResultsMatchDecision'
  <2>1. PICK d \in Decision : AddDecision(a, d) /\ d.results = input
    BY <1>3, EvaluationAdded
  <2>2. decisions'[current'].results = results'
    BY <1>3, <2>1, DecisionAdded, EvaluationAdded
  <2> QED
    BY <2>2 DEF ResultsMatchDecision
<1>4. ASSUME NEW a \in Actors, EvaluateAgain(a) PROVE ResultsMatchDecision'
  <2>1. PICK i \in 1 .. Len(decisions) :
          SameEvaluation(decisions[i], Evaluation) /\ current' = i
    BY <1>4 DEF EvaluateAgain
  <2>2. Evaluation.results = input
    BY DEF Evaluation
  <2>3. results' = input /\ decisions' = decisions
    BY <1>4 DEF EvaluateAgain
  <2> QED
    BY <2>1, <2>2, <2>3 DEF ResultsMatchDecision, SameEvaluation
<1> QED
  BY <1>1, <1>2, <1>3, <1>4, StepKinds DEF SubmitAppeal, Quiet, records

(***************************************************************************)
(* A current machine decision rests on the requirements' current results.  *)
(***************************************************************************)
THEOREM ResultsMatch == Spec => []ResultsMatchDecision
<1>1. Init => ResultsMatchDecision
  BY DEF Init, ResultsMatchDecision
<1>2. TypeOK /\ LockInv /\ ResultsMatchDecision /\ [Next]_vars => ResultsMatchDecision'
  BY ResultsMatchNext
<1> QED
  BY <1>1, <1>2, LockCorrect, PTL DEF Spec

(***************************************************************************)
(* Every decision added as conclusive cites evidence, and no decision is   *)
(* changed afterwards.                                                     *)
(***************************************************************************)
LEMMA ConclusiveCitesNext ==
  ASSUME TypeOK, LockInv, ConclusiveCitesEvidence, [Next]_vars
  PROVE  ConclusiveCitesEvidence'
<1>1. CASE UNCHANGED decisions
  BY <1>1 DEF ConclusiveCitesEvidence
<1>2. ASSUME NEW a \in Actors, CreateReview(a) \/ EvaluateNew(a)
      PROVE  ConclusiveCitesEvidence'
  <2>1. PICK d \in Decision :
          AddDecision(a, d) /\ (d.verdict = "CONCLUSIVE" => d.evidence)
    BY <1>2, ReviewCreated, EvaluationAdded
  <2>2. /\ Len(decisions') = Len(decisions) + 1 /\ Len(decisions) \in Nat
        /\ decisions'[Len(decisions) + 1] = d
        /\ \A i \in 1 .. Len(decisions) : decisions'[i] = decisions[i]
    BY <2>1, DecisionAdded DEF TypeOK
  <2>3. \A i \in 1 .. Len(decisions') : i \in 1 .. Len(decisions) \/ i = Len(decisions) + 1
    BY <2>2
  <2> QED
    BY <2>1, <2>2, <2>3 DEF ConclusiveCitesEvidence
<1> QED
  BY <1>1, <1>2, StepKinds DEF SubmitAppeal, EvaluateAgain, Quiet, records

(***************************************************************************)
(* Every conclusive decision cites evidence.                               *)
(***************************************************************************)
THEOREM ConclusiveCites == Spec => []ConclusiveCitesEvidence
<1>1. Init => ConclusiveCitesEvidence
  BY DEF Init, ConclusiveCitesEvidence
<1>2. TypeOK /\ LockInv /\ ConclusiveCitesEvidence /\ [Next]_vars =>
        ConclusiveCitesEvidence'
  BY ConclusiveCitesNext
<1> QED
  BY <1>1, <1>2, LockCorrect, PTL DEF Spec

(***************************************************************************)
(* A resolution names the human decision that is added with it.            *)
(***************************************************************************)
LEMMA AppealsAnsweredNext ==
  ASSUME TypeOK, LockInv, AppealInv, AppealsAreAnswered, [Next]_vars
  PROVE  AppealsAreAnswered'
<1> DEFINE Good(p) == /\ appeals[p].resolution > appeals[p].challenged
                      /\ appeals[p].challenged # 0
                      /\ decisions[appeals[p].resolution].source = "HUMAN"
<1>1. \A p \in Appeals : /\ appeals[p].resolution \in 0 .. Len(decisions)
                         /\ appeals[p].challenged \in 0 .. Len(decisions)
  BY DEF TypeOK
<1>2. Len(decisions) \in Nat
  BY DEF TypeOK
<1>3. \A p \in Appeals : appeals[p].status = "RESOLVED" =>
        Good(p) /\ appeals[p].resolution \in 1 .. Len(decisions)
  BY <1>1, <1>2 DEF AppealsAreAnswered
<1>4. ASSUME UNCHANGED appeals,
             \A i \in 1 .. Len(decisions) : decisions'[i] = decisions[i]
      PROVE  AppealsAreAnswered'
  BY <1>3, <1>4 DEF AppealsAreAnswered
<1>5. ASSUME NEW a \in Actors, NEW d \in Decision, AddDecision(a, d), UNCHANGED appeals
      PROVE  AppealsAreAnswered'
  BY <1>4, <1>5, DecisionAdded
<1>6. ASSUME NEW a \in Actors, SubmitAppeal(a) PROVE AppealsAreAnswered'
  <2>1. /\ UNCHANGED decisions
        /\ ask[a].appeal \in Appeals
        /\ appeals' = [appeals EXCEPT ![ask[a].appeal] =
             [status |-> "OPEN", challenged |-> view[a].current, resolution |-> 0]]
    BY <1>6, RequestFields DEF SubmitAppeal, records
  <2>2. \A p \in Appeals : appeals'[p].status = "RESOLVED" => appeals'[p] = appeals[p]
    BY <2>1 DEF TypeOK
  <2> QED
    BY <1>3, <2>1, <2>2 DEF AppealsAreAnswered
<1>7. ASSUME NEW a \in Actors, CreateReview(a), ResolveAppeal(a)
      PROVE  AppealsAreAnswered'
  <2> DEFINE p0 == ask[a].appeal
             n == Len(decisions) + 1
  <2>1. PICK d \in Decision : AddDecision(a, d) /\ d.source = "HUMAN"
    BY <1>7, ReviewCreated
  <2>2. /\ decisions'[n] = d
        /\ \A i \in 1 .. Len(decisions) : decisions'[i] = decisions[i]
    BY <2>1, DecisionAdded
  <2>3. /\ p0 \in Appeals
        /\ appeals' = [appeals EXCEPT ![p0].status = "RESOLVED", ![p0].resolution = n]
    BY <1>7, RequestFields, ReviewCreated DEF ResolveAppeal
  <2>4. appeals[p0].challenged # 0
    BY <1>7, <2>3 DEF AppealInv, Resolving, ResolveAppeal
  <2>5. \A p \in Appeals \ {p0} : appeals'[p] = appeals[p]
    BY <2>3 DEF TypeOK
  <2>6. appeals'[p0].challenged = appeals[p0].challenged /\ appeals'[p0].resolution = n
    BY <2>3 DEF TypeOK
  <2>7. /\ appeals'[p0].resolution > appeals'[p0].challenged
        /\ appeals'[p0].challenged # 0
        /\ decisions'[appeals'[p0].resolution].source = "HUMAN"
    BY <1>1, <1>2, <2>1, <2>2, <2>3, <2>4, <2>6
  <2> HIDE DEF p0, n
  <2>8. ASSUME NEW p \in Appeals \ {p0}, appeals'[p].status = "RESOLVED"
        PROVE  Good(p)'
    BY <1>3, <2>2, <2>5, <2>8
  <2> QED
    BY <2>7, <2>8 DEF AppealsAreAnswered
<1>8. ASSUME NEW a \in Actors, CreateReview(a), UNCHANGED appeals
      PROVE  AppealsAreAnswered'
  BY <1>5, <1>8, ReviewCreated
<1>9. ASSUME NEW a \in Actors, EvaluateNew(a) PROVE AppealsAreAnswered'
  BY <1>5, <1>9, EvaluationAdded
<1>10. ASSUME NEW a \in Actors, EvaluateAgain(a) PROVE AppealsAreAnswered'
  BY <1>4, <1>10 DEF EvaluateAgain
<1>11. CASE Quiet
  BY <1>4, <1>11 DEF Quiet
<1> QED
  BY <1>6, <1>7, <1>8, <1>9, <1>10, <1>11, StepKinds

(***************************************************************************)
(* An appeal is resolved by a human decision that is newer than the one it *)
(* challenges.                                                             *)
(***************************************************************************)
THEOREM AppealsAnswered == Spec => []AppealsAreAnswered
<1>1. Init => AppealsAreAnswered
  BY DEF Init, AppealsAreAnswered, NoAppeal
<1>2. TypeOK /\ AppealInv /\ [Next]_vars => AppealInv'
  BY AppealNext
<1>3. TypeOK /\ LockInv /\ AppealInv /\ AppealsAreAnswered /\ [Next]_vars =>
        AppealsAreAnswered'
  BY AppealsAnsweredNext
<1> QED
  BY <1>1, <1>2, <1>3, AppealInit, LockCorrect, PTL DEF Spec

(***************************************************************************)
(* No step touches an appeal that is resolved.                             *)
(***************************************************************************)
LEMMA ResolutionKept ==
  ASSUME TypeOK, AppealInv, [Next]_vars
  PROVE  \A p \in Appeals : appeals[p].status = "RESOLVED" => appeals'[p] = appeals[p]
<1>1. ASSUME NEW a \in Actors, SubmitAppeal(a), NEW p \in Appeals,
             appeals[p].status = "RESOLVED"
      PROVE  appeals'[p] = appeals[p]
  BY <1>1, RequestFields DEF SubmitAppeal, TypeOK
<1>2. ASSUME NEW a \in Actors, ResolveAppeal(a), NEW p \in Appeals,
             appeals[p].status = "RESOLVED"
      PROVE  appeals'[p] = appeals[p]
  <2>1. appeals[ask[a].appeal].status = "OPEN"
    BY <1>2 DEF ResolveAppeal, AppealInv, Resolving
  <2> QED
    BY <1>2, <2>1 DEF ResolveAppeal, TypeOK
<1>3. ASSUME NEW a \in Actors, Act(a)
      PROVE  UNCHANGED appeals \/ SubmitAppeal(a) \/ ResolveAppeal(a)
  BY <1>3 DEF Act, Ask, LockAppeal, LockCase, Lock, StartEvaluation, Drop, SubmitReview,
              EvaluateAgain, EvaluateNew
<1>4. CASE Environment \/ UNCHANGED vars
  BY <1>4 DEF Environment, AgentPrepares, AgentWrites, InputChanges, Surroundings, vars
<1> QED
  BY <1>1, <1>2, <1>3, <1>4 DEF Next

(***************************************************************************)
(* An appeal is resolved once.                                             *)
(***************************************************************************)
THEOREM ResolvedOnce == Spec => ResolutionsAreFinal
<1>1. TypeOK /\ AppealInv /\ [Next]_vars => AppealInv'
  BY AppealNext
<1>2. TypeOK /\ AppealInv /\ [Next]_vars =>
        [\A p \in Appeals : appeals[p].status = "RESOLVED" => appeals'[p] = appeals[p]]_vars
  BY ResolutionKept
<1> QED
  BY <1>1, <1>2, AppealInit, TypeCorrect, PTL DEF Spec, ResolutionsAreFinal

=============================================================================
