------------------------- MODULE PolicyVersionsProofs -------------------------
(***************************************************************************)
(* Proofs about PolicyVersions, for any documents, requirements, editors,  *)
(* creators and clients.                                                   *)
(***************************************************************************)
EXTENDS PolicyVersions, TLAPS

-----------------------------------------------------------------------------
(* Types *)

LEMMA NoCompiledTyped == NoCompiled \in Compiled
BY DEF NoCompiled, Compiled, Requirements

LEMMA InitTyped == Init => TypeOK
<1> SUFFICES ASSUME Init
             PROVE  TypeOK
  OBVIOUS
<1>1. NoRow \in Row
  BY NoCompiledTyped DEF NoRow, Row, Texts
<1>2. NoCase \in Case
  BY NoCompiledTyped DEF NoCase, Case, Compiled
<1>3. QED
  BY <1>1, <1>2 DEF Init, TypeOK, Edit, Creation, Planning

LEMMA UpdatedTyped ==
  ASSUME NEW row \in Row, NEW read \in Row, NEW new \in Row
  PROVE  Updated(row, read, new) \in Row
BY DEF Updated, Changed, Row

LEMMA RowOfTyped ==
  ASSUME NEW d \in Documents, NEW lifecycle \in {"DRAFT", "PUBLISHED"}
  PROVE  RowOf(d, lifecycle) \in Row /\ d.version \in Version
BY PolicyConstants DEF RowOf, Row, Texts

LEMMA SaveTyped ==
  ASSUME TypeOK, NEW e \in Editors, StartSave(e) \/ WriteRow(e) \/ DropEdit(e)
  PROVE  TypeOK'
<1>1. CASE StartSave(e)
  <2>1. PICK d \in Documents, lifecycle \in {"DRAFT", "PUBLISHED"} :
          editing' = [editing EXCEPT ![e] =
                        [pc |-> "writing", document |-> d, lifecycle |-> lifecycle,
                         read |-> policy[d.version]]]
    BY <1>1 DEF StartSave
  <2>2. policy[d.version] \in Row
    BY RowOfTyped DEF TypeOK
  <2>3. [pc |-> "writing", document |-> d, lifecycle |-> lifecycle,
         read |-> policy[d.version]] \in Edit
    BY <2>2 DEF Edit
  <2>4. editing' \in [Editors -> Edit]
    BY <2>1, <2>3 DEF TypeOK
  <2>5. QED
    BY <1>1, <2>4 DEF StartSave, TypeOK
<1>2. CASE WriteRow(e)
  <2>1. /\ editing[e].document \in Documents /\ editing[e].lifecycle \in {"DRAFT", "PUBLISHED"}
        /\ editing[e].read \in Row
    BY <1>2 DEF WriteRow, TypeOK, Edit, Idle
  <2>2. policy' \in [Version -> Row]
    BY <1>2, <2>1, UpdatedTyped, RowOfTyped DEF WriteRow, TypeOK
  <2>3. editing' \in [Editors -> Edit]
    BY <1>2 DEF WriteRow, TypeOK, Edit
  <2>4. QED
    BY <1>2, <2>2, <2>3 DEF WriteRow, TypeOK
<1>3. CASE DropEdit(e)
  <2>1. editing' \in [Editors -> Edit]
    BY <1>3 DEF DropEdit, TypeOK, Edit
  <2>2. QED
    BY <1>3, <2>1 DEF DropEdit, TypeOK
<1>4. QED
  BY <1>1, <1>2, <1>3

LEMMA CaseTyped ==
  ASSUME TypeOK,
         \/ \E c \in Creators : StartCase(c) \/ InsertCase(c) \/ DropCase(c)
         \/ \E n \in Version : CaseMoves(n)
  PROVE  TypeOK'
<1>1. ASSUME NEW c \in Creators, StartCase(c)
      PROVE  TypeOK'
  <2>1. PICK n \in Version :
          creating' = [creating EXCEPT ![c] =
                         [pc |-> "inserting", version |-> n,
                          requirements |-> policy[n].compiled.requirements]]
    BY <1>1 DEF StartCase
  <2>2. policy[n].compiled.requirements \in Requirements
    BY DEF TypeOK, Row, Compiled
  <2>3. [pc |-> "inserting", version |-> n,
         requirements |-> policy[n].compiled.requirements] \in Creation
    BY <2>2 DEF Creation
  <2>4. creating' \in [Creators -> Creation]
    BY <2>1, <2>3 DEF TypeOK
  <2>5. QED
    BY <1>1, <2>4 DEF StartCase, TypeOK
<1>2. ASSUME NEW c \in Creators, InsertCase(c)
      PROVE  TypeOK'
  <2>1. creating[c].requirements \in Requirements /\ creating[c].version \in Version
    BY <1>2 DEF InsertCase, TypeOK, Creation, Idle
  <2>2. [exists |-> TRUE, requirements |-> creating[c].requirements,
         decided |-> FALSE, appealed |-> FALSE] \in Case
    BY <2>1 DEF Case
  <2>3. cases' \in [Version -> Case] /\ creating' \in [Creators -> Creation]
    BY <1>2, <2>2 DEF InsertCase, TypeOK, Creation
  <2>4. QED
    BY <1>2, <2>3 DEF InsertCase, TypeOK
<1>3. ASSUME NEW c \in Creators, DropCase(c)
      PROVE  TypeOK'
  <2>1. creating' \in [Creators -> Creation]
    BY <1>3 DEF DropCase, TypeOK, Creation
  <2>2. QED
    BY <1>3, <2>1 DEF DropCase, TypeOK
<1>4. ASSUME NEW n \in Version, CaseMoves(n)
      PROVE  TypeOK'
  <2>1. cases[n] \in Case
    BY DEF TypeOK
  <2>2. [cases[n] EXCEPT !.decided = TRUE] \in Case
        /\ [cases[n] EXCEPT !.appealed = ~@] \in Case
    BY <2>1 DEF Case
  <2>3. PICK moved \in Case : cases' = [cases EXCEPT ![n] = moved]
    BY <1>4, <2>2 DEF CaseMoves
  <2>4. QED
    BY <1>4, <2>3 DEF CaseMoves, TypeOK
<1>5. QED
  BY <1>1, <1>2, <1>3, <1>4

LEMMA PlanTyped ==
  ASSUME NEW again
  PROVE  PlanOf(again) \in Plan
<1> DEFINE before == policy[Source].compiled.requirements
           after == policy[Target].compiled.requirements
           same == Unchanged(before, after)
           seen == IF again THEN same \cap Visual \cap KeysOf(cases[Source].requirements) ELSE {}
           changed == Modified(before, after) \cup Added(before, after)
<1>1. same \subseteq Keys /\ seen \subseteq Keys /\ changed \subseteq Keys
      /\ Removed(before, after) \subseteq Keys /\ Modified(before, after) \subseteq Keys
  BY DEF Unchanged, Modified, Added, Removed, KeysOf
<1>2. (~cases[Source].decided \/ cases[Source].appealed) \in BOOLEAN
  OBVIOUS
<1>3. QED
  BY <1>1, <1>2 DEF PlanOf, Plan

LEMMA PlanningTyped ==
  ASSUME TypeOK, NEW r \in Clients,
         AskPreview(r) \/ StartPrepare(r) \/ InsertItems(r) \/ DropPlan(r)
  PROVE  TypeOK'
<1>1. CASE AskPreview(r)
  <2>1. PICK again \in BOOLEAN :
          planning' = [planning EXCEPT ![r] =
                         [pc |-> "previewed", again |-> again, plans |-> Preview(again)]]
    BY <1>1 DEF AskPreview
  <2>2. Preview(again) \subseteq Plan
    BY PlanTyped DEF Preview
  <2>3. [pc |-> "previewed", again |-> again, plans |-> Preview(again)] \in Planning
    BY <2>2 DEF Planning
  <2>4. planning' \in [Clients -> Planning]
    BY <2>1, <2>3 DEF TypeOK
  <2>5. QED
    BY <1>1, <2>4 DEF AskPreview, TypeOK
<1>2. CASE StartPrepare(r)
  <2>1. planning[r] \in [pc: {"previewed", "preparing"}, again: BOOLEAN, plans: SUBSET Plan]
    BY <1>2 DEF StartPrepare, TypeOK, Planning, Idle
  <2>2. [planning[r] EXCEPT !.pc = "preparing"] \in Planning
    BY <2>1 DEF Planning
  <2>3. planning' \in [Clients -> Planning]
    BY <1>2, <2>2 DEF StartPrepare, TypeOK
  <2>4. QED
    BY <1>2, <2>3 DEF StartPrepare, TypeOK
<1>3. CASE InsertItems(r)
  <2>1. planning[r].plans \subseteq Plan
    BY <1>3 DEF InsertItems, TypeOK, Planning, Idle
  <2>2. planning' \in [Clients -> Planning]
    BY <1>3 DEF InsertItems, TypeOK, Planning
  <2>3. QED
    BY <1>3, <2>1, <2>2 DEF InsertItems, TypeOK
<1>4. CASE DropPlan(r)
  <2>1. planning' \in [Clients -> Planning]
    BY <1>4 DEF DropPlan, TypeOK, Planning
  <2>2. QED
    BY <1>4, <2>1 DEF DropPlan, TypeOK
<1>5. QED
  BY <1>1, <1>2, <1>3, <1>4

LEMMA TypedStays == TypeOK /\ [Next]_vars => TypeOK'
<1> SUFFICES ASSUME TypeOK, [Next]_vars
             PROVE  TypeOK'
  OBVIOUS
<1>1. CASE UNCHANGED vars
  BY <1>1 DEF TypeOK, vars
<1>2. CASE Next
  BY <1>2, SaveTyped, CaseTyped, PlanningTyped DEF Next
<1>3. QED
  BY <1>1, <1>2

(***************************************************************************)
(* The rows and what the processes hold keep their types (save_policy,     *)
(* create_case, preview, prepare).                                         *)
(***************************************************************************)
THEOREM TypeCorrect == Spec => []TypeOK
BY InitTyped, TypedStays, PTL DEF Spec

-----------------------------------------------------------------------------
(* What is published stays *)

LEMMA WriteStands ==
  ASSUME TypeOK, [Next]_vars, NEW n \in Version, IsPublished(n)
  PROVE  policy'[n] = policy[n]
<1>1. ASSUME NEW e \in Editors, WriteRow(e)
      PROVE  policy'[n] = policy[n]
  <2>1. editing[e].document.version # n
    BY <1>1 DEF WriteRow, MayUpdate, Saved, IsPublished
  <2>2. policy' = [policy EXCEPT ![editing[e].document.version] =
                     policy'[editing[e].document.version]]
    BY <1>1, RowOfTyped DEF WriteRow, TypeOK, Edit, Idle
  <2>3. QED
    BY <2>1, <2>2 DEF TypeOK
<1>2. QED
  BY <1>1 DEF Next, vars, StartSave, DropEdit, StartCase, InsertCase, DropCase, CaseMoves,
              AskPreview, StartPrepare, InsertItems, DropPlan

(***************************************************************************)
(* No editor, whatever it read before, changes a row that is published     *)
(* (save_policy, protect_published_policy).                                *)
(***************************************************************************)
THEOREM PublishedProtected == Spec => PublishedStands
<1>1. TypeOK /\ [Next]_vars =>
        [\A n \in Version : IsPublished(n) => policy'[n] = policy[n]]_vars
  BY WriteStands
<1>2. QED
  BY <1>1, TypeCorrect, PTL DEF Spec, PublishedStands

-----------------------------------------------------------------------------
(* Texts and what they compile to *)

\* An update that finds the row as it was read writes all the columns.
LEMMA FreshUpdate ==
  ASSUME NEW row \in Row, NEW new \in Row
  PROVE  Updated(row, row, new) = new
<1>1. Updated(row, row, new) =
        [lifecycle |-> new.lifecycle, text |-> new.text, compiled |-> new.compiled]
  BY DEF Updated, Changed
<1>2. QED
  BY <1>1 DEF Row

\* What an editor writes is one document's, if the row is as it read it.
LEMMA FreshWrite ==
  ASSUME TypeOK, NEW e \in Editors, WriteRow(e)
  PROVE  LET d == editing[e].document IN
         /\ d \in Documents /\ d.version \in Version
         /\ \A n \in Version \ {d.version} : policy'[n] = policy[n]
         /\ editing[e].read = policy[d.version] \/ editing[e].read = NoRow =>
              policy'[d.version].text = d.text /\ policy'[d.version].compiled = d.compiled
<1> DEFINE d == editing[e].document
           new == RowOf(d, editing[e].lifecycle)
<1>1. /\ d \in Documents /\ editing[e].lifecycle \in {"DRAFT", "PUBLISHED"}
      /\ editing[e].read \in Row
  BY DEF WriteRow, TypeOK, Edit, Idle
<1>2. /\ d.version \in Version /\ new \in Row
      /\ new.text = d.text /\ new.compiled = d.compiled
  BY <1>1, RowOfTyped DEF RowOf
<1>3. policy[d.version] \in Row
  BY <1>2 DEF TypeOK
<1>4. \A n \in Version \ {d.version} : policy'[n] = policy[n]
  BY <1>2 DEF WriteRow, TypeOK
<1>5. CASE editing[e].read = NoRow
  BY <1>1, <1>2, <1>4, <1>5 DEF WriteRow, TypeOK
<1>6. CASE editing[e].read # NoRow /\ editing[e].read = policy[d.version]
  <2>1. policy'[d.version] = Updated(policy[d.version], policy[d.version], new)
    BY <1>2, <1>6 DEF WriteRow, TypeOK
  <2>2. policy'[d.version] = new
    BY <1>2, <1>3, <2>1, FreshUpdate
  <2>3. QED
    BY <1>1, <1>2, <1>4, <2>2
<1>7. QED
  BY <1>1, <1>2, <1>4, <1>5, <1>6

LEMMA StepWhole ==
  ASSUME TypeOK, [Next]_vars, NEW n \in Version, policy'[n] # policy[n]
  PROVE  IsWhole(n)' \/ WritesStale(n)
<1>1. PICK e \in Editors : WriteRow(e)
  BY DEF Next, vars, StartSave, DropEdit, StartCase, InsertCase, DropCase, CaseMoves,
         AskPreview, StartPrepare, InsertItems, DropPlan
<1>2. n = editing[e].document.version
  BY <1>1, FreshWrite
<1>3. CASE editing[e].read = policy[n] \/ editing[e].read = NoRow
  BY <1>1, <1>2, <1>3, FreshWrite DEF IsWhole
<1>4. CASE editing[e].read # policy[n]
  <2>1. editing[e].pc = "writing" /\ editing'[e].pc = Idle
    BY <1>1 DEF WriteRow, TypeOK
  <2>2. QED
    BY <1>2, <1>4, <2>1 DEF WritesStale
<1>5. QED
  BY <1>3, <1>4

(***************************************************************************)
(* A row changes to one document's text with what that text compiles to,   *)
(* unless the editor that writes it holds a row that has changed since it  *)
(* read it: only then may an update that leaves columns out mix two        *)
(* documents (save_policy).                                                *)
(***************************************************************************)
THEOREM RowsWhole == Spec => RowsAreWhole
<1>1. TypeOK /\ [Next]_vars =>
        [\A n \in Version : policy'[n] # policy[n] => IsWhole(n)' \/ WritesStale(n)]_vars
  BY StepWhole
<1>2. QED
  BY <1>1, TypeCorrect, PTL DEF Spec, RowsAreWhole

-----------------------------------------------------------------------------
(* Versions *)

\* An editor that found no row found all the rows before it.
EditsFit ==
  \A e \in Editors :
    editing[e].pc = "writing" =>
      IF editing[e].read = NoRow
      THEN \A m \in Version : m < editing[e].document.version => m \in Saved
      ELSE editing[e].document.version \in Saved

RowInv ==
  /\ TypeOK
  /\ \A n \in Version : n \notin Saved => policy[n] = NoRow
  /\ VersionsAreDense
  /\ EditsFit

LEMMA RowInit == Init => RowInv
<1> SUFFICES ASSUME Init
             PROVE  RowInv
  OBVIOUS
<1>1. Saved = {}
  BY DEF Init, Saved, NoRow
<1>2. QED
  BY <1>1, InitTyped DEF Init, RowInv, VersionsAreDense, EditsFit, Idle

\* Versions are integers, which the solver must be told of each time.
LEMMA VersionFacts ==
  ASSUME NEW n \in Version
  PROVE  /\ n \in Nat /\ 1 .. n \subseteq Version
         /\ \A m \in 1 .. n : m \in Version /\ (m = n \/ m < n)
         /\ \A m \in Version : m < n => m \in 1 .. n
BY PolicyConstants DEF Version

\* A row is written where it keeps the versions without a gap.
LEMMA WriteFits ==
  ASSUME RowInv, NEW e \in Editors, WriteRow(e)
  PROVE  /\ Saved' = Saved \cup {editing[e].document.version}
         /\ \A m \in Version : m < editing[e].document.version => m \in Saved
         /\ \A m \in Version : m # editing[e].document.version => policy'[m] = policy[m]
<1> DEFINE n == editing[e].document.version
           new == RowOf(editing[e].document, editing[e].lifecycle)
<1>1. /\ editing[e].document \in Documents /\ editing[e].lifecycle \in {"DRAFT", "PUBLISHED"}
      /\ editing[e].read \in Row /\ editing[e].pc = "writing"
  BY DEF WriteRow, RowInv, TypeOK, Edit, Idle
<1>2. n \in Version /\ new \in Row /\ new.lifecycle # "ABSENT"
  BY <1>1, RowOfTyped DEF RowOf
<1>3. \A m \in Version : m < n => m \in Saved
  <2>1. CASE editing[e].read = NoRow
    BY <1>1, <2>1 DEF RowInv, EditsFit
  <2>2. CASE editing[e].read # NoRow
    <3>1. n \in Saved
      BY <1>1, <2>2 DEF RowInv, EditsFit
    <3>2. QED
      BY <1>2, <3>1, VersionFacts DEF RowInv, VersionsAreDense
  <2>3. QED
    BY <2>1, <2>2
<1>4. \A m \in Version : m # n => policy'[m] = policy[m]
  BY <1>2 DEF WriteRow, RowInv, TypeOK
<1>5. policy'[n].lifecycle # "ABSENT"
  <2>1. CASE editing[e].read = NoRow
    BY <1>2, <2>1 DEF WriteRow, RowInv, TypeOK
  <2>2. CASE editing[e].read # NoRow
    <3>1. policy[n].lifecycle # "ABSENT"
      BY <1>1, <2>2 DEF RowInv, EditsFit, Saved
    <3>2. policy'[n] = Updated(policy[n], editing[e].read, new)
      BY <1>2, <2>2 DEF WriteRow, RowInv, TypeOK
    <3>3. QED
      BY <1>2, <3>1, <3>2 DEF Updated, Changed
  <2>3. QED
    BY <2>1, <2>2
<1>6. Saved' = Saved \cup {n}
  BY <1>2, <1>4, <1>5 DEF Saved
<1>7. QED
  BY <1>3, <1>4, <1>6

LEMMA RowStays == RowInv /\ [Next]_vars => RowInv'
<1> SUFFICES ASSUME RowInv, [Next]_vars
             PROVE  RowInv'
  OBVIOUS
<1>0. TypeOK'
  BY TypedStays DEF RowInv
<1>1. CASE UNCHANGED <<policy, editing>>
  <2>1. Saved' = Saved
    BY <1>1 DEF Saved
  <2>2. VersionsAreDense' /\ EditsFit'
    BY <1>1, <2>1 DEF RowInv, VersionsAreDense, EditsFit
  <2>3. QED
    BY <1>0, <1>1, <2>1, <2>2 DEF RowInv
<1>2. ASSUME NEW e \in Editors, StartSave(e)
      PROVE  RowInv'
  <2>1. Saved' = Saved /\ policy' = policy
    BY <1>2 DEF StartSave, Saved
  <2>2. PICK d \in Documents, lifecycle \in {"DRAFT", "PUBLISHED"} :
          /\ d.version \notin Saved => IsNext(d.version)
          /\ editing' = [editing EXCEPT ![e] =
                           [pc |-> "writing", document |-> d, lifecycle |-> lifecycle,
                            read |-> policy[d.version]]]
    BY <1>2 DEF StartSave
  <2>3. d.version \in Version
    BY RowOfTyped
  <2>4. editing'[e].read = policy[d.version] /\ editing'[e].document.version = d.version
    BY <2>2 DEF RowInv, TypeOK
  <2>5. policy[d.version] # NoRow => d.version \in Saved
    BY <2>3 DEF RowInv
  <2>6. policy[d.version] = NoRow => \A m \in Version : m < d.version => m \in Saved
    <3>1. SUFFICES ASSUME policy[d.version] = NoRow, NEW m \in Version, m < d.version
                   PROVE  m \in Saved
      OBVIOUS
    <3>2. NoRow.lifecycle = "ABSENT"
      BY DEF NoRow
    <3>3. d.version \notin Saved
      BY <3>1, <3>2 DEF Saved
    <3>4. d.version = 1 \/ d.version - 1 \in Saved
      BY <2>2, <3>3 DEF IsNext
    <3>5. d.version \in Nat /\ m \in Nat /\ m >= 1
      BY <2>3, <3>1 DEF Version
    <3>6. d.version - 1 \in Saved /\ m \in 1 .. d.version - 1
      BY <3>1, <3>4, <3>5
    <3>7. QED
      BY <3>6 DEF RowInv, VersionsAreDense
  <2>7. EditsFit'
    BY <2>1, <2>2, <2>4, <2>5, <2>6 DEF RowInv, EditsFit, TypeOK
  <2>8. QED
    BY <1>0, <2>1, <2>7 DEF RowInv, VersionsAreDense
<1>3. ASSUME NEW e \in Editors, WriteRow(e)
      PROVE  RowInv'
  <2> DEFINE n == editing[e].document.version
  <2>1. n \in Version
    BY <1>3, RowOfTyped DEF WriteRow, RowInv, TypeOK, Edit, Idle
  <2>2. VersionsAreDense'
    <3>1. SUFFICES ASSUME NEW k \in Saved', NEW m \in 1 .. k
                   PROVE  m \in Saved'
      BY DEF VersionsAreDense
    <3>2. CASE k \in Saved
      BY <1>3, <3>1, <3>2, WriteFits DEF RowInv, VersionsAreDense
    <3>3. CASE k = n
      BY <1>3, <2>1, <3>1, <3>3, WriteFits, VersionFacts
    <3>4. QED
      BY <1>3, <3>1, <3>2, <3>3, WriteFits
  <2>3. EditsFit'
    <3>1. SUFFICES ASSUME NEW o \in Editors, editing'[o].pc = "writing"
                   PROVE  IF editing'[o].read = NoRow
                          THEN \A m \in Version : m < editing'[o].document.version => m \in Saved'
                          ELSE editing'[o].document.version \in Saved'
      BY DEF EditsFit
    <3>2. editing'[o] = editing[o]
      BY <1>3, <3>1 DEF WriteRow, RowInv, TypeOK, Idle
    <3>3. QED
      BY <1>3, <3>1, <3>2, WriteFits DEF RowInv, EditsFit
  <2>4. \A m \in Version : m \notin Saved' => policy'[m] = NoRow
    BY <1>3, WriteFits DEF RowInv
  <2>5. QED
    BY <1>0, <2>2, <2>3, <2>4 DEF RowInv
<1>4. ASSUME NEW e \in Editors, DropEdit(e)
      PROVE  RowInv'
  <2>1. Saved' = Saved /\ policy' = policy
    BY <1>4 DEF DropEdit, Saved
  <2>2. \A o \in Editors : editing'[o].pc = "writing" => editing'[o] = editing[o]
    BY <1>4 DEF DropEdit, RowInv, TypeOK, Idle
  <2>3. EditsFit'
    BY <2>1, <2>2 DEF RowInv, EditsFit
  <2>4. QED
    BY <1>0, <2>1, <2>3 DEF RowInv, VersionsAreDense
<1>5. QED
  BY <1>1, <1>2, <1>3, <1>4
     DEF Next, vars, StartCase, InsertCase, DropCase, CaseMoves,
         AskPreview, StartPrepare, InsertItems, DropPlan

LEMMA RowInvariant == Spec => []RowInv
BY RowInit, RowStays, PTL DEF Spec

(***************************************************************************)
(* The versions of a policy have no gap, however many editors save them:   *)
(* the row before the one an editor inserts is there when it looks, and    *)
(* rows are never deleted (save_policy).                                   *)
(***************************************************************************)
THEOREM VersionsDense == Spec => []VersionsAreDense
<1>1. RowInv => VersionsAreDense
  BY DEF RowInv
<1>2. QED
  BY <1>1, RowInvariant, PTL

-----------------------------------------------------------------------------
(* Cases *)

\* What a creator read still is what the version says.
CreationsFit ==
  \A c \in Creators :
    creating[c].pc = "inserting" =>
      /\ IsPublished(creating[c].version)
      /\ creating[c].requirements = policy[creating[c].version].compiled.requirements

CaseInv == TypeOK /\ CasesFollowPolicy /\ CreationsFit

LEMMA CaseInit == Init => CaseInv
BY InitTyped DEF Init, CaseInv, CasesFollowPolicy, CreationsFit, NoCase, Idle

LEMMA CaseStays == CaseInv /\ [Next]_vars => CaseInv'
<1> SUFFICES ASSUME CaseInv, [Next]_vars
             PROVE  CaseInv'
  OBVIOUS
<1>0. TypeOK'
  BY TypedStays DEF CaseInv
<1>1. \A n \in Version : IsPublished(n) => policy'[n] = policy[n] /\ IsPublished(n)'
  BY WriteStands DEF CaseInv, IsPublished
<1>2. CASE UNCHANGED <<cases, creating>>
  <2>1. CreationsFit'
    <3>1. SUFFICES ASSUME NEW c \in Creators, creating[c].pc = "inserting"
                   PROVE  /\ IsPublished(creating[c].version)'
                          /\ creating[c].requirements =
                               policy'[creating[c].version].compiled.requirements
      BY <1>2 DEF CreationsFit
    <3>2. creating[c].version \in Version
      BY <3>1 DEF CaseInv, TypeOK, Creation, Idle
    <3>3. QED
      BY <1>1, <1>2, <3>1, <3>2 DEF CaseInv, CreationsFit, IsPublished
  <2>2. CasesFollowPolicy'
    BY <1>1, <1>2 DEF CaseInv, CasesFollowPolicy, IsPublished
  <2>3. QED
    BY <1>0, <2>1, <2>2 DEF CaseInv
<1>3. ASSUME NEW c \in Creators, StartCase(c)
      PROVE  CaseInv'
  <2>1. PICK n \in Version :
          /\ IsPublished(n)
          /\ creating' = [creating EXCEPT ![c] =
                            [pc |-> "inserting", version |-> n,
                             requirements |-> policy[n].compiled.requirements]]
    BY <1>3 DEF StartCase, MayHaveCases
  <2>2. CreationsFit'
    BY <1>3, <2>1 DEF StartCase, CaseInv, TypeOK, CreationsFit, IsPublished
  <2>3. QED
    BY <1>0, <1>3, <2>2 DEF StartCase, CaseInv, CasesFollowPolicy, IsPublished
<1>4. ASSUME NEW c \in Creators, InsertCase(c)
      PROVE  CaseInv'
  <2>1. /\ creating[c].version \in Version
        /\ IsPublished(creating[c].version)
        /\ creating[c].requirements = policy[creating[c].version].compiled.requirements
    BY <1>4 DEF InsertCase, MayHaveCases, CaseInv, TypeOK, Creation, CreationsFit, Idle
  <2>2. CasesFollowPolicy'
    BY <1>4, <2>1 DEF InsertCase, CaseInv, TypeOK, CasesFollowPolicy, IsPublished
  <2>3. CreationsFit'
    BY <1>4 DEF InsertCase, CaseInv, TypeOK, CreationsFit, IsPublished, Idle
  <2>4. QED
    BY <1>0, <2>2, <2>3 DEF CaseInv
<1>5. ASSUME NEW c \in Creators, DropCase(c)
      PROVE  CaseInv'
  <2>1. CreationsFit'
    BY <1>5 DEF DropCase, CaseInv, TypeOK, CreationsFit, IsPublished, Idle
  <2>2. QED
    BY <1>0, <1>5, <2>1 DEF DropCase, CaseInv, CasesFollowPolicy, IsPublished
<1>6. ASSUME NEW n \in Version, CaseMoves(n)
      PROVE  CaseInv'
  <2>1. \A m \in Version : cases'[m].exists = cases[m].exists
                           /\ cases'[m].requirements = cases[m].requirements
    BY <1>6 DEF CaseMoves, CaseInv, TypeOK, Case
  <2>2. CasesFollowPolicy'
    BY <1>6, <2>1 DEF CaseMoves, CaseInv, CasesFollowPolicy, IsPublished
  <2>3. QED
    BY <1>0, <1>6, <2>2 DEF CaseMoves, CaseInv, CreationsFit, IsPublished
<1>7. QED
  BY <1>2, <1>3, <1>4, <1>5, <1>6
     DEF Next, vars, StartSave, WriteRow, DropEdit,
         AskPreview, StartPrepare, InsertItems, DropPlan

LEMMA CaseInvariant == Spec => []CaseInv
BY CaseInit, CaseStays, PTL DEF Spec

(***************************************************************************)
(* The requirements of a case are those of its policy version for ever,    *)
(* although they are read in one transaction and inserted in another:      *)
(* the version was published before, and so stood still (create_case).     *)
(***************************************************************************)
THEOREM CasesFollow == Spec => []CasesFollowPolicy
<1>1. CaseInv => CasesFollowPolicy
  BY DEF CaseInv
<1>2. QED
  BY <1>1, CaseInvariant, PTL

-----------------------------------------------------------------------------
(* Plans *)

\* What a plan says of the requirements of the two versions.
Covers(plan, before, after) ==
  /\ plan.reuse \cup plan.investigate = KeysOf(after)
  /\ plan.reuse \cap plan.investigate = {}
  /\ plan.drop \cap plan.reuse = {}
  /\ \A k \in plan.reuse : before[k] = after[k]
  /\ plan.mode = "REEVALUATE" => before = after

Before == policy[Source].compiled.requirements
After == policy[Target].compiled.requirements

\* Nothing a plan was made from changes: the versions are published, a case
\* stays, and so does its being decided.
Sound(plan) ==
  /\ IsPublished(Source) /\ IsPublished(Target)
  /\ cases[Source].exists
  /\ plan.blocked \/ cases[Source].decided
  /\ Covers(plan, Before, After)

PlanInv ==
  /\ CaseInv
  /\ \A plan \in items : Sound(plan)
  /\ \A r \in Clients : planning[r].pc # Idle => \A plan \in planning[r].plans : Sound(plan)

LEMMA KeysSplit ==
  ASSUME NEW before \in Requirements, NEW after \in Requirements
  PROVE  /\ Unchanged(before, after) \cup Modified(before, after) \cup Added(before, after)
              = KeysOf(after)
         /\ Unchanged(before, after) \cap (Modified(before, after) \cup Added(before, after)) = {}
         /\ Removed(before, after) \cap KeysOf(after) = {}
         /\ \A k \in Unchanged(before, after) : before[k] = after[k]
         /\ Modified(before, after) \cup Added(before, after) \cup Removed(before, after) = {}
              => before = after
<1>1. /\ Unchanged(before, after) \cup Modified(before, after) \cup Added(before, after)
           = KeysOf(after)
      /\ Unchanged(before, after) \cap (Modified(before, after) \cup Added(before, after)) = {}
      /\ Removed(before, after) \cap KeysOf(after) = {}
      /\ \A k \in Unchanged(before, after) : before[k] = after[k]
  BY DEF Unchanged, Modified, Added, Removed
<1>2. ASSUME Modified(before, after) \cup Added(before, after) \cup Removed(before, after) = {}
      PROVE  before = after
  <2>1. \A k \in Keys : before[k] = after[k]
    BY <1>2 DEF Unchanged, Modified, Added, Removed, KeysOf
  <2>2. QED
    BY <2>1 DEF Requirements
<1>3. QED
  BY <1>1, <1>2

LEMMA PlanCovers ==
  ASSUME TypeOK, NEW again \in BOOLEAN
  PROVE  Covers(PlanOf(again), Before, After)
<1> DEFINE same == Unchanged(Before, After)
           seen == IF again THEN same \cap Visual \cap KeysOf(cases[Source].requirements) ELSE {}
           changed == Modified(Before, After) \cup Added(Before, After)
           plan == PlanOf(again)
<1>1. Before \in Requirements /\ After \in Requirements
  BY PolicyConstants DEF Before, After, TypeOK, Row, Compiled
<1>2. /\ same \cup changed = KeysOf(After)
      /\ same \cap changed = {}
      /\ Removed(Before, After) \cap KeysOf(After) = {}
      /\ Modified(Before, After) \subseteq changed
      /\ \A k \in same : Before[k] = After[k]
      /\ changed \cup Removed(Before, After) = {} => Before = After
  BY <1>1, KeysSplit
<1>3. seen \subseteq same
  OBVIOUS
<1>4. /\ plan.reuse = same \ seen
      /\ plan.investigate = changed \cup seen
      /\ plan.drop = Removed(Before, After) \cup Modified(Before, After) \cup seen
      /\ plan.mode = "REEVALUATE" => changed \cup seen \cup Removed(Before, After) = {}
  BY DEF PlanOf, Before, After
<1> HIDE DEF same, seen, changed, plan
<1>5. QED
  BY <1>2, <1>3, <1>4 DEF Covers, plan

LEMMA PreviewSound ==
  ASSUME CaseInv, NEW again \in BOOLEAN, IsPublished(Source), IsPublished(Target),
         NEW plan \in Preview(again)
  PROVE  Sound(plan)
<1>1. plan = PlanOf(again) /\ cases[Source].exists
  BY DEF Preview
<1>2. plan.blocked \/ cases[Source].decided
  BY <1>1 DEF PlanOf
<1>3. QED
  BY <1>1, <1>2, PlanCovers DEF CaseInv, Sound

LEMMA SoundStays ==
  ASSUME CaseInv, [Next]_vars, NEW plan, Sound(plan)
  PROVE  Sound(plan)'
<1>1. policy'[Source] = policy[Source] /\ policy'[Target] = policy[Target]
  BY WriteStands, PolicyConstants DEF CaseInv, Sound
<1>2. cases[Source].exists => cases'[Source].exists
      /\ (cases[Source].decided => cases'[Source].decided)
  <2>1. ASSUME NEW c \in Creators, InsertCase(c), cases[Source].exists
        PROVE  cases'[Source] = cases[Source]
    <3>1. creating[c].version # Source
      BY <2>1 DEF InsertCase
    <3>2. cases' = [cases EXCEPT ![creating[c].version] = cases'[creating[c].version]]
      BY <2>1 DEF InsertCase, CaseInv, TypeOK, Creation, Idle
    <3>3. QED
      BY <3>1, <3>2, PolicyConstants DEF CaseInv, TypeOK
  <2>2. ASSUME NEW n \in Version, CaseMoves(n)
        PROVE  /\ cases'[Source].exists = cases[Source].exists
               /\ cases[Source].decided => cases'[Source].decided
    BY <2>2, PolicyConstants DEF CaseMoves, CaseInv, TypeOK, Case
  <2>3. QED
    BY <2>1, <2>2
       DEF Next, vars, StartSave, WriteRow, DropEdit, StartCase, DropCase,
           AskPreview, StartPrepare, InsertItems, DropPlan
<1>3. Covers(plan, Before, After)'
  BY <1>1 DEF Sound, Before, After, Covers, KeysOf
<1>4. QED
  BY <1>1, <1>2, <1>3 DEF Sound, IsPublished

LEMMA PlanInit == Init => PlanInv
BY CaseInit DEF Init, PlanInv

LEMMA PlanStays == PlanInv /\ [Next]_vars => PlanInv'
<1> SUFFICES ASSUME PlanInv, [Next]_vars
             PROVE  PlanInv'
  OBVIOUS
<1>0. CaseInv'
  BY CaseStays DEF PlanInv
<1>1. /\ \A plan \in items : Sound(plan)'
      /\ \A r \in Clients : planning[r].pc # Idle =>
           \A plan \in planning[r].plans : Sound(plan)'
  BY SoundStays DEF PlanInv
<1>2. CASE UNCHANGED <<items, planning>>
  BY <1>0, <1>1, <1>2 DEF PlanInv
<1>3. ASSUME NEW r \in Clients, AskPreview(r)
      PROVE  PlanInv'
  <2>1. PICK again \in BOOLEAN :
          planning' = [planning EXCEPT ![r] =
                         [pc |-> "previewed", again |-> again, plans |-> Preview(again)]]
    BY <1>3 DEF AskPreview
  <2>2. \A plan \in Preview(again) : Sound(plan)'
    BY <1>3, PreviewSound, SoundStays DEF AskPreview, PlanInv
  <2>3. planning'[r].plans = Preview(again)
        /\ \A o \in Clients : o # r => planning'[o] = planning[o]
    BY <2>1 DEF PlanInv, CaseInv, TypeOK
  <2>4. QED
    BY <1>0, <1>1, <1>3, <2>2, <2>3 DEF AskPreview, PlanInv
<1>4. ASSUME NEW r \in Clients, StartPrepare(r)
      PROVE  PlanInv'
  <2>1. planning[r] \in [pc: {"previewed", "preparing"}, again: BOOLEAN, plans: SUBSET Plan]
    BY <1>4 DEF StartPrepare, PlanInv, CaseInv, TypeOK, Planning, Idle
  <2>2. planning'[r].plans = planning[r].plans /\ planning[r].pc # Idle
        /\ \A o \in Clients : o # r => planning'[o] = planning[o]
    BY <1>4, <2>1 DEF StartPrepare, PlanInv, CaseInv, TypeOK, Idle
  <2>3. QED
    BY <1>0, <1>1, <1>4, <2>2 DEF StartPrepare, PlanInv
<1>5. ASSUME NEW r \in Clients, InsertItems(r)
      PROVE  PlanInv'
  <2>1. items' = planning[r].plans /\ planning[r].pc # Idle
        /\ planning'[r].pc = Idle
        /\ \A o \in Clients : o # r => planning'[o] = planning[o]
    BY <1>5 DEF InsertItems, PlanInv, CaseInv, TypeOK, Idle
  <2>2. QED
    BY <1>0, <1>1, <2>1 DEF PlanInv
<1>6. ASSUME NEW r \in Clients, DropPlan(r)
      PROVE  PlanInv'
  <2>1. items' = items /\ planning'[r].pc = Idle
        /\ \A o \in Clients : o # r => planning'[o] = planning[o]
    BY <1>6 DEF DropPlan, PlanInv, CaseInv, TypeOK
  <2>2. QED
    BY <1>0, <1>1, <2>1 DEF PlanInv
<1>7. QED
  BY <1>2, <1>3, <1>4, <1>5, <1>6
     DEF Next, vars, StartSave, WriteRow, DropEdit, StartCase, InsertCase, DropCase, CaseMoves

LEMMA PlanInvariant == Spec => []PlanInv
BY PlanInit, PlanStays, PTL DEF Spec

LEMMA SoundPlansCover == PlanInv => PlansCoverTarget
<1> SUFFICES ASSUME PlanInv, NEW plan \in items
             PROVE  /\ Covers(plan, Before, After)
                    /\ plan.blocked \/ cases[Source].decided
                    /\ \A k \in plan.reuse :
                         /\ cases[Source].exists /\ cases[Source].requirements[k] = After[k]
                         /\ cases[Target].exists =>
                              cases[Target].requirements[k] = cases[Source].requirements[k]
  BY DEF PlansCoverTarget, Covers, Before, After
<1>1. Sound(plan)
  BY DEF PlanInv
<1>2. /\ cases[Source].exists /\ cases[Source].requirements = Before
      /\ cases[Target].exists => cases[Target].requirements = After
  BY <1>1, PolicyConstants DEF PlanInv, CaseInv, CasesFollowPolicy, Sound, Before, After
<1>3. QED
  BY <1>1, <1>2 DEF Sound, Covers

(***************************************************************************)
(* The plan of a prepared item accounts for each requirement of the two    *)
(* versions and reuses only what means the same in both cases, although    *)
(* preview, its second computation and the insert are transactions of      *)
(* their own (preview, prepare, _diff).                                    *)
(***************************************************************************)
THEOREM PlansCover == Spec => []PlansCoverTarget
BY PlanInvariant, SoundPlansCover, PTL

=============================================================================
