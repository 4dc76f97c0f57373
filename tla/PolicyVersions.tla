---------------------------- MODULE PolicyVersions ----------------------------
(***************************************************************************)
(* The versions of one policy and what is made from them: the rows that    *)
(* evistream/policies/versioning.py writes and the triggers of migration   *)
(* 0004 guard, the cases created from a published version, and the plans   *)
(* by which evistream/replay/planner.py and ReplayService.prepare carry    *)
(* the cases of one version over to a later one.                           *)
(*                                                                         *)
(* Editors, creators of cases and clients of the replay work at the same   *)
(* time.  Each reads in one transaction and writes later, without a lock   *)
(* in between: what it read may be stale.                                  *)
(***************************************************************************)
EXTENDS Naturals

CONSTANTS
  Editors,      \* processes that save drafts and publish
  Creators,     \* processes that create cases
  Clients,      \* processes that preview and prepare a replay
  Keys,         \* requirement keys
  Visual,       \* the keys with the modality vision
  Hashes,       \* the semantic hashes of requirements
  Rules,        \* what the rest of a document compiles to
  Documents,    \* valid policy documents: version, text and what it compiles to
  MaxVersion,   \* highest version of a document
  Source, Target  \* the versions of the replay

\* What a document compiles to: the semantic hash of each requirement, and the
\* rest (aggregation, expressions, severity, enabled).
Absent == "absent"
NoRules == "none"
Requirements == [Keys -> Hashes \cup {Absent}]
Compiled == [requirements: Requirements, rules: Rules \cup {NoRules}]
Version == 1 .. MaxVersion

ASSUME PolicyConstants ==
  /\ MaxVersion \in Nat
  /\ Documents \subseteq [version: Version, text: STRING, compiled: Compiled]
  /\ Visual \subseteq Keys
  /\ Source \in Version /\ Target \in Version /\ Source < Target

VARIABLES
  policy,     \* the policies row of each version
  cases,      \* the case of each version for the video, and its requirement rows
  items,      \* the replay_items rows of the source version's case
  editing,    \* what each editor read and is about to write
  creating,   \* what each creator read and is about to insert
  planning    \* the preview a client holds, and what prepare is about to insert

vars == <<policy, cases, items, editing, creating, planning>>

-----------------------------------------------------------------------------
(* Data *)

NoCompiled == [requirements |-> [k \in Keys |-> Absent], rules |-> NoRules]

\* A row keeps the text and what it was compiled to in columns of their own.
Texts == {d.text : d \in Documents} \cup {""}
Row == [lifecycle: {"ABSENT", "DRAFT", "PUBLISHED"}, text: Texts, compiled: Compiled]
NoRow == [lifecycle |-> "ABSENT", text |-> "", compiled |-> NoCompiled]

\* Seeded fault: two columns of the row are swapped.
SwappedRow(document, lifecycle) ==
  [lifecycle |-> document.text, text |-> lifecycle, compiled |-> document.compiled]

RowOf(document, lifecycle) ==
  [lifecycle |-> lifecycle, text |-> document.text, compiled |-> document.compiled]

Case == [exists: BOOLEAN, requirements: Requirements, decided: BOOLEAN, appealed: BOOLEAN]
NoCase == [exists |-> FALSE, requirements |-> NoCompiled.requirements,
           decided |-> FALSE, appealed |-> FALSE]

Plan == [reuse: SUBSET Keys, investigate: SUBSET Keys, drop: SUBSET Keys,
         mode: {"REEVALUATE", "REINVESTIGATE"}, blocked: BOOLEAN]

Idle == "idle"

Init ==
  /\ policy = [n \in Version |-> NoRow]
  /\ cases = [n \in Version |-> NoCase]
  /\ items = {}
  /\ editing = [e \in Editors |-> [pc |-> Idle]]
  /\ creating = [c \in Creators |-> [pc |-> Idle]]
  /\ planning = [r \in Clients |-> [pc |-> Idle]]

-----------------------------------------------------------------------------
(* Saving a version *)

IsPublished(n) == policy[n].lifecycle = "PUBLISHED"
Saved == {n \in Version : policy[n].lifecycle # "ABSENT"}

\* Seeded fault: any number may be saved next.
AnyNext(n) == TRUE

\* A new version is the successor of the latest one.
IsNext(n) == (\A m \in Saved : m < n) /\ (n = 1 \/ n - 1 \in Saved)

\* save_policy up to its refusals.  Publishing what is published already with
\* the same meaning answers the row there is.
StartSave(e) ==
  /\ editing[e].pc = Idle
  /\ \E d \in Documents, lifecycle \in {"DRAFT", "PUBLISHED"} :
       /\ ~IsPublished(d.version)
       /\ d.version \notin Saved => IsNext(d.version)
       /\ editing' = [editing EXCEPT ![e] =
                        [pc |-> "writing", document |-> d, lifecycle |-> lifecycle,
                         read |-> policy[d.version]]]
  /\ UNCHANGED <<policy, cases, items, creating, planning>>

\* Seeded fault: the trigger protect_published_policy is missing.
Unprotected(n) == TRUE

\* The trigger refuses every update of a published row.
MayUpdate(n) == ~IsPublished(n)

\* Seeded fault: what the text compiles to is not stored again.
TextOnly(row, read, new) == [row EXCEPT !.text = new.text, !.lifecycle = new.lifecycle]

\* An update names only the columns that differ from what the session read.
Changed(old, read, new) == IF new = read THEN old ELSE new

Updated(row, read, new) ==
  [lifecycle |-> Changed(row.lifecycle, read.lifecycle, new.lifecycle),
   text |-> Changed(row.text, read.text, new.text),
   compiled |-> Changed(row.compiled, read.compiled, new.compiled)]

\* The insert of a version that is there by now breaks the primary key.
WriteRow(e) ==
  LET edit == editing[e]
      n == edit.document.version
      new == RowOf(edit.document, edit.lifecycle)
  IN
  /\ edit.pc = "writing"
  /\ IF edit.read = NoRow
     THEN /\ n \notin Saved
          /\ policy' = [policy EXCEPT ![n] = new]
     ELSE /\ MayUpdate(n)
          /\ policy' = [policy EXCEPT ![n] = Updated(@, edit.read, new)]
  /\ editing' = [editing EXCEPT ![e] = [pc |-> Idle]]
  /\ UNCHANGED <<cases, items, creating, planning>>

\* The constraint or the trigger refuses the write, or the editor dies.
DropEdit(e) ==
  /\ editing[e].pc = "writing"
  /\ editing' = [editing EXCEPT ![e] = [pc |-> Idle]]
  /\ UNCHANGED <<policy, cases, items, creating, planning>>

-----------------------------------------------------------------------------
(* Creating cases, and what happens to them *)

\* Seeded fault: a case may be made from any version there is.
IsSaved(n) == n \in Saved

\* create_case and the trigger require_published_case_policy ask the same.
MayHaveCases(n) == IsPublished(n)

\* create_case up to its refusals; the case there is is answered.
StartCase(c) ==
  /\ creating[c].pc = Idle
  /\ \E n \in Version :
       /\ MayHaveCases(n)
       /\ ~cases[n].exists
       /\ creating' = [creating EXCEPT ![c] =
                         [pc |-> "inserting", version |-> n,
                          requirements |-> policy[n].compiled.requirements]]
  /\ UNCHANGED <<policy, cases, items, editing, planning>>

\* The case and its requirement rows come in one transaction, which a second
\* case of the version and a version that is not published break.
InsertCase(c) ==
  LET new == creating[c] IN
  /\ new.pc = "inserting"
  /\ ~cases[new.version].exists
  /\ MayHaveCases(new.version)
  /\ cases' = [cases EXCEPT ![new.version] =
                 [exists |-> TRUE, requirements |-> new.requirements,
                  decided |-> FALSE, appealed |-> FALSE]]
  /\ creating' = [creating EXCEPT ![c] = [pc |-> Idle]]
  /\ UNCHANGED <<policy, items, editing, planning>>

DropCase(c) ==
  /\ creating[c].pc = "inserting"
  /\ creating' = [creating EXCEPT ![c] = [pc |-> Idle]]
  /\ UNCHANGED <<policy, cases, items, editing, planning>>

\* The case is decided; an appeal of the decision opens and is resolved.
CaseMoves(n) ==
  /\ cases[n].exists
  /\ \/ cases' = [cases EXCEPT ![n].decided = TRUE]
     \/ cases[n].decided /\ cases' = [cases EXCEPT ![n].appealed = ~@]
  /\ UNCHANGED <<policy, items, editing, creating, planning>>

-----------------------------------------------------------------------------
(* Planning a replay *)

KeysOf(requirements) == {k \in Keys : requirements[k] # Absent}

\* Seeded fault: a key in both versions counts as unchanged.
SameKey(before, after) == KeysOf(before) \cap KeysOf(after)

Unchanged(before, after) ==
  {k \in KeysOf(before) \cap KeysOf(after) : before[k] = after[k]}

Modified(before, after) == (KeysOf(before) \cap KeysOf(after)) \ Unchanged(before, after)
Added(before, after) == KeysOf(after) \ KeysOf(before)
Removed(before, after) == KeysOf(before) \ KeysOf(after)

\* preview: the visual requirements are investigated again if the client says
\* so; a case without a decision or with an open appeal is blocked.
PlanOf(again) ==
  LET before == policy[Source].compiled.requirements
      after == policy[Target].compiled.requirements
      same == Unchanged(before, after)
      seen == IF again THEN same \cap Visual \cap KeysOf(cases[Source].requirements) ELSE {}
      changed == Modified(before, after) \cup Added(before, after)
  IN [reuse |-> same \ seen,
      investigate |-> changed \cup seen,
      drop |-> Removed(before, after) \cup Modified(before, after) \cup seen,
      mode |-> IF changed \cup seen \cup Removed(before, after) # {}
               THEN "REINVESTIGATE" ELSE "REEVALUATE",
      blocked |-> ~cases[Source].decided \/ cases[Source].appealed]

\* The plans of the source version's cases, one for each.
Preview(again) == IF cases[Source].exists THEN {PlanOf(again)} ELSE {}

AskPreview(r) ==
  /\ planning[r].pc = Idle
  /\ IsPublished(Source) /\ IsPublished(Target)
  /\ \E again \in BOOLEAN :
       planning' = [planning EXCEPT ![r] =
                      [pc |-> "previewed", again |-> again, plans |-> Preview(again)]]
  /\ UNCHANGED <<policy, cases, items, editing, creating>>

\* REPLAY_PREVIEW_STALE
StillCurrent(r) == Preview(planning[r].again) = planning[r].plans

\* prepare computes the preview again, and inserts in a second transaction.
StartPrepare(r) ==
  /\ planning[r].pc = "previewed"
  /\ StillCurrent(r)
  /\ planning' = [planning EXCEPT ![r].pc = "preparing"]
  /\ UNCHANGED <<policy, cases, items, editing, creating>>

\* The items of one case and target version are unique: a second replay of
\* these versions is refused, but for the same request.
InsertItems(r) ==
  /\ planning[r].pc = "preparing"
  /\ items = {}
  /\ items' = planning[r].plans
  /\ planning' = [planning EXCEPT ![r] = [pc |-> Idle]]
  /\ UNCHANGED <<policy, cases, editing, creating>>

DropPlan(r) ==
  /\ planning[r].pc # Idle
  /\ planning' = [planning EXCEPT ![r] = [pc |-> Idle]]
  /\ UNCHANGED <<policy, cases, items, editing, creating>>

-----------------------------------------------------------------------------
Next ==
  \/ \E e \in Editors : StartSave(e) \/ WriteRow(e) \/ DropEdit(e)
  \/ \E c \in Creators : StartCase(c) \/ InsertCase(c) \/ DropCase(c)
  \/ \E n \in Version : CaseMoves(n)
  \/ \E r \in Clients : AskPreview(r) \/ StartPrepare(r) \/ InsertItems(r) \/ DropPlan(r)

Spec == Init /\ [][Next]_vars

-----------------------------------------------------------------------------
(* Properties *)

Edit ==
  [pc: {Idle}] \cup
  [pc: {"writing"}, document: Documents, lifecycle: {"DRAFT", "PUBLISHED"}, read: Row]

Creation ==
  [pc: {Idle}] \cup [pc: {"inserting"}, version: Version, requirements: Requirements]

Planning ==
  [pc: {Idle}] \cup [pc: {"previewed", "preparing"}, again: BOOLEAN, plans: SUBSET Plan]

TypeOK ==
  /\ policy \in [Version -> Row]
  /\ cases \in [Version -> Case]
  /\ items \subseteq Plan
  /\ editing \in [Editors -> Edit]
  /\ creating \in [Creators -> Creation]
  /\ planning \in [Clients -> Planning]

(***************************************************************************)
(* The versions of a policy have no gap, although an editor learns the     *)
(* latest one in a transaction before it inserts (save_policy).            *)
(***************************************************************************)
VersionsAreDense == \A n \in Saved : \A m \in 1 .. n : m \in Saved

(***************************************************************************)
(* What is published stays as it is, whatever an editor does that read the *)
(* row as a draft (save_policy, protect_published_policy).                 *)
(***************************************************************************)
PublishedStands == [][\A n \in Version : IsPublished(n) => policy'[n] = policy[n]]_vars

\* The row is one document's text with what that text compiles to.
IsWhole(n) ==
  \E d \in Documents :
    d.version = n /\ policy[n].text = d.text /\ policy[n].compiled = d.compiled

\* The editor that writes now read the row before another one changed it.
WritesStale(n) ==
  \E e \in Editors :
    /\ editing[e].pc = "writing" /\ editing[e].document.version = n
    /\ editing[e].read # policy[n]
    /\ editing'[e].pc = Idle

(***************************************************************************)
(* Whenever a row changes, its text and its compiled policy are those of   *)
(* one document, unless the editor writes over a draft that another one    *)
(* changed since it was read: the update leaves out the columns that are   *)
(* as they were read (save_policy).                                        *)
(***************************************************************************)
RowsAreWhole ==
  [][\A n \in Version : policy'[n] # policy[n] => IsWhole(n)' \/ WritesStale(n)]_vars

(***************************************************************************)
(* The requirements of every case are those of its policy version as it    *)
(* stands, however late they were inserted (create_case, PublishedStands). *)
(***************************************************************************)
CasesFollowPolicy ==
  \A n \in Version :
    cases[n].exists =>
      IsPublished(n) /\ cases[n].requirements = policy[n].compiled.requirements

(***************************************************************************)
(* The plan of a prepared item accounts for every requirement: those of    *)
(* the target version are reused or investigated, never both, those reused *)
(* mean the same in the two cases, and there is nothing to investigate     *)
(* only if nothing was added or changed.  An item that is not blocked has  *)
(* a decision to replay (preview, prepare, _execute_item).                 *)
(***************************************************************************)
PlansCoverTarget ==
  \A plan \in items :
    LET before == policy[Source].compiled.requirements
        after == policy[Target].compiled.requirements
    IN
    /\ plan.reuse \cup plan.investigate = KeysOf(after)
    /\ plan.reuse \cap plan.investigate = {}
    /\ plan.drop \cap plan.reuse = {}
    /\ \A k \in plan.reuse :
         /\ cases[Source].exists /\ cases[Source].requirements[k] = after[k]
         /\ cases[Target].exists => cases[Target].requirements[k] = cases[Source].requirements[k]
    /\ plan.mode = "REEVALUATE" => before = after
    /\ plan.blocked \/ cases[Source].decided

=============================================================================
