------------------------- MODULE Governance_proofs --------------------------
(***************************************************************************)
(* Proofs about Governance: its types for every value of the constants,    *)
(* and, when the operations of different processes do not interleave, that *)
(* no amendment on file is lost and what a reset deletes from the durable  *)
(* stores is in a backup until a later reset of the same second replaces   *)
(* that, for any number of pipelines, operators, snapshots, items, deaths. *)
(***************************************************************************)
EXTENDS Governance, TLAPS

Places == {"out", "running", "check", "checked", "opened", "filled",
           "config", "stores", "meta", "strip", "law", "copying", "unload", "reload"}

-----------------------------------------------------------------------------
(* Types                                                                   *)

LEMMA FileTypes ==
  /\ Absent \in File /\ Torn \in File
  /\ \A text \in Seq(Nat) : Whole(text) \in File
  /\ Ratified \in Seq(Nat)
  /\ \A there \in BOOLEAN : NewSnapshot(there) \in Snapshot
  BY DEF File, Absent, Torn, Whole, Ratified, NewSnapshot, Snapshot, Stores

LEMMA EntriesType ==
  ASSUME NEW text \in Seq(Nat)
  PROVE  Entries(text) \subseteq Nat \X Nat
  BY DEF Entries

LEMMA InitType == Init => TypeOK
<1> SUFFICES ASSUME Init PROVE TypeOK
  OBVIOUS
<1>1. owed \subseteq Nat \X Nat
  BY FileTypes, EntriesType DEF Init
<1>2. snap \in [Snapshots -> Snapshot]
  BY FileTypes DEF Init
<1>3. constitution \in File /\ tmp \in File
  BY FileTypes DEF Init
<1>4. << >> \in Seq(Nat)
  OBVIOUS
<1>5. memory \in [Pipelines -> Seq(Nat)]
  BY <1>4 DEF Init
<1>6. /\ live \in [Stores -> SUBSET Items] /\ stripped \in [Stores -> SUBSET Items] /\ replaced \subseteq Items
      /\ name \in [Operators -> Snapshots \cup {0}] /\ resetting \in [Operators -> BOOLEAN]
  BY DEF Init
<1>7. /\ at \in [Actors -> Places] /\ lost \in BOOLEAN
      /\ drafted \in 0 .. MaxDrafts /\ second \in 0 .. MaxSeconds /\ deaths \in 0 .. MaxDeaths
  <2>1. at \in [Actors -> Places] /\ lost \in BOOLEAN
    BY DEF Init, Places
  <2>2. /\ drafted \in 0 .. MaxDrafts /\ second \in 0 .. MaxSeconds /\ deaths \in 0 .. MaxDeaths
    BY GovernanceAssumption DEF Init
  <2> QED
    BY <2>1, <2>2
<1> QED
  BY <1>1, <1>2, <1>3, <1>5, <1>6, <1>7 DEF TypeOK, Places

\* The guard changes the actor's place and shrinks what is owed.
LEMMA PermitType ==
  ASSUME TypeOK, NEW new, NEW next \in Places, NEW a \in Actors, Permit(new, next, a)
  PROVE  at' \in [Actors -> Places] /\ owed' \subseteq owed
  BY DEF Permit, Goto, TypeOK, Places

LEMMA OnFileType == TypeOK => OnFile \subseteq Nat \X Nat
<1> SUFFICES ASSUME TypeOK PROVE OnFile \subseteq Nat \X Nat
  OBVIOUS
<1>1. constitution.text \in Seq(Nat)
  BY DEF TypeOK, File
<1> QED
  BY <1>1, EntriesType DEF OnFile, TypeOK

LEMMA EndTypes ==
  ASSUME TypeOK
  PROVE  /\ \A p \in Pipelines : EndRun(p) =>
              at' \in [Actors -> Places] /\ memory' \in [Pipelines -> Seq(Nat)]
         /\ \A k \in Operators : EndCommand(k) =>
              /\ at' \in [Actors -> Places] /\ name' \in [Operators -> Snapshots \cup {0}]
              /\ resetting' \in [Operators -> BOOLEAN]
<1>1. ASSUME NEW p \in Pipelines, EndRun(p)
      PROVE  at' \in [Actors -> Places] /\ memory' \in [Pipelines -> Seq(Nat)]
  <2>1. at' \in [Actors -> Places]
    BY <1>1 DEF EndRun, Goto, TypeOK, Places, Actors
  <2>2. << >> \in Seq(Nat)
    OBVIOUS
  <2> QED
    BY <1>1, <2>1, <2>2 DEF EndRun, TypeOK
<1>2. ASSUME NEW k \in Operators, EndCommand(k)
      PROVE  /\ at' \in [Actors -> Places] /\ name' \in [Operators -> Snapshots \cup {0}]
             /\ resetting' \in [Operators -> BOOLEAN]
  BY <1>2 DEF EndCommand, Goto, TypeOK, Places, Actors
<1> QED
  BY <1>1, <1>2

LEMMA PipelineType ==
  ASSUME TypeOK, NEW p \in Pipelines, Pipeline(p)
  PROVE  TypeOK'
<1> USE GovernanceAssumption DEF TypeOK, Actors
<1>0. constitution.text \in Seq(Nat) /\ tmp.text \in Seq(Nat)
  BY DEF File
<1>1. CASE Boot(p)
  BY <1>0, <1>1 DEF Boot, Goto, stores
<1>2. CASE AddAmendment(p)
  <2>1. memory' \in [Pipelines -> Seq(Nat)] /\ drafted' \in 0 .. MaxDrafts
    BY <1>2 DEF AddAmendment
  <2> QED
    BY <1>2, <2>1 DEF AddAmendment, Goto, stores
<1>3. CASE CheckSave(p)
  <2>1. at' \in [Actors -> Places] /\ owed' \subseteq owed /\ memory' \in [Pipelines -> Seq(Nat)]
    BY <1>3, PermitType, EndTypes DEF CheckSave, Places
  <2> QED
    BY <1>3, <2>1 DEF CheckSave, stores, Places
<1>4. CASE OpenTmp(p)
  BY <1>4, FileTypes DEF OpenTmp, Goto, stores
<1>5. CASE FillTmp(p)
  BY <1>5, FileTypes DEF FillTmp, Goto, stores
<1>6. CASE Replace(p)
  <2>1. /\ at' \in [Actors -> Places] /\ memory' \in [Pipelines -> Seq(Nat)]
        /\ constitution' \in File /\ tmp' \in File
    BY <1>6, EndTypes, FileTypes DEF Replace, Goto, Places
  <2>2. owed' \subseteq Nat \X Nat
    BY <1>0, <1>6, OnFileType, EntriesType DEF Replace
  <2> QED
    BY <1>6, <2>1, <2>2 DEF Replace, stores, Places
<1>7. CASE Leave(p)
  BY <1>7, EndTypes DEF Leave, stores, Places
<1> QED
  BY <1>1, <1>2, <1>3, <1>4, <1>5, <1>6, <1>7 DEF Pipeline

LEMMA BeginType ==
  ASSUME TypeOK, NEW k \in Operators, NEW n \in Snapshots, NEW reset \in BOOLEAN,
         BeginSnapshot(k, n, reset), second' \in 0 .. MaxSeconds, replaced' \subseteq Items
  PROVE  TypeOK'
<1> USE DEF TypeOK, Actors
<1> QED
  BY FileTypes DEF BeginSnapshot, Goto, files, stores

\* What a command in progress works on.
LEMMA SnapshotType ==
  ASSUME TypeOK, NEW n \in Snapshots
  PROVE  /\ snap[n].law \in File /\ snap[n].law.text \in Seq(Nat)
         /\ snap[n].has \in SUBSET Stores /\ snap[n].kept \in [Stores -> SUBSET Items]
  BY DEF TypeOK, Snapshot, File
\* A command in progress works on a snapshot.
CommandsNamed == \A k \in Operators : at[k] # "out" => name[k] \in Snapshots

\* A snapshot whose parts are replaced is one.
LEMMA PartsType ==
  ASSUME NEW r \in Snapshot
  PROVE  /\ \A f \in File : [r EXCEPT !.law = f] \in Snapshot
         /\ \A h \in SUBSET Stores, c \in [Stores -> SUBSET Items] :
              [r EXCEPT !.has = h, !.kept = c] \in Snapshot
  BY DEF Snapshot

LEMMA OperatorType ==
  ASSUME TypeOK, CommandsNamed, NEW k \in Operators, Operator(k)
  PROVE  TypeOK'
<1> USE GovernanceAssumption DEF TypeOK, Actors
<1>0. at[k] # "out" => name[k] \in Snapshots
  BY DEF CommandsNamed
<1>1. CASE Save(k)
  BY <1>1, BeginType DEF Save, Snapshots
<1>2. CASE Reset(k)
  <2>1. PICK n \in BackupNames :
               /\ BeginSnapshot(k, n, TRUE) /\ second' = n
               /\ replaced' = replaced \cup snap[n].kept["durable"]
    BY <1>2 DEF Reset
  <2>2. n \in Snapshots /\ n \in 0 .. MaxSeconds
    BY DEF BackupNames, Snapshots
  <2>3. replaced' \subseteq Items
    BY <2>1, <2>2, SnapshotType DEF Stores
  <2> QED
    BY <2>1, <2>2, <2>3, BeginType
<1>3. CASE SaveConfig(k)
  <2>1. [snap[name[k]] EXCEPT !.law = constitution] \in Snapshot
    BY <1>0, <1>3, PartsType DEF SaveConfig
  <2> QED
    BY <1>3, <2>1 DEF SaveConfig, Goto, files, stores
<1>4. CASE SaveStores(k)
  <2> DEFINE kept == [s \in Stores |-> IF s \in Saved THEN live[s] ELSE {}]
  <2>1. kept \in [Stores -> SUBSET Items] /\ Saved \subseteq Stores
    BY DEF Saved, Stores
  <2>2. [snap[name[k]] EXCEPT !.has = Saved, !.kept = kept] \in Snapshot
    <3> HIDE DEF kept
    <3> QED
      BY <1>0, <1>4, <2>1, PartsType DEF SaveStores
  <2>3. snap' \in [Snapshots -> Snapshot]
    BY <1>0, <1>4, <2>2 DEF SaveStores
  <2> QED
    BY <1>4, <2>3 DEF SaveStores, Goto, files, stores
<1>5. CASE SaveMeta(k)
  BY <1>5, EndTypes DEF SaveMeta, Goto, files, stores, Places
<1>6. CASE Strip(k)
  <2>1. live' \in [Stores -> SUBSET Items] /\ stripped' \in [Stores -> SUBSET Items]
    BY <1>6 DEF Strip
  <2> QED
    BY <1>6, <2>1, EndTypes DEF Strip, files, Places
<1>7. CASE Load(k)
  BY <1>7 DEF Load, Goto, files, stores
<1>8. CASE CheckLoad(k)
  <2>1. at' \in [Actors -> Places] /\ owed' \subseteq owed
    BY <1>8, PermitType DEF CheckLoad, Places, Goto
  <2> QED
    BY <1>8, <2>1 DEF CheckLoad, stores, Places
<1>9. CASE TearConstitution(k)
  BY <1>9, FileTypes DEF TearConstitution, stores
<1>10. CASE CopyConstitution(k)
  <2>1. snap[name[k]].law \in File /\ Entries(snap[name[k]].law.text) \subseteq Nat \X Nat
    BY <1>0, <1>10, SnapshotType, EntriesType DEF CopyConstitution
  <2> QED
    BY <1>10, <2>1 DEF CopyConstitution, Goto, stores
<1>11. CASE Unload(k)
  <2>1. live' \in [Stores -> SUBSET Items]
    BY <1>11 DEF Unload
  <2> QED
    BY <1>11, <2>1 DEF Unload, Goto, files
<1>12. CASE Reload(k)
  <2>1. live' \in [Stores -> SUBSET Items]
    BY <1>0, <1>12, SnapshotType DEF Reload
  <2> QED
    BY <1>12, <2>1, EndTypes DEF Reload, files, Places
<1> QED
  BY <1>1, <1>2, <1>3, <1>4, <1>5, <1>6, <1>7, <1>8, <1>9, <1>10, <1>11, <1>12 DEF Operator

LEMMA DieType ==
  ASSUME TypeOK, NEW a \in Actors, Die(a)
  PROVE  TypeOK'
<1> USE GovernanceAssumption DEF TypeOK, Actors
<1>1. owed' \subseteq Nat \X Nat
  BY OnFileType DEF Die
<1>2. /\ at' \in [Actors -> Places] /\ memory' \in [Pipelines -> Seq(Nat)]
      /\ name' \in [Operators -> Snapshots \cup {0}] /\ resetting' \in [Operators -> BOOLEAN]
  BY EndTypes DEF Die
<1>3. deaths' \in 0 .. MaxDeaths /\ lost' \in BOOLEAN
  BY DEF Die
<1> QED
  BY <1>1, <1>2, <1>3 DEF Die, stores, Places

LEMMA LearnType == TypeOK /\ Learn => TypeOK'
<1> SUFFICES ASSUME TypeOK, Learn PROVE TypeOK'
  OBVIOUS
<1>1. live' \in [Stores -> SUBSET Items]
  <2>1. PICK s \in Written, x \in Items : live' = [live EXCEPT ![s] = @ \cup {x}]
    BY DEF Learn
  <2> QED
    BY <2>1, GovernanceAssumption DEF TypeOK, Stores
<1> QED
  BY <1>1 DEF Learn, TypeOK, files

LEMMA NamedStep == TypeOK /\ CommandsNamed /\ [Next]_vars => CommandsNamed'
<1> SUFFICES ASSUME TypeOK, CommandsNamed, [Next]_vars, NEW e \in Operators, at'[e] # "out"
             PROVE  name'[e] \in Snapshots
  BY DEF CommandsNamed
<1> USE GovernanceAssumption DEF TypeOK, Actors, CommandsNamed
<1>1. ASSUME NEW p \in Pipelines, Pipeline(p) PROVE at'[e] = at[e] /\ name' = name
  BY <1>1 DEF Pipeline, Boot, AddAmendment, CheckSave, OpenTmp, FillTmp, Replace, Leave,
     Permit, EndRun, Goto
<1>2. ASSUME NEW k \in Operators, Save(k) \/ Reset(k) \/ Load(k) PROVE name'[e] \in Snapshots
  <2>1. ASSUME NEW n \in Snapshots, name' = [name EXCEPT ![k] = n], at' = [at EXCEPT ![k] = at'[k]]
        PROVE  name'[e] \in Snapshots
    BY <2>1
  <2>2. CASE Save(k)
    BY <2>1, <2>2 DEF Save, BeginSnapshot, Goto, Snapshots
  <2>3. CASE Reset(k)
    BY <2>1, <2>3 DEF Reset, BeginSnapshot, Goto, Snapshots, BackupNames
  <2>4. CASE Load(k)
    BY <2>1, <2>4 DEF Load, Goto
  <2> QED
    BY <1>2, <2>2, <2>3, <2>4
<1>3. ASSUME NEW k \in Operators,
             SaveConfig(k) \/ SaveStores(k) \/ CheckLoad(k) \/ TearConstitution(k)
               \/ CopyConstitution(k) \/ Unload(k)
      PROVE  name' = name /\ (at[e] = "out" => at'[e] = "out")
  BY <1>3 DEF SaveConfig, SaveStores, CheckLoad, TearConstitution, CopyConstitution, Unload,
     Permit, Goto
<1>4. ASSUME NEW k \in Operators, SaveMeta(k) \/ Strip(k) \/ Reload(k)
      PROVE  name'[e] = name[e] /\ at[e] # "out"
  BY <1>4 DEF SaveMeta, Strip, Reload, EndCommand, Goto
<1>5. ASSUME NEW a \in Actors, Die(a) PROVE name'[e] = name[e] /\ at[e] # "out"
  BY <1>5 DEF Die, EndRun, EndCommand, Goto
<1>6. CASE Learn \/ UNCHANGED vars
  BY <1>6 DEF Learn, vars
<1> QED
  BY <1>1, <1>2, <1>3, <1>4, <1>5, <1>6 DEF Next, Operator

LEMMA TypeStep == TypeOK /\ CommandsNamed /\ [Next]_vars => TypeOK'
<1> SUFFICES ASSUME TypeOK, CommandsNamed, [Next]_vars PROVE TypeOK'
  OBVIOUS
<1>1. CASE UNCHANGED vars
  BY <1>1 DEF vars, files, stores, TypeOK
<1> QED
  BY <1>1, PipelineType, OperatorType, DieType, LearnType DEF Next

\* Every variable keeps its type, with and without overlapping operations.
THEOREM GovernanceTypeCorrect == Spec => [](TypeOK /\ CommandsNamed)
<1>1. Init => TypeOK /\ CommandsNamed
  BY InitType DEF Init, CommandsNamed, Actors
<1>2. TypeOK /\ CommandsNamed /\ [Next]_vars => (TypeOK /\ CommandsNamed)'
  BY TypeStep, NamedStep
<1> QED
  BY <1>1, <1>2, PTL DEF Spec

-----------------------------------------------------------------------------
(* Operations that do not interleave                                       *)

\* At most one actor is within an operation.
Exclusive == \A a, b \in Actors : Busy(a) /\ Busy(b) => a = b

\* An actor starts an operation only when no one is within one; other steps are
\* taken within an operation or make no actor busy.
LEMMA WhoIsBusy ==
  ASSUME ~Overlap, TypeOK, [Next]_vars, NEW b \in Actors, Busy(b)', ~Busy(b)
  PROVE  /\ \A c \in Actors : ~Busy(c)
         /\ \A c \in Actors : c # b => at'[c] = at[c]
<1> USE GovernanceAssumption DEF TypeOK, Actors, Busy
<1>1. ASSUME NEW p \in Pipelines, Pipeline(p)
      PROVE  /\ \A c \in Actors : c # p => at'[c] = at[c]
             /\ Busy(p)' /\ ~Busy(p) => MayStart
  BY <1>1 DEF Pipeline, Boot, AddAmendment, CheckSave, OpenTmp, FillTmp, Replace, Leave,
     Permit, EndRun, Goto
<1>2. ASSUME NEW k \in Operators, Operator(k)
      PROVE  /\ \A c \in Actors : c # k => at'[c] = at[c]
             /\ Busy(k)' /\ ~Busy(k) => MayStart
  <2>1. CASE Save(k) \/ Reset(k) \/ Load(k)
    BY <2>1 DEF Save, Reset, Load, BeginSnapshot, Goto
  <2>2. CASE SaveConfig(k) \/ SaveStores(k) \/ SaveMeta(k) \/ Strip(k)
    BY <2>2 DEF SaveConfig, SaveStores, SaveMeta, Strip, EndCommand, Goto
  <2>3. CASE CheckLoad(k) \/ TearConstitution(k) \/ CopyConstitution(k) \/ Unload(k) \/ Reload(k)
    BY <2>3 DEF CheckLoad, TearConstitution, CopyConstitution, Unload, Reload, EndCommand,
       Permit, Goto
  <2> QED
    BY <1>2, <2>1, <2>2, <2>3 DEF Operator
<1>3. ASSUME NEW a \in Actors, Die(a) PROVE ~Busy(b)'
  BY <1>3 DEF Die, EndRun, EndCommand, Goto
<1>4. CASE Learn \/ UNCHANGED vars
  BY <1>4 DEF Learn, vars
<1>5. MayStart => \A c \in Actors : ~Busy(c)
  BY DEF MayStart
<1> QED
  BY <1>1, <1>2, <1>3, <1>4, <1>5 DEF Next

LEMMA ExclusiveStep == ~Overlap /\ TypeOK /\ Exclusive /\ [Next]_vars => Exclusive'
<1> SUFFICES ASSUME ~Overlap, TypeOK, Exclusive, [Next]_vars,
                    NEW a \in Actors, NEW b \in Actors, Busy(a)', Busy(b)'
             PROVE  a = b
  BY DEF Exclusive
<1>1. CASE Busy(a) /\ Busy(b)
  BY <1>1 DEF Exclusive
<1>2. CASE ~Busy(a)
  BY <1>2, WhoIsBusy DEF Busy
<1>3. CASE ~Busy(b)
  BY <1>3, WhoIsBusy DEF Busy
<1> QED
  BY <1>1, <1>2, <1>3

-----------------------------------------------------------------------------
(* The constitution                                                        *)

Saving == {"checked", "opened", "filled"}

\* What is owed is on file, and in whatever a permitted write puts there.
LawKept ==
  ~lost =>
    /\ constitution.state = "whole" => owed \subseteq Entries(constitution.text)
    /\ constitution.state # "whole" =>
         constitution = Torn /\ \E k \in Operators : at[k] = "copying"
    /\ \A p \in Pipelines : at[p] \in Saving => owed \subseteq Entries(memory[p])
    /\ \A k \in Operators : at[k] = "copying" => owed \subseteq Entries(snap[name[k]].law.text)

TmpFilled == \A p \in Pipelines : at[p] = "filled" => tmp = Whole(memory[p])

\* A permitted write holds all that is still owed.
LEMMA PermitKeeps ==
  ASSUME NEW new, NEW next, NEW a, Permit(new, next, a), constitution.state = "whole",
         owed \subseteq Entries(constitution.text)
  PROVE  owed' \subseteq Entries(new) /\ owed' \subseteq owed
<1>1. owed' = owed \ {e \in owed : e[1] \in Violations(constitution.text, new)}
  BY DEF Permit
<1>2. SUFFICES ASSUME NEW e \in owed' PROVE e \in Entries(new)
  BY <1>1
<1>3. PICK i \in DOMAIN constitution.text : e = <<i, constitution.text[i]>>
  BY <1>1, <1>2 DEF Entries
<1>4. i \notin Violations(constitution.text, new)
  BY <1>1, <1>2, <1>3
<1>5. i \in DOMAIN new /\ new[i] = constitution.text[i]
  BY <1>4 DEF Violations
<1> QED
  BY <1>3, <1>5 DEF Entries

LEMMA PipelineLaw ==
  ASSUME ~Overlap, TypeOK, Exclusive, LawKept, TmpFilled, NEW p \in Pipelines, Pipeline(p)
  PROVE  LawKept' /\ TmpFilled'
<1> USE GovernanceAssumption DEF TypeOK, Actors
<1>1. CASE Boot(p)
  <2>1. UNCHANGED <<constitution, tmp, owed, lost, snap, name>>
    BY <1>1 DEF Boot
  <2>2. at' = [at EXCEPT ![p] = "running"] /\ memory' = [memory EXCEPT ![p] = constitution.text]
    BY <1>1 DEF Boot, Goto
  <2> QED
    BY <2>1, <2>2 DEF LawKept, TmpFilled, Saving
<1>2. CASE AddAmendment(p)
  <2>1. UNCHANGED <<constitution, tmp, owed, lost, snap, name>>
    BY <1>2 DEF AddAmendment
  <2>2. /\ at' = [at EXCEPT ![p] = "check"]
        /\ \A q \in Pipelines : q # p => memory'[q] = memory[q]
    BY <1>2 DEF AddAmendment, Goto
  <2> QED
    BY <2>1, <2>2 DEF LawKept, TmpFilled, Saving
<1>3. CASE CheckSave(p)
  <2>1. \A c \in Actors : c # p => at[c] \in {"out", "running"}
    BY <1>3 DEF CheckSave, Exclusive, Busy
  <2>2. ~lost => constitution.state = "whole" /\ owed \subseteq Entries(constitution.text)
    BY <1>3, <2>1 DEF LawKept, CheckSave
  <2>3. UNCHANGED <<constitution, tmp, lost, snap, name>>
    BY <1>3 DEF CheckSave
  <2>4. CASE Permit(memory[p], "checked", p) /\ UNCHANGED memory
    <3>1. at' = [at EXCEPT ![p] = "checked"] /\ memory' = memory
      BY <2>4 DEF Permit, Goto
    <3>2. ~lost => owed' \subseteq Entries(memory[p]) /\ owed' \subseteq owed
      BY <2>2, <2>4, PermitKeeps
    <3> QED
      BY <2>1, <2>2, <2>3, <3>1, <3>2 DEF LawKept, TmpFilled, Saving
  <2>5. CASE EndRun(p) /\ UNCHANGED owed
    <3>1. at' = [at EXCEPT ![p] = "out"]
      BY <2>5 DEF EndRun, Goto
    <3> QED
      BY <2>1, <2>2, <2>3, <2>5, <3>1 DEF LawKept, TmpFilled, Saving
  <2> QED
    BY <1>3, <2>4, <2>5 DEF CheckSave
<1>4. CASE OpenTmp(p) \/ FillTmp(p)
  <2>1. \A c \in Actors : c # p => at[c] \in {"out", "running"}
    BY <1>4 DEF OpenTmp, FillTmp, Exclusive, Busy
  <2>2. UNCHANGED <<constitution, memory, owed, lost, snap, name>> /\ at[p] \in Saving
    BY <1>4 DEF OpenTmp, FillTmp, Saving
  <2>3. \/ at' = [at EXCEPT ![p] = "opened"]
        \/ at' = [at EXCEPT ![p] = "filled"] /\ tmp' = Whole(memory[p])
    BY <1>4 DEF OpenTmp, FillTmp, Goto
  <2> QED
    BY <2>1, <2>2, <2>3 DEF LawKept, TmpFilled, Saving
<1>5. CASE Replace(p)
  <2>1. \A c \in Actors : c # p => at[c] \in {"out", "running"}
    BY <1>5 DEF Replace, Exclusive, Busy
  <2>2. tmp = Whole(memory[p]) /\ tmp.state = "whole" /\ tmp.text = memory[p]
    BY <1>5 DEF Replace, TmpFilled, Whole
  <2>3. /\ constitution' = tmp /\ owed' = owed \cup Entries(memory[p])
        /\ at' = [at EXCEPT ![p] = "running"]
        /\ UNCHANGED <<memory, lost, snap, name>>
    BY <1>5, <2>2 DEF Replace, Goto
  <2>4. ~lost => owed \subseteq Entries(memory[p])
    BY <1>5 DEF LawKept, Replace, Saving
  <2>5. constitution'.state = "whole" /\ constitution'.text = memory[p]
    BY <2>2, <2>3
  <2> QED
    BY <2>1, <2>3, <2>4, <2>5 DEF LawKept, TmpFilled, Saving
<1>6. CASE Leave(p)
  <2>1. UNCHANGED <<constitution, tmp, owed, lost, snap, name>>
    BY <1>6 DEF Leave
  <2>2. /\ at' = [at EXCEPT ![p] = "out"]
        /\ \A q \in Pipelines : q # p => memory'[q] = memory[q]
    BY <1>6 DEF Leave, EndRun, Goto
  <2> QED
    BY <2>1, <2>2 DEF LawKept, TmpFilled, Saving
<1> QED
  BY <1>1, <1>2, <1>3, <1>4, <1>5, <1>6 DEF Pipeline

LEMMA OperatorLaw ==
  ASSUME ~Overlap, TypeOK, CommandsNamed, Exclusive, LawKept, TmpFilled,
         NEW k \in Operators, Operator(k)
  PROVE  LawKept' /\ TmpFilled'
<1> USE GovernanceAssumption DEF TypeOK, Actors
<1>1. CASE Save(k) \/ Reset(k) \/ Load(k)
  <2>1. \A c \in Actors : at[c] \in {"out", "running"}
    BY <1>1 DEF Save, Reset, Load, BeginSnapshot, MayStart, Busy
  <2>2. UNCHANGED <<constitution, tmp, memory, owed, lost>>
    BY <1>1 DEF Save, Reset, Load, BeginSnapshot, files
  <2>3. \A c \in Actors : at'[c] = at[c] \/ at'[c] \in {"config", "unload", "law"}
    BY <1>1 DEF Save, Reset, Load, BeginSnapshot, Goto
  <2> QED
    BY <2>1, <2>2, <2>3 DEF LawKept, TmpFilled, Saving
<1>2. CASE SaveConfig(k) \/ SaveStores(k) \/ SaveMeta(k) \/ Strip(k) \/ Unload(k) \/ Reload(k)
  <2>1. /\ \A c \in Actors : c # k => at[c] \in {"out", "running"}
        /\ at[k] \in {"config", "stores", "meta", "strip", "unload", "reload"}
    BY <1>2 DEF SaveConfig, SaveStores, SaveMeta, Strip, Unload, Reload, Exclusive, Busy
  <2>2. UNCHANGED <<constitution, tmp, memory, owed, lost>>
    BY <1>2 DEF SaveConfig, SaveStores, SaveMeta, Strip, Unload, Reload, files
  <2>3. /\ \A c \in Actors : c # k => at'[c] = at[c]
        /\ at'[k] \in {"stores", "meta", "strip", "out", "reload"}
    BY <1>2 DEF SaveConfig, SaveStores, SaveMeta, Strip, Unload, Reload, Goto, EndCommand
  <2> QED
    BY <2>1, <2>2, <2>3 DEF LawKept, TmpFilled, Saving
<1>3. CASE CheckLoad(k)
  <2> DEFINE law == snap[name[k]].law.text
  <2>1. \A c \in Actors : c # k => at[c] \in {"out", "running"}
    BY <1>3 DEF CheckLoad, Exclusive, Busy
  <2>2. ~lost => constitution.state = "whole" /\ owed \subseteq Entries(constitution.text)
    BY <1>3, <2>1 DEF LawKept, CheckLoad
  <2>3. UNCHANGED <<constitution, tmp, memory, lost, snap, name>>
    BY <1>3 DEF CheckLoad
  <2>4. CASE Permit(law, "copying", k)
    <3>1. at' = [at EXCEPT ![k] = "copying"]
      BY <2>4 DEF Permit, Goto
    <3>2. ~lost => owed' \subseteq Entries(law) /\ owed' \subseteq owed
      <4> HIDE DEF law
      <4> QED
        BY <2>2, <2>4, PermitKeeps
    <3> QED
      BY <2>1, <2>2, <2>3, <3>1, <3>2 DEF LawKept, TmpFilled, Saving
  <2>5. CASE Goto(k, "unload") /\ UNCHANGED owed
    BY <2>1, <2>2, <2>3, <2>5 DEF Goto, LawKept, TmpFilled, Saving
  <2> QED
    BY <1>3, <2>4, <2>5 DEF CheckLoad
<1>4. CASE TearConstitution(k)
  <2>1. \A c \in Actors : c # k => at[c] \in {"out", "running"}
    BY <1>4 DEF TearConstitution, Exclusive, Busy
  <2>2. /\ constitution' = Torn /\ at[k] = "copying"
        /\ UNCHANGED <<tmp, memory, owed, lost, at, snap, name>>
    BY <1>4 DEF TearConstitution
  <2> QED
    BY <2>1, <2>2 DEF LawKept, TmpFilled, Saving, Torn
<1>5. CASE CopyConstitution(k)
  <2> DEFINE law == snap[name[k]].law
  <2>1. \A c \in Actors : c # k => at[c] \in {"out", "running"}
    BY <1>5 DEF CopyConstitution, Exclusive, Busy
  <2>2. ~lost => owed \subseteq Entries(law.text)
    BY <1>5 DEF LawKept, CopyConstitution
  <2>3. /\ constitution' = law /\ owed' = owed \cup Entries(law.text)
        /\ lost' = (lost \/ law.state # "whole")
        /\ at' = [at EXCEPT ![k] = "unload"]
        /\ UNCHANGED <<tmp, memory, snap, name>>
    BY <1>5 DEF CopyConstitution, Goto
  <2> HIDE DEF law
  <2> QED
    BY <2>1, <2>2, <2>3 DEF LawKept, TmpFilled, Saving
<1> QED
  BY <1>1, <1>2, <1>3, <1>4, <1>5 DEF Operator

LEMMA OtherLaw ==
  ASSUME ~Overlap, TypeOK, Exclusive, LawKept, TmpFilled,
         Learn \/ (\E a \in Actors : Die(a)) \/ UNCHANGED vars
  PROVE  LawKept' /\ TmpFilled'
<1> USE GovernanceAssumption DEF TypeOK, Actors
<1>1. CASE Learn \/ UNCHANGED vars
  BY <1>1 DEF Learn, vars, files, LawKept, TmpFilled
<1>2. CASE \E a \in Actors : Die(a)
  <2> PICK a \in Actors : Die(a)
    BY <1>2
  <2>1. \A c \in Actors : at'[c] \in {"out", "running"}
    BY DEF Die, EndRun, EndCommand, Goto, Exclusive, Busy
  <2>2. /\ constitution' = constitution /\ owed' = OnFile
        /\ lost' = (lost \/ (at[a] = "copying" /\ constitution = Torn))
        /\ \A c \in Actors : c # a => at[c] \in {"out", "running"}
    BY DEF Die, Exclusive, Busy
  <2>3. ~lost' => ~lost /\ constitution.state = "whole"
    BY <2>2 DEF LawKept
  <2>4. ~lost' => OnFile = Entries(constitution.text)
    BY <2>3 DEF LawKept, OnFile
  <2> QED
    BY <2>1, <2>2, <2>3, <2>4 DEF LawKept, TmpFilled, Saving
<1> QED
  BY <1>1, <1>2

\* Without overlapping operations no amendment on file is lost.
THEOREM GovernanceKeptHolds == ~Overlap /\ Spec => []GovernanceKept
<1> DEFINE LawInv == ~Overlap /\ TypeOK /\ CommandsNamed /\ Exclusive /\ LawKept /\ TmpFilled
<1>1. ~Overlap /\ Init => LawInv
  <2> SUFFICES ASSUME ~Overlap, Init PROVE LawInv
    OBVIOUS
  <2>1. TypeOK
    BY InitType
  <2>2. CommandsNamed /\ Exclusive /\ TmpFilled
    BY DEF Init, Actors, CommandsNamed, Exclusive, Busy, TmpFilled
  <2>3. constitution.state = "whole" /\ constitution.text = Ratified
    BY DEF Init, Whole
  <2>4. LawKept
    BY <2>3 DEF Init, Actors, LawKept, Saving
  <2> QED
    BY <2>1, <2>2, <2>4
<1>2. LawInv /\ [Next]_vars => LawInv'
  BY TypeStep, NamedStep, ExclusiveStep, PipelineLaw, OperatorLaw, OtherLaw DEF Next
<1>3. LawInv => GovernanceKept
  BY DEF LawKept, GovernanceKept
<1> QED
  BY <1>1, <1>2, <1>3, PTL DEF Spec

-----------------------------------------------------------------------------
(* The stores and their backups                                            *)

Resetting(k) == resetting[k] /\ at[k] \in {"config", "stores", "meta", "strip"}

\* Everything stripped is in the backup of a second gone by, or was in one that a
\* later reset of its second replaced, and the backup in progress holds the live
\* store before that is emptied.
BackupAt(k) ==
  /\ at[k] = "strip" => resetting[k]
  /\ at[k] \in {"config", "stores", "meta"} /\ ~resetting[k] => name[k] \in Names
  /\ Resetting(k) => name[k] = second /\ second \in 1 .. MaxSeconds
  /\ Resetting(k) /\ at[k] \in {"config", "stores"} => snap[second].kept["durable"] = {}
  /\ Resetting(k) /\ at[k] \in {"meta", "strip"} =>
       live["durable"] \subseteq snap[second].kept["durable"]

StripKept == \A x \in stripped["durable"] \ replaced : \E n \in 1 .. second : x \in snap[n].kept["durable"]

BackupKept == StripKept /\ \A k \in Operators : BackupAt(k)

\* The seconds gone by name snapshots, none of them an operator's.
LEMMA SecondsType ==
  ASSUME TypeOK
  PROVE  /\ second \in Nat /\ second \in 0 .. MaxSeconds /\ Names \subseteq Snapshots
         /\ \A m \in 1 .. second : m \in Snapshots /\ m \notin Names
<1>1. second \in 0 .. MaxSeconds /\ second \in Nat /\ MaxSeconds \in Nat
  BY GovernanceAssumption DEF TypeOK
<1>2. ASSUME NEW m \in 1 .. second PROVE m \in 1 .. MaxSeconds /\ m \in Nat
  BY <1>1, <1>2
<1> QED
  BY <1>1, <1>2, GovernanceAssumption DEF Snapshots

LEMMA PipelineBackup ==
  ASSUME TypeOK, BackupKept, NEW p \in Pipelines, Pipeline(p)
  PROVE  BackupKept'
<1> USE GovernanceAssumption DEF TypeOK, Actors
<1>1. UNCHANGED <<snap, live, stripped, replaced, second, name, resetting>>
  BY DEF Pipeline, Boot, AddAmendment, CheckSave, OpenTmp, FillTmp, Replace, Leave, stores
<1>2. \A k \in Operators : at'[k] = at[k]
  BY DEF Pipeline, Boot, AddAmendment, CheckSave, OpenTmp, FillTmp, Replace, Leave,
     Permit, EndRun, Goto
<1> QED
  BY <1>1, <1>2 DEF BackupKept, StripKept, BackupAt, Resetting

LEMMA BeginBackup ==
  ASSUME ~Overlap, TypeOK, BackupKept, NEW k \in Operators, Save(k) \/ Reset(k) \/ Load(k)
  PROVE  BackupKept'
<1> USE GovernanceAssumption DEF TypeOK, Actors
<1>1. \A c \in Operators : at[c] \in {"out", "running"}
  BY DEF Save, Reset, Load, BeginSnapshot, MayStart, Busy
<1>2. ASSUME NEW n \in Snapshots, NEW reset \in BOOLEAN, BeginSnapshot(k, n, reset)
      PROVE  /\ at' = [at EXCEPT ![k] = "config"] /\ name' = [name EXCEPT ![k] = n]
             /\ resetting' = [resetting EXCEPT ![k] = reset]
             /\ live' = live /\ stripped' = stripped
             /\ snap'[n].kept["durable"] = {}
             /\ \A m \in Snapshots : m # n => snap'[m] = snap[m]
  BY <1>2 DEF BeginSnapshot, Goto, stores, NewSnapshot, Stores
<1>3. CASE Save(k)
  <2>1. PICK n \in Names : BeginSnapshot(k, n, FALSE) /\ UNCHANGED <<second, replaced>>
    BY <1>3 DEF Save
  <2>2. n \in Snapshots /\ \A m \in 1 .. second : m \in Snapshots /\ m # n
    BY <2>1, SecondsType
  <2>3. StripKept'
    <3>1. UNCHANGED <<stripped, replaced>> /\ \A m \in 1 .. second : snap'[m] = snap[m]
      BY <1>2, <2>1, <2>2
    <3> QED
      BY <2>1, <3>1 DEF BackupKept, StripKept
  <2>4. /\ at' = [at EXCEPT ![k] = "config"] /\ name' = [name EXCEPT ![k] = n]
        /\ resetting' = [resetting EXCEPT ![k] = FALSE]
    BY <1>2, <2>1, <2>2
  <2>5. \A c \in Operators : BackupAt(c)'
    BY <1>1, <2>4 DEF BackupAt, Resetting
  <2> QED
    BY <2>3, <2>5 DEF BackupKept
<1>4. CASE Reset(k)
  <2>1. PICK n \in BackupNames : /\ BeginSnapshot(k, n, TRUE) /\ second' = n
                                /\ replaced' = replaced \cup snap[n].kept["durable"]
    BY <1>4 DEF Reset
  <2>2. /\ n \in {second, second + 1} /\ n \in 1 .. MaxSeconds /\ n \in Snapshots
        /\ \A m \in 1 .. second : m \in Snapshots /\ m \in 1 .. n
    BY <2>1, SecondsType DEF BackupNames, Snapshots
  <2>3. StripKept'
    <3> SUFFICES ASSUME NEW x \in stripped["durable"] \ replaced'
                 PROVE  \E m \in 1 .. n : x \in snap'[m].kept["durable"]
      BY <1>2, <2>1, <2>2 DEF StripKept
    <3>1. PICK m \in 1 .. second : x \in snap[m].kept["durable"]
      BY <2>1 DEF BackupKept, StripKept
    <3>2. m # n /\ m \in 1 .. n /\ m \in Snapshots
      BY <2>1, <2>2, <3>1
    <3>3. snap'[m] = snap[m]
      BY <1>2, <2>1, <2>2, <3>2
    <3> QED
      BY <3>1, <3>2, <3>3
  <2>4. /\ at' = [at EXCEPT ![k] = "config"] /\ name' = [name EXCEPT ![k] = n]
        /\ resetting' = [resetting EXCEPT ![k] = TRUE]
        /\ snap'[n].kept["durable"] = {} /\ second' = n
    BY <1>2, <2>1, <2>2
  <2>5. \A c \in Operators : BackupAt(c)'
    BY <1>1, <2>2, <2>4 DEF BackupAt, Resetting
  <2> QED
    BY <2>3, <2>5 DEF BackupKept
<1>5. CASE Load(k)
  <2>1. UNCHANGED <<snap, live, stripped, replaced, second, resetting>>
    BY <1>5 DEF Load, stores
  <2>2. \A c \in Operators : at'[c] \in {"out", "running", "unload", "law"}
    BY <1>1, <1>5 DEF Load, Goto
  <2> QED
    BY <2>1, <2>2 DEF BackupKept, StripKept, BackupAt, Resetting
<1> QED
  BY <1>3, <1>4, <1>5

LEMMA CommandBackup ==
  ASSUME ~Overlap, TypeOK, CommandsNamed, Exclusive, BackupKept, NEW k \in Operators, Operator(k)
  PROVE  BackupKept'
<1> USE GovernanceAssumption DEF TypeOK, Actors
<1>1. CASE Save(k) \/ Reset(k) \/ Load(k)
  BY <1>1, BeginBackup
<1>2. ASSUME ~(Save(k) \/ Reset(k) \/ Load(k))
      PROVE  /\ second' = second
             /\ \A c \in Operators : c # k => at[c] \in {"out", "running"} /\ at'[c] = at[c]
             /\ at[k] # "out" /\ name[k] \in Snapshots
  <2>1. Busy(k) /\ at[k] # "out"
    BY <1>2 DEF Operator, SaveConfig, SaveStores, SaveMeta, Strip, CheckLoad,
       TearConstitution, CopyConstitution, Unload, Reload, Busy
  <2>2. second' = second /\ \A c \in Operators : c # k => at'[c] = at[c]
    BY <1>2 DEF Operator, SaveConfig, SaveStores, SaveMeta, Strip, CheckLoad,
       TearConstitution, CopyConstitution, Unload, Reload, EndCommand, Permit, Goto
  <2> QED
    BY <2>1, <2>2 DEF Exclusive, Busy, CommandsNamed
<1>3. CASE SaveConfig(k)
  <2>1. /\ \A m \in Snapshots : snap'[m].kept = snap[m].kept
        /\ at' = [at EXCEPT ![k] = "stores"]
        /\ UNCHANGED <<name, resetting, live, stripped, replaced, second>>
    BY <1>3 DEF SaveConfig, Goto, stores, Snapshot
  <2>2. \A m \in 1 .. second : m \in Snapshots
    BY SecondsType
  <2>3. at[k] = "config"
    BY <1>3 DEF SaveConfig
  <2>4. Resetting(k) => second \in 1 .. MaxSeconds /\ second \in Snapshots
    BY DEF BackupKept, BackupAt, Snapshots
  <2>5. StripKept'
    <3>1. \A m \in 1 .. second : snap'[m].kept = snap[m].kept
      BY <2>1, <2>2
    <3> QED
      BY <2>1, <3>1 DEF BackupKept, StripKept
  <2>6. \A c \in Operators : c # k => at'[c] \in {"out", "running"}
    BY <2>1, <2>3 DEF Exclusive, Busy
  <2>7. \A c \in Operators : BackupAt(c)'
    BY <2>1, <2>3, <2>4, <2>6 DEF BackupKept, BackupAt, Resetting
  <2> QED
    BY <2>5, <2>7 DEF BackupKept
<1>4. CASE SaveStores(k)
  <2>1. /\ at[k] = "stores" /\ at' = [at EXCEPT ![k] = "meta"]
        /\ UNCHANGED <<name, resetting, live, stripped, replaced, second>>
        /\ \A m \in Snapshots : m # name[k] => snap'[m] = snap[m]
    BY <1>4 DEF SaveStores, Goto, stores
  <2>2. at[k] # "out" /\ name[k] \in Snapshots
    BY <2>1 DEF CommandsNamed
  <2>3. snap'[name[k]].kept["durable"] = live["durable"]
    BY <1>4, <2>2 DEF SaveStores, Saved, Stores, Snapshot
  <2>4. \A m \in 1 .. second : m \in Snapshots /\ m \notin Names
    BY SecondsType
  <2>5. CASE resetting[k]
    <3>1. name[k] = second /\ second \in 1 .. MaxSeconds /\ snap[second].kept["durable"] = {}
      BY <2>1, <2>5 DEF BackupKept, BackupAt, Resetting
    <3>2. StripKept'
      <4>1. \A m \in 1 .. second : snap[m].kept["durable"] \subseteq snap'[m].kept["durable"]
        BY <2>1, <2>4, <3>1
      <4> QED
        BY <2>1, <4>1 DEF BackupKept, StripKept
    <3>3. \A c \in Operators : c # k => at'[c] \in {"out", "running"}
      BY <2>1 DEF Exclusive, Busy
    <3>4. \A c \in Operators : BackupAt(c)'
      BY <2>1, <2>3, <2>5, <3>1, <3>3 DEF BackupAt, Resetting
    <3> QED
      BY <3>2, <3>4 DEF BackupKept
  <2>6. CASE ~resetting[k]
    <3>1. name[k] \in Names
      BY <2>1, <2>6 DEF BackupKept, BackupAt
    <3>2. StripKept'
      <4>1. \A m \in 1 .. second : snap'[m] = snap[m]
        BY <2>1, <2>4, <3>1
      <4> QED
        BY <2>1, <4>1 DEF BackupKept, StripKept
    <3>3. \A c \in Operators : c # k => at'[c] \in {"out", "running"}
      BY <2>1 DEF Exclusive, Busy
    <3>4. \A c \in Operators : BackupAt(c)'
      BY <2>1, <2>6, <3>1, <3>3 DEF BackupAt, Resetting
    <3> QED
      BY <3>2, <3>4 DEF BackupKept
  <2> QED
    BY <2>5, <2>6
<1>5. CASE SaveMeta(k)
  <2>1. /\ at[k] = "meta" /\ UNCHANGED <<snap, live, stripped, replaced, second>>
        /\ \/ resetting[k] /\ at' = [at EXCEPT ![k] = "strip"] /\ UNCHANGED <<name, resetting>>
           \/ at' = [at EXCEPT ![k] = "out"]
    BY <1>5 DEF SaveMeta, Goto, EndCommand, stores
  <2>2. \A c \in Operators : c # k => at'[c] \in {"out", "running"}
    BY <2>1 DEF Exclusive, Busy
  <2> QED
    BY <2>1, <2>2 DEF BackupKept, StripKept, BackupAt, Resetting
<1>6. CASE Strip(k)
  <2>1. at[k] = "strip" /\ UNCHANGED <<snap, second>> /\ at' = [at EXCEPT ![k] = "out"]
    BY <1>6 DEF Strip, EndCommand, Goto
  <2>2. /\ stripped'["durable"] = stripped["durable"] \cup live["durable"]
        /\ replaced' = replaced \ live["durable"]
    BY <1>6 DEF Strip, Stores
  <2>3. live["durable"] \subseteq snap[second].kept["durable"] /\ second \in 1 .. MaxSeconds
    BY <2>1 DEF BackupKept, BackupAt, Resetting
  <2>4. ASSUME NEW x \in stripped'["durable"] \ replaced'
        PROVE  \E n \in 1 .. second : x \in snap[n].kept["durable"]
    <3>1. CASE x \in stripped["durable"] \ replaced
      BY <3>1 DEF BackupKept, StripKept
    <3>2. CASE x \in live["durable"]
      <4>1. second \in 1 .. second
        BY <2>3, SecondsType
      <4> QED
        BY <2>3, <3>2, <4>1
    <3> QED
      BY <2>2, <2>4, <3>1, <3>2
  <2>5. \A c \in Operators : at'[c] \in {"out", "running"}
    BY <2>1 DEF Exclusive, Busy
  <2>6. StripKept'
    BY <2>1, <2>4 DEF StripKept
  <2> QED
    BY <2>5, <2>6 DEF BackupKept, BackupAt, Resetting
<1>7. CASE CheckLoad(k) \/ TearConstitution(k) \/ CopyConstitution(k) \/ Unload(k) \/ Reload(k)
  <2>1. at[k] \in {"law", "copying", "unload", "reload"} /\ UNCHANGED <<snap, stripped, replaced, second>>
    BY <1>7 DEF CheckLoad, TearConstitution, CopyConstitution, Unload, Reload, stores
  <2>2. at'[k] \in {"copying", "unload", "reload", "out"}
    BY <1>7 DEF CheckLoad, TearConstitution, CopyConstitution, Unload, Reload, EndCommand,
       Permit, Goto
  <2>3. \A c \in Operators : c # k => at'[c] \in {"out", "running"}
    BY <1>7, <2>1 DEF CheckLoad, TearConstitution, CopyConstitution, Unload, Reload,
       EndCommand, Permit, Goto, Exclusive, Busy
  <2> QED
    BY <2>1, <2>2, <2>3 DEF BackupKept, StripKept, BackupAt, Resetting
<1> QED
  BY <1>1, <1>3, <1>4, <1>5, <1>6, <1>7 DEF Operator

LEMMA OtherBackup ==
  ASSUME ~Overlap, TypeOK, Exclusive, BackupKept,
         Learn \/ (\E a \in Actors : Die(a)) \/ UNCHANGED vars
  PROVE  BackupKept'
<1> USE GovernanceAssumption DEF TypeOK, Actors
<1>1. CASE UNCHANGED vars
  BY <1>1 DEF vars, stores, BackupKept, StripKept, BackupAt, Resetting
<1>2. CASE Learn
  <2>1. \A c \in Operators : at[c] \in {"out", "running"}
    BY <1>2 DEF Learn, MayStart, Busy
  <2>2. UNCHANGED <<at, snap, stripped, replaced, second>>
    BY <1>2 DEF Learn
  <2> QED
    BY <2>1, <2>2 DEF BackupKept, StripKept, BackupAt, Resetting
<1>3. CASE \E a \in Actors : Die(a)
  <2>1. \A c \in Operators : at'[c] \in {"out", "running"}
    BY <1>3 DEF Die, EndRun, EndCommand, Goto, Exclusive, Busy
  <2>2. UNCHANGED <<snap, stripped, replaced, second>>
    BY <1>3 DEF Die, stores
  <2> QED
    BY <2>1, <2>2 DEF BackupKept, StripKept, BackupAt, Resetting
<1> QED
  BY <1>1, <1>2, <1>3

\* Without overlapping operations what a reset deletes from the durable stores is in
\* a backup, over resets that follow one another or die, until a later reset that
\* starts in the same second replaces that.
THEOREM StrippedIsBackedUpHolds == ~Overlap /\ Spec => []StrippedIsBackedUp
<1> DEFINE StoreInv == ~Overlap /\ TypeOK /\ CommandsNamed /\ Exclusive /\ BackupKept
<1>1. ~Overlap /\ Init => StoreInv
  <2> SUFFICES ASSUME ~Overlap, Init PROVE StoreInv
    OBVIOUS
  <2>1. TypeOK
    BY InitType
  <2>2. CommandsNamed /\ Exclusive
    BY DEF Init, Actors, CommandsNamed, Exclusive, Busy
  <2>3. \A k \in Operators : at[k] = "out"
    BY DEF Init, Actors
  <2>4. stripped["durable"] = {}
    BY DEF Init, Stores
  <2>5. BackupKept
    BY <2>3, <2>4 DEF BackupKept, StripKept, BackupAt, Resetting
  <2> QED
    BY <2>1, <2>2, <2>5
<1>2. StoreInv /\ [Next]_vars => StoreInv'
  BY TypeStep, NamedStep, ExclusiveStep, PipelineBackup, CommandBackup, OtherBackup DEF Next
<1>3. StoreInv => StrippedIsBackedUp
  <2> SUFFICES ASSUME StoreInv, NEW x \in stripped["durable"] \ replaced
               PROVE  x \in UNION {snap[n].kept["durable"] : n \in Snapshots}
    BY DEF StrippedIsBackedUp
  <2>1. PICK n \in 1 .. second : x \in snap[n].kept["durable"]
    BY DEF BackupKept, StripKept
  <2>2. n \in Snapshots
    BY GovernanceAssumption DEF TypeOK, Snapshots
  <2> QED
    BY <2>1, <2>2
<1> QED
  BY <1>1, <1>2, <1>3, PTL DEF Spec
=============================================================================
