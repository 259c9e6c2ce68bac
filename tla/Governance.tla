----------------------------- MODULE Governance -----------------------------
(***************************************************************************)
(* The constitution file, its amendment guard and the snapshots of what an *)
(* installation has learned: scripts/constitution.py,                      *)
(* constitution_guard.py, snapshot_manager.py and durable_paths.py.        *)
(*                                                                         *)
(* Pipelines load config/constitution.json when they boot, keep it in      *)
(* memory for the run and append each approved DELTA to it.  The commands  *)
(* --save-snapshot, --load-snapshot and --reset-snapshot run beside them   *)
(* in processes of their own.  No lock is shared between processes: with   *)
(* Overlap FALSE the operations (one save of the constitution, one command,*)
(* one learned item) do not interleave but their processes still do, so a  *)
(* pipeline works on a memory that others have made stale; with Overlap    *)
(* TRUE the steps of operations interleave too.                            *)
(*                                                                         *)
(* An amendment is its text, a number; its id is its place in the layer    *)
(* (Constitution._next_id).  The seed laws and the amendments ratified     *)
(* before are the first place.                                             *)
(***************************************************************************)
EXTENDS Naturals, Sequences, FiniteSets

CONSTANTS
  Pipelines,   \* runs of the pipeline
  Operators,   \* shells in which snapshot commands are typed
  Names,       \* snapshot names the operator gives
  Items,       \* what an installation can learn
  Written,     \* the stores its runs write
  Overlap,     \* may steps of two operations interleave?
  MaxDrafts,   \* bound: DELTAs ever approved
  MaxSeconds,  \* bound: seconds in which a reset starts
  MaxDeaths    \* bound: processes that die within an operation

ASSUME GovernanceAssumption ==
  /\ Overlap \in BOOLEAN
  /\ Written \subseteq {"durable", "ontology"}
  /\ MaxDrafts \in Nat /\ MaxSeconds \in Nat /\ MaxDeaths \in Nat
  /\ Pipelines \cap Operators = {}
  /\ Names \cap Nat = {}

Actors == Pipelines \cup Operators

\* A reset backs up under pre_reset_<second>.
Snapshots == Names \cup 1 .. MaxSeconds

\* The stores derived from usage: the resettable subdirectories of durable/,
\* which snapshots hold, and ontology/stores, which they do not.
Stores == {"durable", "ontology"}
Saved == {"durable"}

\* A constitution file: not there, cut short, or a list of amendments.
File == [state : {"absent", "torn", "whole"}, text : Seq(Nat)]
Absent == [state |-> "absent", text |-> <<>>]
Torn == [state |-> "torn", text |-> <<>>]
Whole(text) == [state |-> "whole", text |-> text]

VARIABLES
  constitution,  \* config/constitution.json
  tmp,           \* constitution.json.tmp, one path for all processes
  memory,        \* the constitution a pipeline has loaded
  drafted,       \* DELTAs approved so far
  at,            \* where an actor is
  name,          \* the snapshot an operator's command works on
  resetting,     \* does the save in progress belong to a reset?
  snap,          \* snapshots/<name>
  live,          \* the stores
  second,        \* the last second in which a reset started
  deaths,
  owed,          \* history: <<id, text>> of amendments on file and never released
  lost,          \* history: a restore died while it copied the constitution
  stripped,      \* history: what resets have deleted, by store
  replaced       \* history: what was in a backup that a later reset removed, and
                 \* was not deleted again since

files == <<constitution, tmp, memory, drafted, owed, lost>>
stores == <<live, stripped, replaced>>
vars == <<files, at, name, resetting, snap, stores, second, deaths>>

NewSnapshot(there) == [there |-> there, law |-> Absent, has |-> {}, kept |-> [s \in Stores |-> {}]]
Snapshot == [there : BOOLEAN, law : File, has : SUBSET Stores, kept : [Stores -> SUBSET Items]]

Ratified == <<0>>
Entries(text) == {<<i, text[i]>> : i \in DOMAIN text}

\* Every variable keeps its type.
TypeOK ==
  /\ constitution \in File /\ tmp \in File
  /\ memory \in [Pipelines -> Seq(Nat)]
  /\ drafted \in 0 .. MaxDrafts
  /\ at \in [Actors -> {"out", "running", "check", "checked", "opened", "filled",
                        "config", "stores", "meta", "strip", "law", "copying", "unload", "reload"}]
  /\ name \in [Operators -> Snapshots \cup {0}]
  /\ resetting \in [Operators -> BOOLEAN]
  /\ snap \in [Snapshots -> Snapshot]
  /\ live \in [Stores -> SUBSET Items]
  /\ second \in 0 .. MaxSeconds
  /\ deaths \in 0 .. MaxDeaths
  /\ owed \subseteq Nat \X Nat
  /\ lost \in BOOLEAN
  /\ stripped \in [Stores -> SUBSET Items]
  /\ replaced \subseteq Items

Init ==
  /\ constitution = Whole(Ratified)
  /\ tmp = Absent
  /\ memory = [p \in Pipelines |-> <<>>]
  /\ drafted = 0
  /\ at = [a \in Actors |-> "out"]
  /\ name = [k \in Operators |-> 0]
  /\ resetting = [k \in Operators |-> FALSE]
  /\ snap = [n \in Snapshots |-> NewSnapshot(FALSE)]
  /\ live = [s \in Stores |-> {}]
  /\ second = 0
  /\ deaths = 0
  /\ owed = Entries(Ratified)
  /\ lost = FALSE
  /\ stripped = [s \in Stores |-> {}]
  /\ replaced = {}

Busy(a) == at[a] \notin {"out", "running"}
MayStart == Overlap \/ \A a \in Actors : ~Busy(a)
Goto(a, place) == at' = [at EXCEPT ![a] = place]

\* A run or a command ends, and its process with it.
EndRun(p) == Goto(p, "out") /\ memory' = [memory EXCEPT ![p] = <<>>]
EndCommand(k) ==
  /\ Goto(k, "out")
  /\ name' = [name EXCEPT ![k] = 0]
  /\ resetting' = [resetting EXCEPT ![k] = FALSE]

-----------------------------------------------------------------------------
(* The guard                                                               *)

\* verify_amendment_append: more than one id is new.
TooMany(old, new) == Len(new) > Len(old) + 1

\* The ids of existing entries that the write would delete or modify, seen by
\* id only, as a guard blind to rewritten entries would.
DeletedOnly(old, new) == {i \in DOMAIN old : i \notin DOMAIN new}

\* protected_violations: the ids of existing entries that the write would
\* delete or modify.
Violations(old, new) == {i \in DOMAIN old : i \notin DOMAIN new \/ new[i] # old[i]}

\* check_constitution_change: a current file that is missing or unreadable is
\* compared with nothing; a violation passes if the operator approves it, and
\* the entries it names are released.
Permit(new, next, actor) ==
  IF constitution.state # "whole"
    THEN Goto(actor, next) /\ UNCHANGED owed
    ELSE /\ ~TooMany(constitution.text, new)
         /\ Goto(actor, next)
         /\ owed' = owed \ {e \in owed : e[1] \in Violations(constitution.text, new)}

\* A write that was permitted and never made releases nothing.
OnFile ==
  owed \cup (IF constitution.state = "whole" THEN Entries(constitution.text) ELSE {})

Denied(new) ==
  /\ constitution.state = "whole"
  /\ TooMany(constitution.text, new) \/ Violations(constitution.text, new) # {}

-----------------------------------------------------------------------------
(* A pipeline: Constitution.load, add_amendment, save                      *)

Boot(p) ==
  /\ at[p] = "out"
  /\ constitution.state = "whole"
  /\ memory' = [memory EXCEPT ![p] = constitution.text]
  /\ Goto(p, "running")
  /\ UNCHANGED <<constitution, tmp, drafted, owed, lost, name, resetting, snap, stores,
                 second, deaths>>

\* The operator approved a DELTA; it is appended in memory first.
AddAmendment(p) ==
  /\ at[p] = "running"
  /\ MayStart
  /\ drafted < MaxDrafts
  /\ drafted' = drafted + 1
  /\ memory' = [memory EXCEPT ![p] = Append(@, drafted + 1)]
  /\ Goto(p, "check")
  /\ UNCHANGED <<constitution, tmp, owed, lost, name, resetting, snap, stores, second, deaths>>

\* save(): the guard.  GuardError leaves the run.
CheckSave(p) ==
  /\ at[p] = "check"
  /\ \/ Permit(memory[p], "checked", p) /\ UNCHANGED memory
     \/ Denied(memory[p]) /\ EndRun(p) /\ UNCHANGED owed
  /\ UNCHANGED <<constitution, tmp, drafted, lost, name, resetting, snap, stores,
                 second, deaths>>

\* save(): the temporary file is truncated, filled and moved into place.
OpenTmp(p) ==
  /\ at[p] = "checked"
  /\ tmp' = Torn
  /\ Goto(p, "opened")
  /\ UNCHANGED <<constitution, memory, drafted, owed, lost, name, resetting, snap, stores,
                 second, deaths>>

FillTmp(p) ==
  /\ at[p] = "opened"
  /\ tmp' = Whole(memory[p])
  /\ Goto(p, "filled")
  /\ UNCHANGED <<constitution, memory, drafted, owed, lost, name, resetting, snap, stores,
                 second, deaths>>

\* Another process may have moved the file away (the run fails) or cut it short.
Replace(p) ==
  /\ at[p] = "filled"
  /\ IF tmp.state = "absent"
       THEN EndRun(p) /\ UNCHANGED <<constitution, tmp>> /\ owed' = OnFile
       ELSE /\ constitution' = tmp
            /\ tmp' = Absent
            /\ owed' = owed \cup Entries(tmp.text)
            /\ Goto(p, "running") /\ UNCHANGED memory
  /\ UNCHANGED <<drafted, lost, name, resetting, snap, stores, second, deaths>>

\* The run ends between two of its operations.
Leave(p) ==
  /\ at[p] = "running"
  /\ EndRun(p)
  /\ UNCHANGED <<constitution, tmp, drafted, owed, lost, name, resetting, snap, stores, second, deaths>>

\* A run concludes something from a document.
Learn ==
  /\ MayStart
  /\ \E s \in Written, x \in Items :
       /\ x \notin live[s]
       /\ live' = [live EXCEPT ![s] = @ \cup {x}]
  /\ UNCHANGED <<files, at, name, resetting, snap, stripped, replaced, second, deaths>>

-----------------------------------------------------------------------------
(* save_snapshot                                                           *)

\* An existing directory is removed first, which needs --overwrite-snapshot.
BeginSnapshot(k, n, reset) ==
  /\ at[k] = "out"
  /\ MayStart
  /\ name' = [name EXCEPT ![k] = n]
  /\ resetting' = [resetting EXCEPT ![k] = reset]
  /\ snap' = [snap EXCEPT ![n] = NewSnapshot(TRUE)]
  /\ Goto(k, "config")
  /\ UNCHANGED <<files, live, stripped, deaths>>

Save(k) == \E n \in Names : BeginSnapshot(k, n, FALSE) /\ UNCHANGED <<second, replaced>>

SaveConfig(k) ==
  /\ at[k] = "config"
  /\ snap' = [snap EXCEPT ![name[k]] = [@ EXCEPT !.law = constitution]]
  /\ Goto(k, "stores")
  /\ UNCHANGED <<files, name, resetting, stores, second, deaths>>

SaveStores(k) ==
  /\ at[k] = "stores"
  /\ snap' = [snap EXCEPT ![name[k]] =
                [@ EXCEPT !.has = Saved,
                          !.kept = [s \in Stores |-> IF s \in Saved THEN live[s] ELSE {}]]]
  /\ Goto(k, "meta")
  /\ UNCHANGED <<files, name, resetting, stores, second, deaths>>

\* _snapshot.json, which no reader of a snapshot asks for.
SaveMeta(k) ==
  /\ at[k] = "meta"
  /\ IF resetting[k] THEN Goto(k, "strip") /\ UNCHANGED <<name, resetting>>
                     ELSE EndCommand(k)
  /\ UNCHANGED <<files, snap, stores, second, deaths>>

-----------------------------------------------------------------------------
(* reset_snapshot                                                          *)

\* The backup is named by the second the reset starts in: the second of the reset
\* before it, or a later one.  A backup of that name is replaced.
BackupNames == {second, second + 1} \cap 1 .. MaxSeconds

Reset(k) ==
  \E n \in BackupNames :
    /\ BeginSnapshot(k, n, TRUE)
    /\ second' = n
    /\ replaced' = replaced \cup snap[n].kept["durable"]

\* Every usage-derived store is emptied; the governance files are not touched.
Strip(k) ==
  /\ at[k] = "strip"
  /\ stripped' = [s \in Stores |-> stripped[s] \cup live[s]]
  /\ replaced' = replaced \ live["durable"]
  /\ live' = [s \in Stores |-> {}]
  /\ EndCommand(k)
  /\ UNCHANGED <<files, snap, second, deaths>>

-----------------------------------------------------------------------------
(* load_snapshot                                                           *)

Load(k) ==
  /\ at[k] = "out"
  /\ MayStart
  /\ \E n \in Snapshots :
       /\ snap[n].there
       /\ name' = [name EXCEPT ![k] = n]
       /\ Goto(k, IF snap[n].law.state = "absent" THEN "unload" ELSE "law")
  /\ UNCHANGED <<files, resetting, snap, stores, second, deaths>>

\* The guard again; an unreadable snapshot is compared as an empty constitution.
\* Denied, the live file is kept and the restore goes on.
CheckLoad(k) ==
  /\ at[k] = "law"
  /\ LET law == snap[name[k]].law.text
     IN  \/ Permit(law, "copying", k)
         \/ Denied(law) /\ Goto(k, "unload") /\ UNCHANGED owed
  /\ UNCHANGED <<constitution, tmp, memory, drafted, lost, name, resetting, snap, stores,
                 second, deaths>>

\* copy2 is not atomic: the live file is torn before it is whole.
TearConstitution(k) ==
  /\ at[k] = "copying"
  /\ constitution # Torn
  /\ constitution' = Torn
  /\ UNCHANGED <<tmp, memory, drafted, owed, lost, at, name, resetting, snap, stores,
                 second, deaths>>

CopyConstitution(k) ==
  /\ at[k] = "copying"
  /\ constitution = Torn
  /\ constitution' = snap[name[k]].law
  /\ owed' = owed \cup Entries(snap[name[k]].law.text)
  /\ lost' = (lost \/ snap[name[k]].law.state # "whole")
  /\ Goto(k, "unload")
  /\ UNCHANGED <<tmp, memory, drafted, name, resetting, snap, stores, second, deaths>>

\* rmtree of the live stores the snapshot has, then copytree.
Unload(k) ==
  /\ at[k] = "unload"
  /\ live' = [s \in Stores |-> IF s \in snap[name[k]].has THEN {} ELSE live[s]]
  /\ Goto(k, "reload")
  /\ UNCHANGED <<files, name, resetting, snap, stripped, replaced, second, deaths>>

Reload(k) ==
  /\ at[k] = "reload"
  /\ live' = [s \in Stores |-> IF s \in snap[name[k]].has THEN snap[name[k]].kept[s] ELSE live[s]]
  /\ EndCommand(k)
  /\ UNCHANGED <<files, snap, stripped, replaced, second, deaths>>

-----------------------------------------------------------------------------
\* A mutant: a backup that fails does not abort its reset.
DieButStrip(a) ==
  /\ deaths < MaxDeaths
  /\ Busy(a)
  /\ deaths' = deaths + 1
  /\ lost' = (lost \/ (at[a] = "copying" /\ constitution = Torn))
  /\ owed' = OnFile
  /\ \/ a \in Pipelines /\ EndRun(a) /\ UNCHANGED <<name, resetting>>
     \/ a \in Operators /\ resetting[a] /\ Goto(a, "strip") /\ UNCHANGED <<memory, name, resetting>>
     \/ a \in Operators /\ ~resetting[a] /\ EndCommand(a) /\ UNCHANGED memory
  /\ UNCHANGED <<constitution, tmp, drafted, snap, stores, second>>

\* A kill or an exception in the middle of an operation; a save_snapshot that
\* raises aborts its reset.
Die(a) ==
  /\ deaths < MaxDeaths
  /\ Busy(a)
  /\ deaths' = deaths + 1
  /\ lost' = (lost \/ (at[a] = "copying" /\ constitution = Torn))
  /\ owed' = OnFile
  /\ \/ a \in Pipelines /\ EndRun(a) /\ UNCHANGED <<name, resetting>>
     \/ a \in Operators /\ EndCommand(a) /\ UNCHANGED memory
  /\ UNCHANGED <<constitution, tmp, drafted, snap, stores, second>>

Pipeline(p) ==
  \/ Boot(p) \/ AddAmendment(p) \/ CheckSave(p) \/ OpenTmp(p) \/ FillTmp(p)
  \/ Replace(p) \/ Leave(p)

Operator(k) ==
  \/ Save(k) \/ SaveConfig(k) \/ SaveStores(k) \/ SaveMeta(k) \/ Reset(k) \/ Strip(k)
  \/ Load(k) \/ CheckLoad(k) \/ TearConstitution(k) \/ CopyConstitution(k)
  \/ Unload(k) \/ Reload(k)

Next ==
  \/ \E p \in Pipelines : Pipeline(p)
  \/ \E k \in Operators : Operator(k)
  \/ \E a \in Actors : Die(a)
  \/ Learn

Spec == Init /\ [][Next]_vars

-----------------------------------------------------------------------------
\* An amendment or seed law that was ever on file is there under its id with its
\* text, unless the operator approved a write that named it: stale memories,
\* restores of older snapshots and processes that die do not lose one.  A restore
\* that dies while it copies is the exception: the guard then has nothing to
\* compare with.
GovernanceKept ==
  constitution.state = "whole" /\ ~lost => owed \subseteq Entries(constitution.text)

BackedUp(s) == stripped[s] \subseteq UNION {snap[n].kept[s] : n \in Snapshots}

\* What a reset deletes from the durable stores is in a snapshot from then on,
\* over resets that follow one another, die half-way or are followed by restores,
\* until a later reset that starts in the same second replaces its backup.
StrippedIsBackedUp ==
  stripped["durable"] \ replaced \subseteq UNION {snap[n].kept["durable"] : n \in Snapshots}

-----------------------------------------------------------------------------
(* Comments TLC refutes.                                                   *)

\* "only after an automatic backup snapshot is written first (never
\* strip-without-backup)" (snapshot_manager.py:227), for the durable stores:
\* two resets in one second leave only the backup of the second.
DurableIsBackedUp == BackedUp("durable")

\* The same for all that a reset deletes.
NothingStrippedForGood == \A s \in Stores : BackedUp(s)
=============================================================================
