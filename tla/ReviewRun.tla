------------------------------ MODULE ReviewRun ------------------------------
(***************************************************************************)
(* One review run of scripts/pipeline.py (main), from the run folder to    *)
(* the completion record, and the installation it leaves to the next run.  *)
(*                                                                         *)
(* A run passes gates that cost nothing (meta-law signature, sensitivity   *)
(* layer, models, redaction), may write a memo into the operator's own     *)
(* folder (draft), chooses the documents under review, works on them with  *)
(* paid calls, screens the deliverables and removes the memo.  It can be   *)
(* killed, interrupted or fail between any two steps; the operator keeps   *)
(* editing input/context while it runs.                                    *)
(*                                                                         *)
(* Data are abstracted to what the properties tell apart: a file is absent,*)
(* the operator's or the system's; a deliverable is raw or scrubbed; the   *)
(* governance ledger holds the entries of the current run.                 *)
(***************************************************************************)
EXTENDS Naturals, FiniteSets

CONSTANTS
  Docs,        \* the operator's documents in input/context
  Memos,       \* file names of draft memos, one per question
  Recent,      \* the files the date cutoff puts under review
  Shaped,      \* the files that hold a shape an operator rule protects
  MaxRuns,     \* bound: runs of the installation
  MaxEdits     \* bound: operator edits of input/context

ASSUME FilesAssumption == Docs \cap Memos = {} /\ Recent \subseteq Docs \cup Memos
                          /\ Shaped \subseteq Docs \cup Memos
ASSUME BoundAssumption == MaxRuns \in Nat /\ MaxEdits \in Nat

Files == Docs \cup Memos
NoManifest == [source |-> "none", targets |-> {}, grounding |-> {}]
Manifests == [source : {"none", "operator", "convention", "system_draft"},
              targets : SUBSET Files, grounding : SUBSET Files]
Tasks == {"review", "draft", "multi_round"}
Args == [task : Tasks, memo : Memos, interactive : BOOLEAN,
         override : BOOLEAN, waive : BOOLEAN]
Screening == {"unscreened", "unlisted", "SKIPPED", "NONE", "APPLIED", "BLOCKED", "HELD_WARNING"}
Steps == {"idle", "meta", "sensitivity", "models", "redaction", "draft", "generate", "write",
          "name", "multi_round", "clear", "resolve", "copy", "confirm", "boot", "rules",
          "produce", "audit", "synthesize", "editorial", "escalate", "screen", "count",
          "preserve", "unlink_memo", "unlink_manifest", "end"}
RunRecord == [redact : BOOLEAN, paid : BOOLEAN, selected : SUBSET Files, opDocs : SUBSET Files,
              ruled : BOOLEAN, masters : SUBSET Files, edited : BOOLEAN, board : BOOLEAN,
              incomplete : BOOLEAN]
CompletionRecord ==
  [state : {"none", "running", "completed", "stopped", "interrupted", "failed"},
   reached : BOOLEAN, code : 0..8]
NoRun == [redact |-> TRUE, paid |-> FALSE, selected |-> {}, opDocs |-> {}, ruled |-> FALSE,
          masters |-> {}, edited |-> FALSE, board |-> FALSE, incomplete |-> FALSE]
NoCompletion == [state |-> "none", reached |-> FALSE, code |-> 0]

VARIABLES
  layerActive,  \* sensitivity_layer.LAYER_ACTIVE of this installation
  context,      \* input/context: who owns each file
  manifest,     \* input/context/_review_targets.json
  mandate,      \* the targets review_mandate.md names
  operational,  \* input/operational
  runs, edits,  \* what the bounds count
  pc, args, run,
  screening,    \* what phase 9 recorded of each document
  clean,        \* the documents whose deliverables were scrubbed and verified
  ledger,       \* the governance ledger's entries of this run
  preserved,    \* the memos copied into this run's deliverables
  completion    \* audit/run_completion.json

installation == <<layerActive, mandate, runs, edits>>
folders == <<context, manifest, operational>>
screened == <<screening, clean>>
record == <<ledger, preserved>>
vars == <<installation, folders, pc, args, run, screened, record, completion>>

Here == {f \in Files : context[f] # "absent"}
Format(d) == <<"format_warning", d>>
LedgerEntries == {<<"override">>, <<"waiver">>} \cup {Format(d) : d \in Files}

Init ==
  /\ layerActive \in BOOLEAN
  /\ context = [f \in Files |-> IF f \in Docs THEN "operator" ELSE "absent"]
  /\ manifest = NoManifest
  /\ mandate \in {{}} \cup {{d} : d \in Docs}
  /\ operational = {}
  /\ runs = 0 /\ edits = 0
  /\ pc = "idle" /\ args \in Args /\ args.task = "review" /\ ~args.interactive
  /\ ~args.override /\ ~args.waive
  /\ run = NoRun
  /\ screening = [d \in Files |-> "unscreened"] /\ clean = {}
  /\ ledger = {} /\ preserved = {}
  /\ completion = NoCompletion

-----------------------------------------------------------------------------
(* How a run ends                                                           *)

(* The completion record after a normal return: completed only with the end
   mark, code 0 and every optimized call accepted. *)
Return(code, reached) ==
  /\ completion' = [state |-> IF reached /\ code = 0 /\ ~run'.incomplete
                              THEN "completed" ELSE "stopped",
                    reached |-> reached, code |-> code]
  /\ pc' = "idle"

Stop(code) == UNCHANGED run /\ Return(code, FALSE)

(* An exception, an interruption or SystemExit leaves through the decorator. *)
Raise ==
  /\ pc # "idle"
  /\ \E s \in {"failed", "interrupted"} :
        completion' = [completion EXCEPT !.state = s]
  /\ pc' = "idle"
  /\ UNCHANGED <<installation, folders, args, run, screened, record>>

(* A hard kill (cancel, power) leaves the record at running. *)
Kill ==
  /\ pc # "idle"
  /\ pc' = "idle"
  /\ UNCHANGED <<installation, folders, args, run, screened, record, completion>>

-----------------------------------------------------------------------------
(* Plausible slips, used to show that the properties can fail               *)

(* The override is accepted without its ledger entry. *)
SensitivityUnlogged ==
  /\ pc = "sensitivity"
  /\ \/ layerActive /\ pc' = "models" /\ UNCHANGED <<run, completion>>
     \/ ~layerActive /\ (~args.override \/ args.interactive) /\ Stop(6)
     \/ ~layerActive /\ args.override /\ pc' = "models" /\ UNCHANGED <<run, completion>>
  /\ UNCHANGED <<installation, folders, args, screened, record>>

(* A survivor or an unresolved answer does not reach the exit code. *)
NeverBlocked == FALSE

(* Documents are copied over what the folder held. *)
KeepOperational ==
  /\ pc = "clear"
  /\ pc' = "resolve"
  /\ UNCHANGED <<installation, folders, args, run, screened, record, completion>>

(* The manifest is removed, the memo is not. *)
UnlinkNothing ==
  /\ pc = "unlink_memo"
  /\ pc' = "unlink_manifest"
  /\ UNCHANGED <<installation, folders, args, run, screened, record, completion>>

(* The memo is opened for writing, not created exclusively. *)
OverwriteMemo ==
  /\ pc = "write"
  /\ context' = [context EXCEPT ![args.memo] = "system"]
  /\ pc' = "name"
  /\ UNCHANGED <<installation, manifest, operational, args, run, screened, record, completion>>

-----------------------------------------------------------------------------
(* The gates                                                                *)

Begin(a) ==
  /\ pc = "idle" /\ runs < MaxRuns
  /\ runs' = runs + 1 /\ args' = a /\ run' = NoRun
  /\ screening' = [d \in Files |-> "unscreened"] /\ clean' = {}
  /\ ledger' = {} /\ preserved' = {}
  /\ IF a.task = "multi_round" /\ ~(a.waive /\ a.override)
       THEN Return(8, FALSE)
       ELSE /\ pc' = "meta"
            /\ completion' = [NoCompletion EXCEPT !.state = "running"]
  /\ UNCHANGED <<layerActive, mandate, edits, folders>>

(* Operator input that matches the meta-law signature: only an interactive
   operator can decline. *)
MetaGate ==
  /\ pc = "meta"
  /\ \/ pc' = "sensitivity" /\ UNCHANGED <<run, completion>>
     \/ args.interactive /\ Stop(7)
  /\ UNCHANGED <<installation, folders, args, screened, record>>

(* With the layer inactive a run starts only when declared non-sensitive, and
   the declaration is on the ledger first. *)
SensitivityGate ==
  /\ pc = "sensitivity"
  /\ \/ layerActive /\ pc' = "models" /\ UNCHANGED <<run, ledger, completion>>
     \/ ~layerActive /\ (~args.override \/ args.interactive)
        /\ Stop(6) /\ UNCHANGED ledger
     \/ ~layerActive /\ args.override
        /\ ledger' = ledger \cup {<<"override">>}
        /\ pc' = "models" /\ UNCHANGED <<run, completion>>
  /\ UNCHANGED <<installation, folders, args, screened, preserved>>

ModelGate ==
  /\ pc = "models"
  /\ \/ pc' = "redaction" /\ UNCHANGED <<run, completion>>
     \/ Stop(3)
  /\ UNCHANGED <<installation, folders, args, screened, record>>

RedactionGate ==
  /\ pc = "redaction"
  /\ \E configured \in BOOLEAN :
       \/ args.waive /\ args.interactive /\ Stop(4) /\ UNCHANGED ledger
       \/ ~args.waive /\ ~configured /\ Stop(4) /\ UNCHANGED ledger
       \/ /\ args.waive \/ configured
          /\ run' = [run EXCEPT !.redact = ~args.waive]
          /\ ledger' = ledger \cup {<<"waiver">> : w \in {TRUE} \cap {args.waive}}
          /\ pc' = CASE args.task = "draft" -> "draft"
                     [] args.task = "multi_round" -> "multi_round"
                     [] OTHER -> "clear"
          /\ UNCHANGED completion
  /\ UNCHANGED <<installation, folders, args, screened, preserved>>

-----------------------------------------------------------------------------
(* Draft phase 0 and the multi-round case path                              *)

CheckMemoName ==
  /\ pc = "draft"
  /\ \/ context[args.memo] # "absent" /\ Stop(5)
     \/ context[args.memo] = "absent" /\ pc' = "generate" /\ UNCHANGED <<run, completion>>
  /\ UNCHANGED <<installation, folders, args, screened, record>>

(* The drafter's paid call; a memo without text ends the run. *)
GenerateMemo ==
  /\ pc = "generate"
  /\ run' = [run EXCEPT !.paid = TRUE]
  /\ \/ pc' = "write" /\ UNCHANGED completion
     \/ Return(5, FALSE)
  /\ UNCHANGED <<installation, folders, args, screened, record>>

(* The file is created exclusively: a name taken since the check ends the run. *)
WriteMemo ==
  /\ pc = "write"
  /\ \/ context[args.memo] # "absent" /\ Stop(5) /\ UNCHANGED context
     \/ /\ context[args.memo] = "absent"
        /\ context' = [context EXCEPT ![args.memo] = "system"]
        /\ pc' = "name" /\ UNCHANGED <<run, completion>>
  /\ UNCHANGED <<installation, manifest, operational, args, screened, record>>

NameMemo ==
  /\ pc = "name"
  /\ manifest' = [source |-> "system_draft", targets |-> {args.memo},
                  grounding |-> IF manifest.source = "system_draft"
                                THEN manifest.grounding \ {args.memo} ELSE {}]
  /\ pc' = "clear"
  /\ UNCHANGED <<installation, context, operational, args, run, screened, record, completion>>

(* The explicit case path: declined, refused before or after its paid calls,
   or reviewed.  It never reaches the ordinary review. *)
MultiRound ==
  /\ pc = "multi_round"
  /\ \/ args.interactive /\ Stop(0)
     \/ Stop(8)
     \/ run' = [run EXCEPT !.paid = TRUE] /\ Return(8, FALSE)
     \/ run' = [run EXCEPT !.paid = TRUE] /\ Return(0, TRUE)
  /\ UNCHANGED <<installation, folders, args, screened, record>>

-----------------------------------------------------------------------------
(* The documents under review                                               *)

ClearOperational ==
  /\ pc = "clear"
  /\ operational' = {}
  /\ pc' = "resolve"
  /\ UNCHANGED <<installation, context, manifest, args, run, screened, record, completion>>

(* Targets are forced in, grounding is forced out, the cutoff decides the rest. *)
UnderReview(m) ==
  {f \in Here : f \in m.targets \/ (f \notin m.grounding /\ f \in Recent)}

(* Tier 1 is any manifest found; tier 2 writes one from the mandate. *)
ResolveRoles ==
  /\ pc = "resolve"
  /\ manifest' = IF manifest = NoManifest /\ mandate # {} /\ Here # {}
                 THEN [source |-> "convention", targets |-> mandate, grounding |-> {}]
                 ELSE manifest
  /\ run' = [run EXCEPT !.selected = UnderReview(manifest')]
  /\ pc' = "copy"
  /\ UNCHANGED <<installation, context, operational, args, screened, record, completion>>

CopyOperational ==
  /\ pc = "copy"
  /\ operational' = operational \cup run.selected
  /\ run' = [run EXCEPT !.opDocs = operational']
  /\ pc' = "confirm"
  /\ UNCHANGED <<installation, context, manifest, args, screened, record, completion>>

Confirm ==
  /\ pc = "confirm"
  /\ \/ pc' = "boot" /\ UNCHANGED <<run, completion>>
     \/ args.interactive /\ Stop(0)
  /\ UNCHANGED <<installation, folders, args, screened, record>>

(* The orchestrator boots and the conventions are compiled: whether one of them
   is a redaction rule in force is the operator's.  An unusable external rules
   file leaves through Raise. *)
Boot ==
  /\ pc = "boot"
  /\ \E ruled \in BOOLEAN : run' = [run EXCEPT !.ruled = ruled]
  /\ pc' = "rules"
  /\ UNCHANGED <<installation, folders, args, screened, record, completion>>

RuleGate ==
  /\ pc = "rules"
  /\ IF run.redact /\ run.opDocs # {} /\ ~run.ruled
       THEN Stop(4)
       ELSE /\ pc' = IF run.opDocs = {} THEN "screen" ELSE "produce"
            /\ UNCHANGED <<run, completion>>
  /\ UNCHANGED <<installation, folders, args, screened, record>>

-----------------------------------------------------------------------------
(* The work                                                                 *)

(* One phase of paid calls: an optimized call that is not accepted marks the run
   semantically incomplete and the phase goes on. *)
Phase(from, to) ==
  /\ pc = from
  /\ \E lost \in BOOLEAN :
        run' = [run EXCEPT !.paid = TRUE, !.incomplete = @ \/ lost]
  /\ pc' = to
  /\ UNCHANGED <<installation, folders, args, screened, record, completion>>

Produce == Phase("produce", "audit")
Audit == Phase("audit", "synthesize")

(* Phase 6 writes a master and its renders for every document. *)
Synthesize ==
  /\ pc = "synthesize"
  /\ run' = [run EXCEPT !.masters = run.opDocs]
  /\ pc' = "editorial"
  /\ UNCHANGED <<installation, folders, args, screened, record, completion>>

(* The board reads the unscrubbed master: only of a run declared non-sensitive. *)
EditorialBoard ==
  /\ pc = "editorial"
  /\ run' = [run EXCEPT !.board = ~run.redact]
  /\ pc' = "escalate"
  /\ UNCHANGED <<installation, folders, args, screened, record, completion>>

(* Phase 7: the audit synthesis and the operator's answers to DELTA proposals. *)
EscalateDeltas ==
  /\ pc = "escalate"
  /\ pc' = "screen"
  /\ UNCHANGED <<installation, folders, args, run, screened, record, completion>>

-----------------------------------------------------------------------------
(* Phase 9, the record of it, and the end                                   *)

SkipScreening ==
  /\ pc = "screen"
  /\ ~layerActive \/ ~run.redact \/ run.opDocs = {}
  /\ screening' = [d \in Files |-> IF layerActive /\ d \in run.opDocs THEN "SKIPPED"
                                   ELSE screening[d]]
  /\ pc' = "count"
  /\ UNCHANGED <<installation, folders, args, run, clean, record, completion>>

Outcome(d, s) == screening' = [screening EXCEPT ![d] = s]

(* One document: no readable master, a redactor that is unreachable, breaks its
   contract or resolves nothing, or proposals joined with the detected shapes,
   then applied and verified absent. *)
ScreenDocument(d) ==
  /\ pc = "screen" /\ layerActive /\ run.redact
  /\ d \in run.opDocs /\ screening[d] = "unscreened"
  /\ \/ Outcome(d, "unlisted") /\ UNCHANGED <<run, clean>>
     \/ /\ run' = [run EXCEPT !.paid = TRUE]
        /\ \/ Outcome(d, "BLOCKED") /\ UNCHANGED clean
           \/ Outcome(d, "HELD_WARNING") /\ UNCHANGED clean
           \/ \E proposed \in BOOLEAN :
                IF d \in Shaped \/ proposed
                THEN Outcome(d, "APPLIED") /\ clean' = clean \cup {d}
                ELSE Outcome(d, "NONE") /\ UNCHANGED clean
  /\ UNCHANGED <<installation, folders, pc, args, record, completion>>

EndScreening ==
  /\ pc = "screen" /\ layerActive /\ run.redact /\ run.opDocs # {}
  /\ \A d \in run.opDocs : screening[d] # "unscreened"
  /\ pc' = "count"
  /\ UNCHANGED <<installation, folders, args, run, screened, record, completion>>

(* Held documents are written to the ledger; capture into the ontology stores
   follows and never fails the run. *)
CountOutcomes ==
  /\ pc = "count"
  /\ ledger' = ledger \cup {Format(d) : d \in {f \in run.opDocs : screening[f] = "HELD_WARNING"}}
  /\ pc' = IF args.task = "draft" THEN "preserve" ELSE "end"
  /\ UNCHANGED <<installation, folders, args, run, screened, preserved, completion>>

PreserveMemo ==
  /\ pc = "preserve"
  /\ preserved' = IF manifest.source = "system_draft" THEN manifest.targets \cap Here ELSE {}
  /\ pc' = "unlink_memo"
  /\ UNCHANGED <<installation, folders, args, run, screened, ledger, completion>>

(* clear_system_draft acts on a manifest of source system_draft only: the memo
   goes first, the manifest after it. *)
UnlinkMemo ==
  /\ pc = "unlink_memo"
  /\ IF manifest.source = "system_draft"
       THEN /\ context' = [f \in Files |-> IF f \in manifest.targets THEN "absent" ELSE context[f]]
            /\ pc' = "unlink_manifest"
       ELSE pc' = "end" /\ UNCHANGED context
  /\ UNCHANGED <<installation, manifest, operational, args, run, screened, record, completion>>

UnlinkManifest ==
  /\ pc = "unlink_manifest"
  /\ manifest' = NoManifest
  /\ pc' = "end"
  /\ UNCHANGED <<installation, context, operational, args, run, screened, record, completion>>

Blocked == \E d \in run.opDocs : screening[d] = "BLOCKED"

ReachEnd ==
  /\ pc = "end"
  /\ UNCHANGED run
  /\ Return(IF Blocked THEN 5 ELSE 0, TRUE)
  /\ UNCHANGED <<installation, folders, args, screened, record>>

-----------------------------------------------------------------------------
(* The operator's own edits, at any moment                                  *)

Edit == edits < MaxEdits /\ edits' = edits + 1 /\ run' = [run EXCEPT !.edited = TRUE]

(* The operator places a file under a free name. *)
PlaceFile(f) ==
  /\ Edit
  /\ context[f] = "absent"
  /\ context' = [context EXCEPT ![f] = "operator"]
  /\ UNCHANGED <<layerActive, mandate, runs, manifest, operational, pc, args,
                 screened, record, completion>>

(* The wizard names the documents under review; the others become grounding. *)
DeclareTargets(targets) ==
  /\ Edit
  /\ manifest' = [source |-> "operator", targets |-> targets,
                  grounding |-> (Here \cap Docs) \ targets]
  /\ UNCHANGED <<layerActive, mandate, runs, context, operational, pc, args,
                 screened, record, completion>>

Next ==
  \/ \E a \in Args : Begin(a)
  \/ MetaGate \/ SensitivityGate \/ ModelGate \/ RedactionGate
  \/ CheckMemoName \/ GenerateMemo \/ WriteMemo \/ NameMemo \/ MultiRound
  \/ ClearOperational \/ ResolveRoles \/ CopyOperational \/ Confirm \/ Boot \/ RuleGate
  \/ Produce \/ Audit \/ Synthesize \/ EditorialBoard \/ EscalateDeltas
  \/ SkipScreening \/ (\E d \in Files : ScreenDocument(d)) \/ EndScreening
  \/ CountOutcomes \/ PreserveMemo \/ UnlinkMemo \/ UnlinkManifest \/ ReachEnd
  \/ (\E f \in Files : PlaceFile(f))
  \/ (\E targets \in SUBSET (Here \cap Docs) \ {{}} : DeclareTargets(targets))
  \/ Raise \/ Kill

Spec == Init /\ [][Next]_vars

-----------------------------------------------------------------------------
(* Properties                                                               *)

(* Every variable keeps its shape (main, run_completion.py, role_resolution.py). *)
TypeOK ==
  /\ layerActive \in BOOLEAN
  /\ context \in [Files -> {"absent", "operator", "system"}]
  /\ manifest \in Manifests
  /\ mandate \subseteq Files /\ operational \subseteq Files
  /\ runs \in 0..MaxRuns /\ edits \in 0..MaxEdits
  /\ pc \in Steps /\ args \in Args
  /\ run \in RunRecord
  /\ screening \in [Files -> Screening] /\ clean \subseteq Files
  /\ ledger \subseteq LedgerEntries /\ preserved \subseteq Files
  /\ completion \in CompletionRecord

(* Before a run's first paid call every departure from full protection is on the
   governance ledger: the inactive layer and the waived redaction; and no document
   is worked on with redaction required and no operator rule in force (the gates
   of main, in whatever order later code puts them). *)
UndeclaredRunSpendsNothing ==
  run.paid =>
    /\ layerActive \/ <<"override">> \in ledger
    /\ run.redact \/ <<"waiver">> \in ledger
    /\ (run.masters # {} /\ run.redact) => run.ruled
    /\ run.board => <<"waiver">> \in ledger

(* A run recorded as completed on an installation whose layer is active, with
   redaction not waived, ships no document with a protected shape unscrubbed and
   unsaid: it was scrubbed and verified, or its HELD warning is on the ledger, or
   its master could not be read; and no document is BLOCKED (phase 9, the exit
   code, run_completion.py). *)
CompletedMeansScreened ==
  (completion.state = "completed" /\ layerActive /\ run.redact) =>
    \A d \in run.masters :
      /\ screening[d] \notin {"unscreened", "BLOCKED"}
      /\ d \in Shaped => \/ d \in clean \/ Format(d) \in ledger
                         \/ screening[d] = "unlisted"

(* The documents a run reviews are the ones its own resolution chose, whatever an
   earlier run that was killed left in input/operational (_populate_operational). *)
ReviewedAreSelected == run.opDocs # {} => run.opDocs = run.selected

(* A draft run that completed leaves neither memo nor manifest behind and keeps a
   copy of the memo, unless the operator declared or placed files while it ran
   (run_draft_phase0, the draft run-end of main, clear_system_draft). *)
DraftCleansUp ==
  (completion.state = "completed" /\ args.task = "draft" /\ ~run.edited /\ pc = "idle") =>
    /\ context[args.memo] = "absent" /\ manifest = NoManifest
    /\ args.memo \in preserved

(* No step of a run takes, replaces or removes a file of the operator's in
   input/context, also when it was placed while the memo was being generated. *)
OperatorFilesStay ==
  [][\A f \in Files : context[f] = "operator" => context'[f] = "operator"]_vars

(* What the draft run-end says of itself: the memo "never leaks into the next run
   as a stale tier-1 target", so a review run reviews no system memo. *)
NoStaleDraftTarget ==
  args.task = "review" => \A f \in run.opDocs : context[f] # "system"
=============================================================================
