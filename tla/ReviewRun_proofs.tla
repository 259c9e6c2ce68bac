-------------------------- MODULE ReviewRun_proofs --------------------------
(***************************************************************************)
(* Proofs about ReviewRun, for any sets of documents and memos and any     *)
(* number of runs and edits: the types, that a run spends nothing before   *)
(* its departures from full protection are on the ledger, and that no step *)
(* of a run touches a file of the operator's.                              *)
(***************************************************************************)
EXTENDS ReviewRun, TLAPS

-----------------------------------------------------------------------------
(* Types                                                                   *)

\* The codes a run ends with.
Codes == {0, 3, 4, 5, 6, 7, 8}

\* Ending a run gives a completion record, whatever the outcome.
LEMMA ReturnType ==
  ASSUME NEW code \in Codes, Return(code, FALSE) \/ Return(code, TRUE)
  PROVE  completion' \in CompletionRecord /\ pc' = "idle"
<1>1. CASE Return(code, FALSE)
  <2>1. /\ completion' = [state |-> "stopped", reached |-> FALSE, code |-> code] 
        /\ pc' = "idle"
    BY <1>1 DEF Return
  <2> QED
    BY <2>1 DEF CompletionRecord, Codes
<1>2. CASE Return(code, TRUE)
  <2>1. \E s \in {"completed", "stopped"} :
          completion' = [state |-> s, reached |-> TRUE, code |-> code]
    BY <1>2 DEF Return
  <2> QED
    BY <1>2, <2>1 DEF CompletionRecord, Codes, Return
<1> QED
  BY <1>1, <1>2

LEMMA StopType ==
  ASSUME TypeOK, NEW code \in Codes, Stop(code)
  PROVE  run' \in RunRecord /\ completion' \in CompletionRecord /\ pc' = "idle"
  BY ReturnType DEF Stop, TypeOK

\* The fields of a run that a step may set.
LEMMA RunFields ==
  ASSUME NEW r \in RunRecord
  PROVE  /\ \A b \in BOOLEAN :
              /\ [r EXCEPT !.redact = b] \in RunRecord /\ [r EXCEPT !.ruled = b] \in RunRecord
              /\ [r EXCEPT !.paid = b] \in RunRecord /\ [r EXCEPT !.board = b] \in RunRecord
              /\ [r EXCEPT !.edited = b] \in RunRecord
              /\ [r EXCEPT !.paid = TRUE, !.incomplete = b] \in RunRecord
         /\ \A s \in SUBSET Files :
              /\ [r EXCEPT !.selected = s] \in RunRecord /\ [r EXCEPT !.opDocs = s] \in RunRecord
              /\ [r EXCEPT !.masters = s] \in RunRecord
  BY DEF RunRecord

LEMMA InitType == Init => TypeOK
<1> SUFFICES ASSUME Init PROVE TypeOK
  OBVIOUS
<1>1. context \in [Files -> {"absent", "operator", "system"}] /\ mandate \subseteq Files
  BY DEF Init, Files
<1>2. manifest \in Manifests
  BY DEF Init, NoManifest, Manifests
<1>3. run \in RunRecord /\ completion \in CompletionRecord
  BY DEF Init, NoRun, RunRecord, NoCompletion, CompletionRecord
<1>4. screening \in [Files -> Screening]
  BY DEF Init, Screening
<1>5. /\ layerActive \in BOOLEAN /\ operational \subseteq Files
      /\ runs \in 0 .. MaxRuns /\ edits \in 0 .. MaxEdits
      /\ pc \in Steps /\ args \in Args
      /\ clean \subseteq Files /\ ledger \subseteq LedgerEntries /\ preserved \subseteq Files
  BY BoundAssumption DEF Init, Steps
<1> QED
  BY <1>1, <1>2, <1>3, <1>4, <1>5 DEF TypeOK

\* Entries of the ledger are entries.
LEMMA EntryTypes ==
  /\ <<"override">> \in LedgerEntries /\ <<"waiver">> \in LedgerEntries
  /\ \A d \in Files : Format(d) \in LedgerEntries
  BY DEF LedgerEntries

\* The gates, the draft's phase 0 and the case path.
GateStep ==
  \/ MetaGate \/ SensitivityGate \/ ModelGate \/ RedactionGate
  \/ CheckMemoName \/ GenerateMemo \/ WriteMemo \/ NameMemo \/ MultiRound

LEMMA GateType == TypeOK /\ GateStep => TypeOK'
<1> SUFFICES ASSUME TypeOK, GateStep PROVE TypeOK'
  OBVIOUS
<1> USE DEF TypeOK, installation, folders, screened, record
<1>0. run \in RunRecord
  OBVIOUS
<1>1. CASE MetaGate
  <2>1. run' \in RunRecord /\ completion' \in CompletionRecord /\ pc' \in Steps
    BY <1>1, StopType DEF MetaGate, Steps, Codes
  <2> QED
    BY <1>1, <2>1 DEF MetaGate
<1>2. CASE SensitivityGate
  <2>1. run' \in RunRecord /\ completion' \in CompletionRecord /\ pc' \in Steps
    BY <1>2, StopType DEF SensitivityGate, Steps, Codes
  <2>2. ledger' \subseteq LedgerEntries
    BY <1>2, EntryTypes DEF SensitivityGate
  <2> QED
    BY <1>2, <2>1, <2>2 DEF SensitivityGate
<1>3. CASE ModelGate
  <2>1. run' \in RunRecord /\ completion' \in CompletionRecord /\ pc' \in Steps
    BY <1>3, StopType DEF ModelGate, Steps, Codes
  <2> QED
    BY <1>3, <2>1 DEF ModelGate
<1>4. CASE RedactionGate
  <2>1. args.waive \in BOOLEAN
    BY DEF Args
  <2>2. run' \in RunRecord
    BY <1>0, <1>4, <2>1, RunFields DEF RedactionGate, Stop
  <2>3. completion' \in CompletionRecord /\ pc' \in Steps
    BY <1>4, StopType DEF RedactionGate, Steps, Codes
  <2>4. ledger' \subseteq LedgerEntries
    BY <1>4, EntryTypes DEF RedactionGate
  <2> QED
    BY <1>4, <2>2, <2>3, <2>4 DEF RedactionGate
<1>5. CASE CheckMemoName
  <2>1. run' \in RunRecord /\ completion' \in CompletionRecord /\ pc' \in Steps
    BY <1>5, StopType DEF CheckMemoName, Steps, Codes
  <2> QED
    BY <1>5, <2>1 DEF CheckMemoName
<1>6. CASE GenerateMemo
  <2>1. run' \in RunRecord
    BY <1>0, <1>6, RunFields DEF GenerateMemo
  <2>2. CASE Return(5, FALSE)
    <3>1. 5 \in Codes
      BY DEF Codes
    <3>2. completion' \in CompletionRecord /\ pc' = "idle"
      BY <2>2, <3>1, ReturnType
    <3> QED
      BY <1>6, <2>1, <3>2 DEF GenerateMemo, Steps
  <2>3. CASE pc' = "write" /\ UNCHANGED completion
    BY <1>6, <2>1, <2>3 DEF GenerateMemo, Steps
  <2> QED
    BY <1>6, <2>2, <2>3 DEF GenerateMemo
<1>7. CASE WriteMemo
  <2>1. run' \in RunRecord /\ completion' \in CompletionRecord /\ pc' \in Steps
    BY <1>7, StopType DEF WriteMemo, Steps, Codes
  <2> QED
    BY <1>7, <2>1 DEF WriteMemo
<1>8. CASE NameMemo
  <2>1. manifest' \in Manifests
    BY <1>8 DEF NameMemo, Manifests, Files, Args
  <2> QED
    BY <1>8, <2>1 DEF NameMemo, Steps
<1>9. CASE MultiRound
  <2>1. 0 \in Codes /\ 8 \in Codes
    BY DEF Codes
  <2>2. completion' \in CompletionRecord /\ pc' = "idle"
    BY <1>9, <2>1, ReturnType, StopType DEF MultiRound
  <2>3. run' \in RunRecord
    BY <1>0, <1>9, RunFields DEF MultiRound, Stop
  <2> QED
    BY <1>9, <2>2, <2>3 DEF MultiRound, Steps
<1> QED
  BY <1>1, <1>2, <1>3, <1>4, <1>5, <1>6, <1>7, <1>8, <1>9 DEF GateStep

\* The documents under review and the work on them.
WorkStep ==
  \/ ClearOperational \/ ResolveRoles \/ CopyOperational \/ Confirm \/ Boot \/ RuleGate
  \/ Produce \/ Audit \/ Synthesize \/ EditorialBoard \/ EscalateDeltas

LEMMA PhaseType ==
  ASSUME TypeOK, NEW from, NEW to \in Steps, Phase(from, to)
  PROVE  TypeOK'
<1>1. run' \in RunRecord
  <2>1. PICK lost \in BOOLEAN :
          run' = [run EXCEPT !.paid = TRUE, !.incomplete = run.incomplete \/ lost]
    BY DEF Phase
  <2>2. run \in RunRecord /\ (run.incomplete \/ lost) \in BOOLEAN
    BY DEF TypeOK, RunRecord
  <2> QED
    BY <2>1, <2>2, RunFields
<1> QED
  BY <1>1 DEF Phase, TypeOK, installation, folders, screened, record

LEMMA WorkType == TypeOK /\ WorkStep => TypeOK'
<1> SUFFICES ASSUME TypeOK, WorkStep PROVE TypeOK'
  OBVIOUS
<1> USE DEF TypeOK, installation, folders, screened, record
<1>0. run \in RunRecord /\ run.opDocs \subseteq Files /\ run.selected \subseteq Files
  BY DEF RunRecord
<1>1. CASE ClearOperational
  BY <1>1 DEF ClearOperational, Steps
<1>2. CASE ResolveRoles
  <2>1. manifest' \in Manifests
    BY <1>2 DEF ResolveRoles, Manifests
  <2>2. UnderReview(manifest') \subseteq Files
    BY DEF UnderReview, Here
  <2>3. run' \in RunRecord
    BY <1>0, <1>2, <2>2, RunFields DEF ResolveRoles
  <2> QED
    BY <1>2, <2>1, <2>3 DEF ResolveRoles, Steps
<1>3. CASE CopyOperational
  <2>1. operational' \subseteq Files
    BY <1>0, <1>3 DEF CopyOperational
  <2>2. run' \in RunRecord
    BY <1>0, <1>3, <2>1, RunFields DEF CopyOperational
  <2> QED
    BY <1>3, <2>1, <2>2 DEF CopyOperational, Steps
<1>4. CASE Confirm
  <2>1. run' \in RunRecord /\ completion' \in CompletionRecord /\ pc' \in Steps
    BY <1>4, StopType DEF Confirm, Steps, Codes
  <2> QED
    BY <1>4, <2>1 DEF Confirm
<1>5. CASE Boot
  <2>1. run' \in RunRecord
    BY <1>0, <1>5, RunFields DEF Boot
  <2> QED
    BY <1>5, <2>1 DEF Boot, Steps
<1>6. CASE RuleGate
  <2>1. run' \in RunRecord /\ completion' \in CompletionRecord /\ pc' \in Steps
    BY <1>6, StopType DEF RuleGate, Steps, Codes
  <2> QED
    BY <1>6, <2>1 DEF RuleGate
<1>7. CASE Produce \/ Audit
  BY <1>7, PhaseType DEF Produce, Audit, Steps
<1>8. CASE Synthesize
  <2>1. run' \in RunRecord
    BY <1>0, <1>8, RunFields DEF Synthesize
  <2> QED
    BY <1>8, <2>1 DEF Synthesize, Steps
<1>9. CASE EditorialBoard
  <2>1. run' \in RunRecord
    BY <1>0, <1>9, RunFields DEF EditorialBoard
  <2> QED
    BY <1>9, <2>1 DEF EditorialBoard, Steps
<1>10. CASE EscalateDeltas
  BY <1>10 DEF EscalateDeltas, Steps
<1> QED
  BY <1>1, <1>2, <1>3, <1>4, <1>5, <1>6, <1>7, <1>8, <1>9, <1>10 DEF WorkStep

\* Phase 9, the run's end and what happens around a run.
EndStep ==
  \/ SkipScreening \/ (\E d \in Files : ScreenDocument(d)) \/ EndScreening
  \/ CountOutcomes \/ PreserveMemo \/ UnlinkMemo \/ UnlinkManifest \/ ReachEnd

OutsideStep ==
  \/ (\E a \in Args : Begin(a))
  \/ (\E f \in Files : PlaceFile(f))
  \/ (\E targets \in SUBSET (Here \cap Docs) \ {{}} : DeclareTargets(targets))
  \/ Raise \/ Kill

LEMMA EndType == TypeOK /\ EndStep => TypeOK'
<1> SUFFICES ASSUME TypeOK, EndStep PROVE TypeOK'
  OBVIOUS
<1> USE DEF TypeOK, installation, folders, screened, record
<1>0. run \in RunRecord /\ run.opDocs \subseteq Files
  BY DEF RunRecord
<1>1. CASE SkipScreening
  <2>1. screening' \in [Files -> Screening]
    BY <1>1 DEF SkipScreening, Screening
  <2> QED
    BY <1>1, <2>1 DEF SkipScreening, Steps
<1>2. CASE \E d \in Files : ScreenDocument(d)
  <2> PICK d \in Files : ScreenDocument(d)
    BY <1>2
  <2>1. screening' \in [Files -> Screening] /\ clean' \subseteq Files
    BY DEF ScreenDocument, Outcome, Screening
  <2>2. run' \in RunRecord
    BY <1>0, RunFields DEF ScreenDocument
  <2> QED
    BY <2>1, <2>2 DEF ScreenDocument
<1>3. CASE EndScreening
  BY <1>3 DEF EndScreening, Steps
<1>4. CASE CountOutcomes
  <2>1. ledger' \subseteq LedgerEntries
    BY <1>0, <1>4, EntryTypes DEF CountOutcomes
  <2> QED
    BY <1>4, <2>1 DEF CountOutcomes, Steps
<1>5. CASE PreserveMemo
  BY <1>5 DEF PreserveMemo, Steps, Here
<1>6. CASE UnlinkMemo
  <2>1. context' \in [Files -> {"absent", "operator", "system"}]
    BY <1>6 DEF UnlinkMemo
  <2> QED
    BY <1>6, <2>1 DEF UnlinkMemo, Steps
<1>7. CASE UnlinkManifest
  BY <1>7 DEF UnlinkManifest, Steps, NoManifest, Manifests
<1>8. CASE ReachEnd
  <2>1. 0 \in Codes /\ 5 \in Codes
    BY DEF Codes
  <2>2. Return(5, TRUE) \/ Return(0, TRUE)
    BY <1>8 DEF ReachEnd
  <2>3. completion' \in CompletionRecord /\ pc' = "idle"
    BY <2>1, <2>2, ReturnType
  <2> QED
    BY <1>8, <2>3 DEF ReachEnd, Steps
<1> QED
  BY <1>1, <1>2, <1>3, <1>4, <1>5, <1>6, <1>7, <1>8 DEF EndStep

LEMMA OutsideType == TypeOK /\ OutsideStep => TypeOK'
<1> SUFFICES ASSUME TypeOK, OutsideStep PROVE TypeOK'
  OBVIOUS
<1> USE BoundAssumption DEF TypeOK, installation, folders, screened, record
<1>0. run \in RunRecord /\ NoRun \in RunRecord
  BY DEF NoRun, RunRecord
<1>1. CASE \E a \in Args : Begin(a)
  <2> PICK a \in Args : Begin(a)
    BY <1>1
  <2>1. completion' \in CompletionRecord /\ pc' \in Steps
    <3>1. 8 \in Codes
      BY DEF Codes
    <3>2. CASE Return(8, FALSE)
      BY <3>1, <3>2, ReturnType DEF Steps
    <3>3. CASE pc' = "meta" /\ completion' = [NoCompletion EXCEPT !.state = "running"]
      <4>1. completion' = [state |-> "running", reached |-> FALSE, code |-> 0]
        BY <3>3 DEF NoCompletion
      <4>2. completion' \in CompletionRecord
        BY <4>1 DEF CompletionRecord
      <4> QED
        BY <3>3, <4>2 DEF Steps
    <3> QED
      BY <3>2, <3>3 DEF Begin
  <2>2. screening' \in [Files -> Screening]
    BY DEF Begin, Screening
  <2> QED
    BY <1>0, <2>1, <2>2 DEF Begin
<1>2. CASE \E f \in Files : PlaceFile(f)
  <2>1. run' \in RunRecord
    BY <1>0, <1>2, RunFields DEF PlaceFile, Edit
  <2> QED
    BY <1>2, <2>1 DEF PlaceFile, Edit
<1>3. CASE \E targets \in SUBSET (Here \cap Docs) \ {{}} : DeclareTargets(targets)
  <2>1. run' \in RunRecord
    BY <1>0, <1>3, RunFields DEF DeclareTargets, Edit
  <2>2. manifest' \in Manifests
    BY <1>3 DEF DeclareTargets, Manifests, Here, Files
  <2> QED
    BY <1>3, <2>1, <2>2 DEF DeclareTargets, Edit
<1>4. CASE Raise
  <2>1. completion' \in CompletionRecord
    BY <1>4 DEF Raise, CompletionRecord
  <2> QED
    BY <1>4, <2>1 DEF Raise, Steps
<1>5. CASE Kill
  BY <1>5 DEF Kill, Steps
<1> QED
  BY <1>1, <1>2, <1>3, <1>4, <1>5 DEF OutsideStep

LEMMA NextSteps == Next => GateStep \/ WorkStep \/ EndStep \/ OutsideStep
  BY DEF Next, GateStep, WorkStep, EndStep, OutsideStep

\* Every variable keeps its type.
THEOREM ReviewTypeCorrect == Spec => []TypeOK
<1>1. TypeOK /\ [Next]_vars => TypeOK'
  <2> SUFFICES ASSUME TypeOK, [Next]_vars PROVE TypeOK'
    OBVIOUS
  <2>1. CASE UNCHANGED vars
    BY <2>1 DEF vars, installation, folders, screened, record, TypeOK
  <2> QED
    BY <2>1, NextSteps, GateType, WorkType, EndType, OutsideType
<1> QED
  BY <1>1, InitType, PTL DEF Spec

-----------------------------------------------------------------------------
(* Nothing is spent before the departures from full protection are declared *)

Gating == {"meta", "sensitivity"}
Preparing == Gating \cup {"models", "redaction", "draft", "generate", "write", "name",
                          "multi_round", "clear", "resolve", "copy", "confirm", "boot", "rules"}
Producing == {"produce", "audit", "synthesize"}

Overridden == layerActive \/ <<"override">> \in ledger
Waived == run.redact \/ <<"waiver">> \in ledger

Declared ==
  /\ pc \in Gating => ~run.paid
  /\ pc \notin Gating \cup {"idle"} \/ run.paid => Overridden
  /\ Waived
  /\ run.board => <<"waiver">> \in ledger
  /\ pc \in Preparing => run.masters = {}
  /\ pc \in Producing /\ run.redact => run.ruled
  /\ run.masters # {} /\ run.redact => run.ruled

\* A step that keeps the run and the layer, loses nothing from the ledger and
\* stays on its side of the sensitivity gate keeps what was declared.
LEMMA DeclaredFrame ==
  ASSUME Declared, run' = run, layerActive' = layerActive, ledger \subseteq ledger',
         pc' \in Gating => pc \in Gating,
         pc' \notin Gating \cup {"idle"} => pc \notin Gating \cup {"idle"} \/ Overridden',
         pc' \in Preparing => pc \in Preparing,
         pc' \in Producing => pc \in Producing \/ ~run.redact \/ run.ruled
  PROVE  Declared'
  BY DEF Declared, Overridden, Waived

LEMMA StopEnds == \A code : Stop(code) => pc' = "idle" /\ run' = run
  BY DEF Stop, Return

LEMMA GateDeclared == TypeOK /\ Declared /\ GateStep => Declared'
<1> SUFFICES ASSUME TypeOK, Declared, GateStep PROVE Declared'
  OBVIOUS
<1> USE DEF Gating, Preparing, Producing
<1>0. run \in RunRecord
  BY DEF TypeOK
<1>1. CASE MetaGate
  BY <1>1, StopEnds, DeclaredFrame DEF MetaGate, installation, record
<1>2. CASE SensitivityGate
  <2>1. /\ run' = run /\ layerActive' = layerActive /\ ledger \subseteq ledger'
        /\ pc = "sensitivity"
        /\ pc' = "idle" \/ (pc' = "models" /\ Overridden')
    BY <1>2, StopEnds DEF SensitivityGate, installation, Overridden
  <2> QED
    BY <2>1, DeclaredFrame
<1>3. CASE ModelGate \/ CheckMemoName \/ WriteMemo \/ NameMemo
  <2>1. /\ run' = run /\ layerActive' = layerActive /\ ledger' = ledger
        /\ pc \in {"models", "draft", "write", "name"}
        /\ pc' \in {"idle", "redaction", "generate", "name", "clear"}
    BY <1>3, StopEnds DEF ModelGate, CheckMemoName, WriteMemo, NameMemo, installation, record
  <2> QED
    BY <2>1, DeclaredFrame
<1>4. CASE RedactionGate
  <2>1. /\ layerActive' = layerActive /\ pc = "redaction"
        /\ ledger \subseteq ledger'
    BY <1>4 DEF RedactionGate, installation
  <2>2. CASE Stop(4) /\ UNCHANGED ledger
    BY <2>1, <2>2, StopEnds, DeclaredFrame
  <2>3. CASE pc' # "idle" \/ run' # run
    <3>1. /\ run' = [run EXCEPT !.redact = ~args.waive]
          /\ ledger' = ledger \cup {<<"waiver">> : w \in {TRUE} \cap {args.waive}}
          /\ pc' \in {"draft", "multi_round", "clear"}
      BY <1>4, <2>3, StopEnds DEF RedactionGate
    <3>2. /\ run'.paid = run.paid /\ run'.board = run.board /\ run'.masters = run.masters
          /\ run'.redact = ~args.waive
      BY <1>0, <3>1 DEF RunRecord
    <3>3. args.waive \in BOOLEAN
      BY DEF TypeOK, Args
    <3>4. args.waive => <<"waiver">> \in ledger'
      BY <3>1, <3>3
    <3>5. run.masters = {} /\ Overridden
      BY <2>1 DEF Declared
    <3> QED
      BY <2>1, <3>1, <3>2, <3>3, <3>4, <3>5 DEF Declared, Overridden, Waived
  <2> QED
    BY <1>4, <2>1, <2>2, <2>3, DeclaredFrame DEF RedactionGate
<1>5. CASE GenerateMemo \/ MultiRound
  <2>1. /\ layerActive' = layerActive /\ ledger' = ledger
        /\ pc \in {"generate", "multi_round"} /\ pc' \in {"idle", "write"}
    BY <1>5 DEF GenerateMemo, MultiRound, Stop, Return, installation, record
  <2>2. run' = run \/ run' = [run EXCEPT !.paid = TRUE]
    BY <1>5 DEF GenerateMemo, MultiRound, Stop
  <2>3. UNCHANGED <<run.redact, run.board, run.masters, run.ruled>>
    BY <1>0, <2>2 DEF RunRecord
  <2> QED
    BY <2>1, <2>3 DEF Declared, Overridden, Waived
<1> QED
  BY <1>1, <1>2, <1>3, <1>4, <1>5 DEF GateStep

LEMMA WorkDeclared == TypeOK /\ Declared /\ WorkStep => Declared'
<1> SUFFICES ASSUME TypeOK, Declared, WorkStep PROVE Declared'
  OBVIOUS
<1> USE DEF Gating, Preparing, Producing
<1>0. run \in RunRecord
  BY DEF TypeOK
<1>1. CASE ClearOperational \/ Confirm
  <2>1. /\ run' = run /\ layerActive' = layerActive /\ ledger' = ledger
        /\ pc \in {"clear", "confirm"} /\ pc' \in {"idle", "resolve", "boot"}
    BY <1>1, StopEnds DEF ClearOperational, Confirm, installation, record
  <2> QED
    BY <2>1, DeclaredFrame
<1>2. CASE ResolveRoles \/ CopyOperational \/ Boot
  <2>1. /\ layerActive' = layerActive /\ ledger' = ledger
        /\ pc \in {"resolve", "copy", "boot"} /\ pc' \in {"copy", "confirm", "rules"}
    BY <1>2 DEF ResolveRoles, CopyOperational, Boot, installation, record
  <2>2. UNCHANGED <<run.paid, run.redact, run.board, run.masters>>
    BY <1>0, <1>2 DEF ResolveRoles, CopyOperational, Boot, RunRecord
  <2> QED
    BY <2>1, <2>2 DEF Declared, Overridden, Waived
<1>3. CASE RuleGate
  <2>1. /\ run' = run /\ layerActive' = layerActive /\ ledger' = ledger /\ pc = "rules"
        /\ \/ pc' \in {"idle", "screen"}
           \/ pc' = "produce" /\ (~run.redact \/ run.ruled)
    BY <1>3, StopEnds DEF RuleGate, installation, record
  <2> QED
    BY <2>1, DeclaredFrame
<1>4. CASE Produce \/ Audit
  <2>1. /\ layerActive' = layerActive /\ ledger' = ledger
        /\ pc \in {"produce", "audit"} /\ pc' \in {"audit", "synthesize"}
    BY <1>4 DEF Produce, Audit, Phase, installation, record
  <2>2. UNCHANGED <<run.redact, run.board, run.masters, run.ruled>>
    BY <1>0, <1>4 DEF Produce, Audit, Phase, RunRecord
  <2> QED
    BY <2>1, <2>2 DEF Declared, Overridden, Waived
<1>5. CASE Synthesize
  <2>1. /\ layerActive' = layerActive /\ ledger' = ledger
        /\ pc = "synthesize" /\ pc' = "editorial"
    BY <1>5 DEF Synthesize, installation, record
  <2>2. UNCHANGED <<run.paid, run.redact, run.board, run.ruled>>
    BY <1>0, <1>5 DEF Synthesize, RunRecord
  <2> QED
    BY <2>1, <2>2 DEF Declared, Overridden, Waived
<1>6. CASE EditorialBoard
  <2>1. /\ layerActive' = layerActive /\ ledger' = ledger
        /\ pc = "editorial" /\ pc' = "escalate"
    BY <1>6 DEF EditorialBoard, installation, record
  <2>2. UNCHANGED <<run.paid, run.redact, run.masters, run.ruled>> /\ run'.board = ~run.redact
    BY <1>0, <1>6 DEF EditorialBoard, RunRecord
  <2> QED
    BY <2>1, <2>2 DEF Declared, Overridden, Waived
<1>7. CASE EscalateDeltas
  BY <1>7, DeclaredFrame DEF EscalateDeltas, installation, record
<1> QED
  BY <1>1, <1>2, <1>3, <1>4, <1>5, <1>6, <1>7 DEF WorkStep

LEMMA EndDeclared == TypeOK /\ Declared /\ EndStep => Declared'
<1> SUFFICES ASSUME TypeOK, Declared, EndStep PROVE Declared'
  OBVIOUS
<1> USE DEF Gating, Preparing, Producing
<1>0. run \in RunRecord
  BY DEF TypeOK
<1>1. CASE \E d \in Files : ScreenDocument(d)
  <2>1. layerActive' = layerActive /\ ledger' = ledger /\ pc = "screen" /\ pc' = "screen"
    BY <1>1 DEF ScreenDocument, installation, record
  <2>2. UNCHANGED <<run.redact, run.board, run.masters, run.ruled>>
    BY <1>0, <1>1 DEF ScreenDocument, RunRecord
  <2> QED
    BY <2>1, <2>2 DEF Declared, Overridden, Waived
<1>2. CASE ~\E d \in Files : ScreenDocument(d)
  <2>1. /\ run' = run /\ layerActive' = layerActive /\ ledger \subseteq ledger'
        /\ pc \in {"screen", "count", "preserve", "unlink_memo", "unlink_manifest", "end"}
        /\ pc' \in {"count", "preserve", "unlink_memo", "unlink_manifest", "end", "idle"}
    BY <1>2 DEF EndStep, SkipScreening, EndScreening, CountOutcomes, PreserveMemo, UnlinkMemo,
       UnlinkManifest, ReachEnd, Return, installation, record
  <2> QED
    BY <2>1, DeclaredFrame
<1> QED
  BY <1>1, <1>2

LEMMA OutsideDeclared == TypeOK /\ Declared /\ OutsideStep => Declared'
<1> SUFFICES ASSUME TypeOK, Declared, OutsideStep PROVE Declared'
  OBVIOUS
<1> USE DEF Gating, Preparing, Producing
<1>0. run \in RunRecord
  BY DEF TypeOK
<1>1. CASE \E a \in Args : Begin(a)
  <2>1. run' = NoRun /\ pc' \in {"idle", "meta"}
    BY <1>1 DEF Begin, Return
  <2>2. /\ run'.redact /\ ~run'.paid /\ ~run'.board /\ run'.masters = {}
    BY <2>1 DEF NoRun
  <2> QED
    BY <2>1, <2>2 DEF Declared, Overridden, Waived
<1>2. CASE \/ \E f \in Files : PlaceFile(f)
           \/ \E targets \in SUBSET (Here \cap Docs) \ {{}} : DeclareTargets(targets)
  <2>1. layerActive' = layerActive /\ ledger' = ledger /\ pc' = pc
    BY <1>2 DEF PlaceFile, DeclareTargets, record
  <2>2. UNCHANGED <<run.paid, run.redact, run.board, run.masters, run.ruled>>
    BY <1>0, <1>2 DEF PlaceFile, DeclareTargets, Edit, RunRecord
  <2> QED
    BY <2>1, <2>2 DEF Declared, Overridden, Waived
<1>3. CASE Raise \/ Kill
  BY <1>3, DeclaredFrame DEF Raise, Kill, installation, record
<1> QED
  BY <1>1, <1>2, <1>3 DEF OutsideStep

\* Before a run's first paid call its departures from full protection are on the
\* ledger, whatever fails, dies or is edited in between.
THEOREM UndeclaredRunSpendsNothingHolds == Spec => []UndeclaredRunSpendsNothing
<1>1. Init => TypeOK /\ Declared
  <2> SUFFICES ASSUME Init PROVE Declared
    BY InitType
  <2>1. pc = "idle" /\ run.redact /\ ~run.paid /\ ~run.board /\ run.masters = {}
    BY DEF Init, NoRun
  <2> QED
    BY <2>1 DEF Declared, Gating, Preparing, Producing, Overridden, Waived
<1>2. TypeOK /\ Declared /\ [Next]_vars => (TypeOK /\ Declared)'
  <2> SUFFICES ASSUME TypeOK, Declared, [Next]_vars PROVE TypeOK' /\ Declared'
    OBVIOUS
  <2>1. CASE UNCHANGED vars
    BY <2>1 DEF vars, installation, folders, screened, record, TypeOK, Declared, Overridden, Waived
  <2> QED
    BY <2>1, NextSteps, GateType, WorkType, EndType, OutsideType,
       GateDeclared, WorkDeclared, EndDeclared, OutsideDeclared
<1>3. Declared => UndeclaredRunSpendsNothing
  BY DEF Declared, UndeclaredRunSpendsNothing, Overridden, Waived
<1> QED
  BY <1>1, <1>2, <1>3, PTL DEF Spec

-----------------------------------------------------------------------------
(* A run touches no file of the operator's                                 *)

Drafting == {"draft", "generate", "write", "name", "preserve", "unlink_memo", "unlink_manifest"}
Named == {"clear", "resolve", "copy", "confirm", "boot", "rules", "produce", "audit",
          "synthesize", "editorial", "escalate", "screen", "count", "preserve", "unlink_memo"}

\* In a draft run the memo named in the manifest is the one this run wrote: what
\* the run removes at its end is the system's.
MemoIsOurs ==
  /\ pc \in Drafting => args.task = "draft"
  /\ pc = "name" => context[args.memo] = "system"
  /\ (pc \in Named /\ args.task = "draft" /\ manifest.source = "system_draft") =>
       manifest.targets = {args.memo} /\ context[args.memo] = "system"

\* A step that leaves the files, the manifest and the arguments alone and does not
\* enter a place where more is known.
LEMMA MemoFrame ==
  ASSUME MemoIsOurs, context' = context, manifest' = manifest, args' = args,
         pc' \in Drafting => pc \in Drafting \/ args.task = "draft",
         pc' = "name" => pc = "name",
         pc' \in Named => pc \in Named \/ args.task # "draft"
  PROVE  MemoIsOurs'
  BY DEF MemoIsOurs

LEMMA GateMemo == TypeOK /\ MemoIsOurs /\ GateStep => MemoIsOurs'
<1> SUFFICES ASSUME TypeOK, MemoIsOurs, GateStep PROVE MemoIsOurs'
  OBVIOUS
<1> USE DEF Drafting, Named
<1>1. CASE MetaGate \/ SensitivityGate \/ ModelGate \/ CheckMemoName \/ GenerateMemo
  <2>1. /\ context' = context /\ manifest' = manifest /\ args' = args
        /\ pc' \in {"idle", "sensitivity", "models", "redaction"}
             \/ (pc \in Drafting /\ pc' \in {"generate", "write"})
    BY <1>1, StopEnds DEF MetaGate, SensitivityGate, ModelGate, CheckMemoName, GenerateMemo,
       Return, folders
  <2> QED
    BY <2>1, MemoFrame
<1>2. CASE RedactionGate
  <2>1. /\ context' = context /\ manifest' = manifest /\ args' = args
        /\ \/ pc' = "idle"
           \/ pc' = "draft" /\ args.task = "draft"
           \/ pc' = "multi_round"
           \/ pc' = "clear" /\ args.task # "draft"
    BY <1>2, StopEnds DEF RedactionGate, folders
  <2> QED
    BY <2>1, MemoFrame
<1>3. CASE WriteMemo
  <2>1. args.memo \in Files
    BY DEF TypeOK, Args, Files
  <2>2. CASE Stop(5) /\ UNCHANGED context
    BY <1>3, <2>2, StopEnds, MemoFrame DEF WriteMemo
  <2>3. CASE context' = [context EXCEPT ![args.memo] = "system"] /\ pc' = "name"
    BY <1>3, <2>1, <2>3 DEF WriteMemo, MemoIsOurs, TypeOK
  <2> QED
    BY <1>3, <2>2, <2>3 DEF WriteMemo
<1>4. CASE NameMemo
  <2>1. /\ pc = "name" /\ pc' = "clear" /\ args' = args /\ context' = context
        /\ manifest'.targets = {args.memo}
    BY <1>4 DEF NameMemo
  <2> QED
    BY <2>1 DEF MemoIsOurs
<1>5. CASE MultiRound
  <2>1. context' = context /\ manifest' = manifest /\ args' = args /\ pc' = "idle"
    BY <1>5, StopEnds DEF MultiRound, Return, folders
  <2> QED
    BY <2>1, MemoFrame
<1> QED
  BY <1>1, <1>2, <1>3, <1>4, <1>5 DEF GateStep

LEMMA WorkMemo == TypeOK /\ MemoIsOurs /\ WorkStep => MemoIsOurs'
<1> SUFFICES ASSUME TypeOK, MemoIsOurs, WorkStep PROVE MemoIsOurs'
  OBVIOUS
<1> USE DEF Drafting, Named
<1>1. CASE ResolveRoles
  <2>1. /\ context' = context /\ args' = args /\ pc = "resolve" /\ pc' = "copy"
        /\ manifest' = manifest \/ manifest'.source = "convention"
    BY <1>1 DEF ResolveRoles
  <2> QED
    BY <2>1 DEF MemoIsOurs
<1>2. CASE ~ResolveRoles
  <2>1. /\ context' = context /\ manifest' = manifest /\ args' = args
        /\ pc \in Named /\ pc' \in (Named \ {"preserve", "unlink_memo"}) \cup {"idle"}
    BY <1>2, StopEnds DEF WorkStep, ClearOperational, CopyOperational, Confirm, Boot, RuleGate,
       Produce, Audit, Phase, Synthesize, EditorialBoard, EscalateDeltas, folders
  <2> QED
    BY <2>1, MemoFrame
<1> QED
  BY <1>1, <1>2

LEMMA EndMemo == TypeOK /\ MemoIsOurs /\ EndStep => MemoIsOurs'
<1> SUFFICES ASSUME TypeOK, MemoIsOurs, EndStep PROVE MemoIsOurs'
  OBVIOUS
<1> USE DEF Drafting, Named
<1>1. CASE UnlinkMemo
  <2>1. args' = args /\ pc = "unlink_memo" /\ pc' \in {"unlink_manifest", "end"}
    BY <1>1 DEF UnlinkMemo
  <2> QED
    BY <2>1 DEF MemoIsOurs
<1>2. CASE UnlinkManifest
  <2>1. args' = args /\ pc' = "end"
    BY <1>2 DEF UnlinkManifest
  <2> QED
    BY <2>1 DEF MemoIsOurs
<1>3. CASE ~UnlinkMemo /\ ~UnlinkManifest
  <2>1. /\ context' = context /\ manifest' = manifest /\ args' = args
        /\ \/ pc \in Named /\ pc' \in {"screen", "count", "end", "unlink_memo"}
           \/ pc \in Named /\ pc' = "preserve" /\ args.task = "draft"
           \/ pc' \in {"idle"}
    BY <1>3 DEF EndStep, SkipScreening, ScreenDocument, EndScreening, CountOutcomes,
       PreserveMemo, ReachEnd, Return, folders
  <2>2. pc' = "unlink_memo" => pc \in Drafting
    BY <1>3 DEF EndStep, SkipScreening, ScreenDocument, EndScreening, CountOutcomes,
       PreserveMemo, ReachEnd, Return
  <2> QED
    BY <2>1, <2>2, MemoFrame
<1> QED
  BY <1>1, <1>2, <1>3

LEMMA OutsideMemo == TypeOK /\ MemoIsOurs /\ OutsideStep => MemoIsOurs'
<1> SUFFICES ASSUME TypeOK, MemoIsOurs, OutsideStep PROVE MemoIsOurs'
  OBVIOUS
<1> USE DEF Drafting, Named
<1>1. CASE \E a \in Args : Begin(a)
  <2>1. pc' \in {"idle", "meta"}
    BY <1>1 DEF Begin, Return
  <2> QED
    BY <2>1 DEF MemoIsOurs
<1>2. CASE \E f \in Files : PlaceFile(f)
  <2>1. PICK f \in Files : PlaceFile(f)
    BY <1>2
  <2>2. /\ manifest' = manifest /\ args' = args /\ pc' = pc /\ context[f] = "absent"
        /\ context' = [context EXCEPT ![f] = "operator"]
    BY <2>1 DEF PlaceFile
  <2>3. args.memo \in Files /\ (context[args.memo] = "system" => context'[args.memo] = "system")
    BY <2>2 DEF TypeOK, Args, Files
  <2> QED
    BY <2>2, <2>3 DEF MemoIsOurs
<1>3. CASE \E targets \in SUBSET (Here \cap Docs) \ {{}} : DeclareTargets(targets)
  <2>1. context' = context /\ args' = args /\ pc' = pc /\ manifest'.source = "operator"
    BY <1>3 DEF DeclareTargets
  <2> QED
    BY <2>1 DEF MemoIsOurs
<1>4. CASE Raise \/ Kill
  BY <1>4, MemoFrame DEF Raise, Kill, folders
<1> QED
  BY <1>1, <1>2, <1>3, <1>4 DEF OutsideStep

\* No step of a run replaces or removes a file of the operator's.
THEOREM OperatorFilesStayHolds == Spec => OperatorFilesStay
<1>1. Init => TypeOK /\ MemoIsOurs
  BY InitType DEF Init, MemoIsOurs, Drafting, Named
<1>2. TypeOK /\ MemoIsOurs /\ [Next]_vars => (TypeOK /\ MemoIsOurs)'
  <2> SUFFICES ASSUME TypeOK, MemoIsOurs, [Next]_vars PROVE TypeOK' /\ MemoIsOurs'
    OBVIOUS
  <2>1. CASE UNCHANGED vars
    BY <2>1 DEF vars, installation, folders, screened, record, TypeOK, MemoIsOurs
  <2> QED
    BY <2>1, NextSteps, GateType, WorkType, EndType, OutsideType,
       GateMemo, WorkMemo, EndMemo, OutsideMemo
<1>3. TypeOK /\ MemoIsOurs /\ [Next]_vars =>
        [\A f \in Files : context[f] = "operator" => context'[f] = "operator"]_vars
  <2> SUFFICES ASSUME TypeOK, MemoIsOurs, Next, NEW f \in Files, context[f] = "operator"
               PROVE  context'[f] = "operator"
    OBVIOUS
  <2>1. CASE context' = context
    BY <2>1
  <2>2. CASE WriteMemo \/ \E g \in Files : PlaceFile(g)
    BY <2>2 DEF WriteMemo, PlaceFile, TypeOK
  <2>3. CASE UnlinkMemo
    BY <2>3 DEF UnlinkMemo, MemoIsOurs, Drafting, Named, TypeOK
  <2>4. context' = context \/ WriteMemo \/ UnlinkMemo \/ \E g \in Files : PlaceFile(g)
    BY DEF Next, Begin, MetaGate, SensitivityGate, ModelGate, RedactionGate, CheckMemoName,
       GenerateMemo, NameMemo, MultiRound, ClearOperational, ResolveRoles, CopyOperational,
       Confirm, Boot, RuleGate, Produce, Audit, Phase, Synthesize, EditorialBoard,
       EscalateDeltas, SkipScreening, ScreenDocument, EndScreening, CountOutcomes,
       PreserveMemo, UnlinkManifest, ReachEnd, DeclareTargets, Raise, Kill, folders
  <2> QED
    BY <2>1, <2>2, <2>3, <2>4
<1> QED
  BY <1>1, <1>2, <1>3, PTL DEF Spec, OperatorFilesStay

-----------------------------------------------------------------------------
(* What is reviewed, and what a completed run has screened                 *)

BeforeCopy == (Preparing \ {"confirm", "boot", "rules"})
BeforeScreen == Preparing \cup Producing \cup {"editorial", "escalate"}
AfterScreen == {"count", "preserve", "unlink_memo", "unlink_manifest", "end"}
Noted == {"preserve", "unlink_memo", "unlink_manifest", "end"}

\* The folder is cleared before the documents of this run are copied into it.
Selected ==
  /\ pc \in BeforeCopy => run.opDocs = {}
  /\ pc \in {"resolve", "copy"} => operational = {}
  /\ run.opDocs # {} => run.opDocs = run.selected

\* What phase 9 has recorded of a document says what was done to it.
Outcomes ==
  \A d \in Files :
    /\ screening[d] = "APPLIED" => d \in clean
    /\ screening[d] = "NONE" => d \notin Shaped
    /\ screening[d] = "SKIPPED" => ~run.redact
    /\ pc \in BeforeScreen => screening[d] = "unscreened"

Screened ==
  /\ Selected
  /\ Outcomes
  /\ run.masters \subseteq run.opDocs
  /\ pc \in AfterScreen /\ layerActive /\ run.redact =>
       \A d \in run.opDocs : screening[d] # "unscreened"
  /\ pc \in Noted => \A d \in run.opDocs : screening[d] = "HELD_WARNING" => Format(d) \in ledger
  /\ completion.state = "completed" => pc = "idle"
  /\ CompletedMeansScreened

\* A step that keeps the run's documents and their outcomes.
LEMMA ScreenedFrame ==
  ASSUME Screened, layerActive' = layerActive, screening' = screening, clean' = clean,
         UNCHANGED <<run.redact, run.opDocs, run.selected, run.masters>>,
         ledger \subseteq ledger',
         pc' \in BeforeCopy => pc \in BeforeCopy,
         pc' \in {"resolve", "copy"} => operational' = {},
         pc' \in BeforeScreen => pc \in BeforeScreen,
         pc' \in AfterScreen => pc \in AfterScreen,
         pc' \in Noted => pc \in Noted,
         completion'.state # "completed" \/ (completion' = completion /\ pc' = pc)
  PROVE  Screened'
<1>1. Selected' /\ Outcomes'
  BY DEF Screened, Selected, Outcomes
<1>2. CompletedMeansScreened'
  BY DEF Screened, CompletedMeansScreened
<1> QED
  BY <1>1, <1>2 DEF Screened

LEMMA StopNotCompleted == \A code : Stop(code) => completion'.state = "stopped"
  BY DEF Stop, Return

LEMMA GateScreened == TypeOK /\ Declared /\ Screened /\ GateStep => Screened'
<1> SUFFICES ASSUME TypeOK, Declared, Screened, GateStep PROVE Screened'
  OBVIOUS
<1> USE DEF BeforeCopy, BeforeScreen, AfterScreen, Noted, Gating, Preparing, Producing
<1>0. run \in RunRecord
  BY DEF TypeOK
<1>a. completion.state # "completed"
  BY DEF Screened, GateStep, MetaGate, SensitivityGate, ModelGate, RedactionGate,
     CheckMemoName, GenerateMemo, WriteMemo, NameMemo, MultiRound
<1>1. CASE RedactionGate
  <2>1. /\ layerActive' = layerActive /\ screening' = screening /\ clean' = clean
        /\ ledger \subseteq ledger' /\ pc = "redaction"
        /\ pc' \in {"idle", "draft", "multi_round", "clear"}
        /\ completion'.state # "completed"
    BY <1>1, <1>a, StopEnds, StopNotCompleted DEF RedactionGate, installation, screened
  <2>2. UNCHANGED <<run.opDocs, run.selected, run.masters>>
    BY <1>0, <1>1 DEF RedactionGate, Stop, RunRecord
  <2>3. run.opDocs = {} /\ \A d \in Files : screening[d] = "unscreened"
    BY <2>1 DEF Screened, Selected, Outcomes
  <2>4. Selected' /\ Outcomes'
    BY <2>1, <2>2, <2>3 DEF Screened, Selected, Outcomes
  <2> QED
    BY <2>1, <2>2, <2>3, <2>4 DEF Screened, CompletedMeansScreened
<1>2. CASE MultiRound
  <2>1. /\ layerActive' = layerActive /\ screening' = screening /\ clean' = clean
        /\ ledger' = ledger /\ pc = "multi_round" /\ pc' = "idle"
    BY <1>2 DEF MultiRound, Stop, Return, installation, screened, record
  <2>2. UNCHANGED <<run.redact, run.opDocs, run.selected, run.masters>>
    BY <1>0, <1>2 DEF MultiRound, Stop, RunRecord
  <2>3. run.masters = {} /\ run.opDocs = {}
    BY <2>1 DEF Declared, Screened, Selected
  <2>4. Selected' /\ Outcomes'
    BY <2>1, <2>2, <2>3 DEF Screened, Selected, Outcomes
  <2> QED
    BY <2>1, <2>2, <2>3, <2>4 DEF Screened, CompletedMeansScreened
<1>3. CASE ~RedactionGate /\ ~MultiRound
  <2>1. /\ layerActive' = layerActive /\ screening' = screening /\ clean' = clean
        /\ ledger \subseteq ledger'
    BY <1>3 DEF GateStep, MetaGate, SensitivityGate, ModelGate, CheckMemoName, GenerateMemo,
       WriteMemo, NameMemo, installation, screened, record
  <2>2. /\ pc \in BeforeCopy \ {"resolve", "copy"}
        /\ pc' \in (BeforeCopy \ {"resolve", "copy"}) \cup {"idle"}
    BY <1>3, StopEnds DEF GateStep, MetaGate, SensitivityGate, ModelGate, CheckMemoName,
       GenerateMemo, WriteMemo, NameMemo, Return
  <2>3. completion'.state # "completed"
    BY <1>3, <1>a, StopNotCompleted DEF GateStep, MetaGate, SensitivityGate, ModelGate,
       CheckMemoName, GenerateMemo, WriteMemo, NameMemo, Return
  <2>4. UNCHANGED <<run.redact, run.opDocs, run.selected, run.masters>>
    BY <1>0, <1>3, StopEnds DEF GateStep, MetaGate, SensitivityGate, ModelGate, CheckMemoName,
       GenerateMemo, WriteMemo, NameMemo, RunRecord
  <2> QED
    BY <2>1, <2>2, <2>3, <2>4, ScreenedFrame
<1> QED
  BY <1>1, <1>2, <1>3

LEMMA WorkScreened == TypeOK /\ Declared /\ Screened /\ WorkStep => Screened'
<1> SUFFICES ASSUME TypeOK, Declared, Screened, WorkStep PROVE Screened'
  OBVIOUS
<1> USE DEF BeforeCopy, BeforeScreen, AfterScreen, Noted, Gating, Preparing, Producing
<1>0. run \in RunRecord
  BY DEF TypeOK
<1>a. completion.state # "completed"
  BY DEF Screened, WorkStep, ClearOperational, ResolveRoles, CopyOperational, Confirm, Boot,
     RuleGate, Produce, Audit, Phase, Synthesize, EditorialBoard, EscalateDeltas
<1>b. /\ layerActive' = layerActive /\ screening' = screening /\ clean' = clean
      /\ ledger' = ledger /\ completion'.state # "completed"
  BY <1>a, StopNotCompleted DEF WorkStep, ClearOperational, ResolveRoles, CopyOperational,
     Confirm, Boot, RuleGate, Produce, Audit, Phase, Synthesize, EditorialBoard,
     EscalateDeltas, installation, screened, record
<1>1. CASE ClearOperational
  <2>1. run' = run /\ operational' = {} /\ pc = "clear" /\ pc' = "resolve"
    BY <1>1 DEF ClearOperational
  <2> QED
    BY <1>b, <2>1, ScreenedFrame
<1>2. CASE ResolveRoles
  <2>1. pc = "resolve" /\ pc' = "copy" /\ operational' = operational
    BY <1>2 DEF ResolveRoles
  <2>2. UNCHANGED <<run.redact, run.opDocs, run.masters>>
    BY <1>0, <1>2 DEF ResolveRoles, RunRecord
  <2>3. run.opDocs = {} /\ operational = {}
    BY <2>1 DEF Screened, Selected
  <2>4. Selected' /\ Outcomes'
    BY <1>b, <2>1, <2>2, <2>3 DEF Screened, Selected, Outcomes
  <2> QED
    BY <1>b, <2>1, <2>2, <2>3, <2>4 DEF Screened, CompletedMeansScreened
<1>3. CASE CopyOperational
  <2>1. /\ pc = "copy" /\ pc' = "confirm" /\ operational' = operational \cup run.selected
        /\ UNCHANGED <<run.redact, run.selected, run.masters>> /\ run'.opDocs = operational'
    BY <1>0, <1>3 DEF CopyOperational, RunRecord
  <2>2. run'.opDocs = run'.selected /\ run.opDocs = {}
    BY <2>1 DEF Screened, Selected
  <2>3. Selected' /\ Outcomes'
    BY <1>b, <2>1, <2>2 DEF Screened, Selected, Outcomes
  <2> QED
    BY <1>b, <2>1, <2>2, <2>3 DEF Screened, CompletedMeansScreened
<1>4. CASE Confirm \/ Boot \/ RuleGate \/ Produce \/ Audit \/ EditorialBoard \/ EscalateDeltas
  <2>1. /\ pc \in BeforeScreen \ BeforeCopy
        /\ pc' \in (BeforeScreen \ BeforeCopy) \cup {"idle", "screen"}
    BY <1>4, StopEnds DEF Confirm, Boot, RuleGate, Produce, Audit, Phase, EditorialBoard,
       EscalateDeltas
  <2>2. UNCHANGED <<run.redact, run.opDocs, run.selected, run.masters>>
    BY <1>0, <1>4, StopEnds DEF Confirm, Boot, RuleGate, Produce, Audit, Phase,
       EditorialBoard, EscalateDeltas, RunRecord
  <2> QED
    BY <1>b, <2>1, <2>2, ScreenedFrame
<1>5. CASE Synthesize
  <2>1. /\ pc = "synthesize" /\ pc' = "editorial"
        /\ UNCHANGED <<run.redact, run.opDocs, run.selected>> /\ run'.masters = run.opDocs
    BY <1>0, <1>5 DEF Synthesize, RunRecord
  <2>2. Selected' /\ Outcomes'
    BY <1>b, <2>1 DEF Screened, Selected, Outcomes
  <2> QED
    BY <1>b, <2>1, <2>2 DEF Screened, CompletedMeansScreened
<1> QED
  BY <1>1, <1>2, <1>3, <1>4, <1>5 DEF WorkStep

LEMMA EndScreened == TypeOK /\ Screened /\ EndStep => Screened'
<1> SUFFICES ASSUME TypeOK, Screened, EndStep PROVE Screened'
  OBVIOUS
<1> USE DEF BeforeCopy, BeforeScreen, AfterScreen, Noted, Gating, Preparing, Producing
<1>0. run \in RunRecord /\ run.opDocs \subseteq Files
  BY DEF TypeOK, RunRecord
<1>a. completion.state # "completed"
  BY DEF Screened, EndStep, SkipScreening, ScreenDocument, EndScreening, CountOutcomes,
     PreserveMemo, UnlinkMemo, UnlinkManifest, ReachEnd
<1>1. CASE SkipScreening
  <2>1. /\ layerActive' = layerActive /\ clean' = clean /\ run' = run /\ ledger' = ledger
        /\ pc = "screen" /\ pc' = "count" /\ completion' = completion
        /\ ~layerActive \/ ~run.redact \/ run.opDocs = {}
        /\ screening' = [d \in Files |-> IF layerActive /\ d \in run.opDocs THEN "SKIPPED"
                                         ELSE screening[d]]
    BY <1>1 DEF SkipScreening, installation, record
  <2>2. Selected' /\ Outcomes'
    BY <2>1 DEF Screened, Selected, Outcomes
  <2> QED
    BY <1>a, <2>1, <2>2 DEF Screened, CompletedMeansScreened
<1>2. CASE \E d \in Files : ScreenDocument(d)
  <2> PICK d \in Files : ScreenDocument(d)
    BY <1>2
  <2>1. /\ layerActive' = layerActive /\ ledger' = ledger
        /\ pc = "screen" /\ pc' = "screen" /\ completion' = completion
        /\ \A e \in Files : e # d => screening'[e] = screening[e]
        /\ clean \subseteq clean'
    BY DEF ScreenDocument, Outcome, installation, record, TypeOK
  <2>2. UNCHANGED <<run.redact, run.opDocs, run.selected, run.masters>>
    BY <1>0 DEF ScreenDocument, RunRecord
  <2>3. \/ screening'[d] \in {"unlisted", "BLOCKED", "HELD_WARNING"}
        \/ screening'[d] = "APPLIED" /\ d \in clean'
        \/ screening'[d] = "NONE" /\ d \notin Shaped
    BY DEF ScreenDocument, Outcome, TypeOK
  <2>4. Selected' /\ Outcomes'
    BY <2>1, <2>2, <2>3 DEF Screened, Selected, Outcomes
  <2> QED
    BY <1>a, <2>1, <2>2, <2>4 DEF Screened, CompletedMeansScreened
<1>3. CASE EndScreening
  <2>1. /\ layerActive' = layerActive /\ screening' = screening /\ clean' = clean
        /\ run' = run /\ ledger' = ledger
        /\ pc = "screen" /\ pc' = "count" /\ completion' = completion
        /\ \A d \in run.opDocs : screening[d] # "unscreened"
    BY <1>3 DEF EndScreening, installation, screened, record
  <2>2. Selected' /\ Outcomes'
    BY <2>1 DEF Screened, Selected, Outcomes
  <2> QED
    BY <1>a, <2>1, <2>2 DEF Screened, CompletedMeansScreened
<1>4. CASE CountOutcomes
  <2>1. /\ layerActive' = layerActive /\ screening' = screening /\ clean' = clean /\ run' = run
        /\ pc = "count" /\ pc' \in {"preserve", "end"} /\ completion' = completion
        /\ ledger \subseteq ledger'
        /\ \A d \in run.opDocs : screening[d] = "HELD_WARNING" => Format(d) \in ledger'
    BY <1>4 DEF CountOutcomes, installation, screened
  <2>2. Selected' /\ Outcomes'
    BY <2>1 DEF Screened, Selected, Outcomes
  <2> QED
    BY <1>a, <2>1, <2>2 DEF Screened, CompletedMeansScreened
<1>5. CASE PreserveMemo \/ UnlinkMemo \/ UnlinkManifest
  <2>1. /\ layerActive' = layerActive /\ screening' = screening /\ clean' = clean
        /\ run' = run /\ ledger' = ledger /\ completion' = completion
        /\ pc \in Noted /\ pc' \in Noted
    BY <1>5 DEF PreserveMemo, UnlinkMemo, UnlinkManifest, installation, screened, record
  <2> QED
    BY <1>a, <2>1, ScreenedFrame
<1>6. CASE ReachEnd
  <2>1. /\ layerActive' = layerActive /\ screening' = screening /\ clean' = clean
        /\ run' = run /\ ledger' = ledger /\ pc = "end" /\ pc' = "idle"
    BY <1>6 DEF ReachEnd, Return, installation, screened, record
  <2>2. completion'.state = "completed" => ~Blocked
    BY <1>6 DEF ReachEnd, Return
  <2>3. Selected' /\ Outcomes'
    BY <2>1 DEF Screened, Selected, Outcomes
  <2>4. ASSUME completion'.state = "completed", layerActive, run.redact, NEW d \in run.masters
        PROVE  /\ screening[d] \notin {"unscreened", "BLOCKED"}
               /\ d \in Shaped => \/ d \in clean \/ Format(d) \in ledger
                                  \/ screening[d] = "unlisted"
    <3>1. d \in run.opDocs /\ d \in Files
      BY <1>0 DEF Screened
    <3>2. screening[d] \notin {"unscreened", "BLOCKED", "SKIPPED"}
      BY <2>1, <2>2, <2>4, <3>1 DEF Screened, Outcomes, Blocked
    <3>3. screening[d] \in Screening
      BY <3>1 DEF TypeOK
    <3> QED
      BY <2>1, <3>1, <3>2, <3>3 DEF Screened, Outcomes, Screening
  <2>5. CompletedMeansScreened'
    BY <2>1, <2>4 DEF CompletedMeansScreened
  <2> QED
    BY <2>1, <2>3, <2>5 DEF Screened
<1> QED
  BY <1>1, <1>2, <1>3, <1>4, <1>5, <1>6 DEF EndStep

LEMMA OutsideScreened == TypeOK /\ Screened /\ OutsideStep => Screened'
<1> SUFFICES ASSUME TypeOK, Screened, OutsideStep PROVE Screened'
  OBVIOUS
<1> USE DEF BeforeCopy, BeforeScreen, AfterScreen, Noted, Gating, Preparing, Producing
<1>0. run \in RunRecord
  BY DEF TypeOK
<1>1. CASE \E a \in Args : Begin(a)
  <2>1. /\ run' = NoRun /\ pc' \in {"idle", "meta"}
        /\ screening' = [d \in Files |-> "unscreened"]
        /\ completion'.state \in {"stopped", "running"}
    BY <1>1 DEF Begin, Return, NoCompletion
  <2>2. run'.opDocs = {} /\ run'.masters = {}
    BY <2>1 DEF NoRun
  <2>3. Selected' /\ Outcomes'
    BY <2>1, <2>2 DEF Selected, Outcomes
  <2> QED
    BY <2>1, <2>2, <2>3 DEF Screened, CompletedMeansScreened
<1>2. CASE \/ \E f \in Files : PlaceFile(f)
           \/ \E targets \in SUBSET (Here \cap Docs) \ {{}} : DeclareTargets(targets)
  <2>1. /\ layerActive' = layerActive /\ screening' = screening /\ clean' = clean
        /\ ledger' = ledger /\ pc' = pc /\ operational' = operational
        /\ completion' = completion
    BY <1>2 DEF PlaceFile, DeclareTargets, record, screened
  <2>2. UNCHANGED <<run.redact, run.opDocs, run.selected, run.masters>>
    BY <1>0, <1>2 DEF PlaceFile, DeclareTargets, Edit, RunRecord
  <2>3. pc \in {"resolve", "copy"} => operational = {}
    BY DEF Screened, Selected
  <2> QED
    BY <2>1, <2>2, <2>3, ScreenedFrame
<1>3. CASE Raise \/ Kill
  <2>1. /\ layerActive' = layerActive /\ screening' = screening /\ clean' = clean
        /\ ledger' = ledger /\ pc' = "idle" /\ run' = run
        /\ completion'.state # "completed"
    BY <1>3 DEF Raise, Kill, record, screened, installation, Screened, TypeOK, CompletionRecord
  <2> QED
    BY <2>1, ScreenedFrame
<1> QED
  BY <1>1, <1>2, <1>3 DEF OutsideStep

LEMMA ScreenedAlways == Spec => [](TypeOK /\ Declared /\ Screened)
<1>1. Init => TypeOK /\ Declared /\ Screened
  <2> SUFFICES ASSUME Init PROVE Declared /\ Screened
    BY InitType
  <2>1. /\ pc = "idle" /\ run.redact /\ ~run.paid /\ ~run.board /\ run.masters = {}
        /\ run.opDocs = {} /\ completion.state = "none"
    BY DEF Init, NoRun, NoCompletion
  <2>2. \A d \in Files : screening[d] = "unscreened"
    BY DEF Init
  <2>3. Declared
    BY <2>1 DEF Declared, Gating, Preparing, Producing, Overridden, Waived
  <2>4. Screened
    BY <2>1, <2>2 DEF Screened, Selected, Outcomes, CompletedMeansScreened,
       BeforeCopy, BeforeScreen, AfterScreen, Noted, Gating, Preparing, Producing
  <2> QED
    BY <2>3, <2>4
<1>2. TypeOK /\ Declared /\ Screened /\ [Next]_vars => (TypeOK /\ Declared /\ Screened)'
  <2> SUFFICES ASSUME TypeOK, Declared, Screened, [Next]_vars
               PROVE  TypeOK' /\ Declared' /\ Screened'
    OBVIOUS
  <2>1. CASE UNCHANGED vars
    BY <2>1 DEF vars, installation, folders, screened, record, TypeOK, Declared, Overridden,
       Waived, Screened, Selected, Outcomes, CompletedMeansScreened
  <2> QED
    BY <2>1, NextSteps, GateType, WorkType, EndType, OutsideType,
       GateDeclared, WorkDeclared, EndDeclared, OutsideDeclared,
       GateScreened, WorkScreened, EndScreened, OutsideScreened
<1> QED
  BY <1>1, <1>2, PTL DEF Spec

\* What a run reviews is what its own resolution chose, whatever a killed run left.
THEOREM ReviewedAreSelectedHolds == Spec => []ReviewedAreSelected
<1>1. Screened => ReviewedAreSelected
  BY DEF Screened, Selected, ReviewedAreSelected
<1> QED
  BY <1>1, ScreenedAlways, PTL

\* A completed run with redaction in force ships no protected shape unscrubbed and
\* unsaid.
THEOREM CompletedMeansScreenedHolds == Spec => []CompletedMeansScreened
<1>1. Screened => CompletedMeansScreened
  BY DEF Screened
<1> QED
  BY <1>1, ScreenedAlways, PTL

-----------------------------------------------------------------------------
(* What a draft run leaves behind                                          *)

Kept == args.memo \in preserved
Gone == context[args.memo] = "absent"

\* While the operator leaves the folder alone, the memo and its manifest are there
\* until the run's end, the copy is taken first and the manifest goes last.
Cleaning ==
  /\ pc = "multi_round" => args.task # "draft"
  /\ (pc \in Named /\ args.task = "draft" /\ ~run.edited) =>
       manifest.source = "system_draft" /\ args.memo \in manifest.targets
         /\ context[args.memo] = "system"
  /\ pc = "unlink_memo" /\ ~run.edited => Kept
  /\ pc = "unlink_manifest" /\ ~run.edited => Kept /\ Gone
  /\ (pc = "end" /\ args.task = "draft" /\ ~run.edited) => Kept /\ Gone /\ manifest = NoManifest
  /\ DraftCleansUp

LEMMA CleaningFrame ==
  ASSUME Cleaning, UNCHANGED <<context, manifest, args, preserved, run.edited>>,
         pc' = "multi_round" => args.task # "draft",
         pc' \in Named => pc \in Named \/ args.task # "draft",
         pc' = "unlink_memo" => pc = "unlink_memo",
         pc' # "unlink_manifest",
         pc' = "end" => args.task # "draft",
         completion'.state # "completed" \/ args.task # "draft"
  PROVE  Cleaning'
  BY DEF Cleaning, Kept, Gone, DraftCleansUp

LEMMA GateCleaning ==
  TypeOK /\ MemoIsOurs /\ Screened /\ Cleaning /\ GateStep => Cleaning'
<1> SUFFICES ASSUME TypeOK, MemoIsOurs, Screened, Cleaning, GateStep PROVE Cleaning'
  OBVIOUS
<1> USE DEF Drafting, Named
<1>0. run \in RunRecord
  BY DEF TypeOK
<1>a. completion.state # "completed"
  BY DEF Screened, GateStep, MetaGate, SensitivityGate, ModelGate, RedactionGate,
     CheckMemoName, GenerateMemo, WriteMemo, NameMemo, MultiRound
<1>b. args' = args /\ preserved' = preserved /\ run'.edited = run.edited
  BY <1>0, StopEnds DEF GateStep, MetaGate, SensitivityGate, ModelGate, RedactionGate,
     CheckMemoName, GenerateMemo, WriteMemo, NameMemo, MultiRound, record, RunRecord
<1>1. CASE WriteMemo \/ NameMemo
  <2>1. completion'.state # "completed"
    BY <1>1, <1>a, StopNotCompleted DEF WriteMemo, NameMemo
  <2>2. CASE WriteMemo
    <3>1. pc' \in {"idle", "name"}
      BY <2>2, StopEnds DEF WriteMemo
    <3> QED
      BY <2>1, <3>1 DEF Cleaning, DraftCleansUp
  <2>3. CASE NameMemo
    <3>1. /\ pc = "name" /\ pc' = "clear" /\ context' = context
          /\ manifest'.source = "system_draft" /\ args.memo \in manifest'.targets
      BY <2>3 DEF NameMemo
    <3> QED
      BY <1>b, <2>1, <3>1 DEF Cleaning, DraftCleansUp, MemoIsOurs
  <2> QED
    BY <1>1, <2>2, <2>3
<1>2. CASE MultiRound
  <2>1. /\ context' = context /\ manifest' = manifest /\ pc' = "idle"
        /\ args.task # "draft"
    BY <1>2 DEF MultiRound, Stop, Return, folders, Cleaning
  <2> QED
    BY <1>b, <2>1, CleaningFrame
<1>3. CASE ~WriteMemo /\ ~NameMemo /\ ~MultiRound
  <2>1. context' = context /\ manifest' = manifest
    BY <1>3 DEF GateStep, MetaGate, SensitivityGate, ModelGate, RedactionGate, CheckMemoName,
       GenerateMemo, folders
  <2>2. completion'.state # "completed"
    BY <1>3, <1>a, StopNotCompleted DEF GateStep, MetaGate, SensitivityGate, ModelGate,
       RedactionGate, CheckMemoName, GenerateMemo, Return
  <2>3. \/ pc' \in {"idle", "sensitivity", "models", "redaction", "draft", "generate", "write"}
        \/ pc' \in {"multi_round", "clear"} /\ args.task # "draft"
    BY <1>3, StopEnds DEF GateStep, MetaGate, SensitivityGate, ModelGate, RedactionGate,
       CheckMemoName, GenerateMemo, Return
  <2> QED
    BY <1>b, <2>1, <2>2, <2>3, CleaningFrame
<1> QED
  BY <1>1, <1>2, <1>3

LEMMA WorkCleaning ==
  TypeOK /\ Screened /\ Cleaning /\ WorkStep => Cleaning'
<1> SUFFICES ASSUME TypeOK, Screened, Cleaning, WorkStep PROVE Cleaning'
  OBVIOUS
<1> USE DEF Drafting, Named
<1>0. run \in RunRecord
  BY DEF TypeOK
<1>a. completion.state # "completed"
  BY DEF Screened, WorkStep, ClearOperational, ResolveRoles, CopyOperational, Confirm, Boot,
     RuleGate, Produce, Audit, Phase, Synthesize, EditorialBoard, EscalateDeltas
<1>b. /\ args' = args /\ preserved' = preserved /\ context' = context
      /\ completion'.state # "completed"
      /\ pc \in Named /\ pc' \in (Named \ {"preserve", "unlink_memo"}) \cup {"idle"}
  BY <1>a, StopEnds, StopNotCompleted DEF WorkStep, ClearOperational, ResolveRoles,
     CopyOperational, Confirm, Boot, RuleGate, Produce, Audit, Phase, Synthesize,
     EditorialBoard, EscalateDeltas, folders, record
<1>c. run'.edited = run.edited
  BY <1>0, StopEnds DEF WorkStep, ClearOperational, ResolveRoles, CopyOperational, Confirm,
     Boot, RuleGate, Produce, Audit, Phase, Synthesize, EditorialBoard, EscalateDeltas, RunRecord
<1>1. CASE ResolveRoles
  <2>1. pc = "resolve" /\ (manifest # NoManifest => manifest' = manifest)
    BY <1>1 DEF ResolveRoles
  <2>2. manifest.source = "system_draft" => manifest # NoManifest
    BY DEF NoManifest
  <2> QED
    BY <1>b, <1>c, <2>1, <2>2 DEF Cleaning, DraftCleansUp
<1>2. CASE ~ResolveRoles
  <2>1. manifest' = manifest
    BY <1>2 DEF WorkStep, ClearOperational, CopyOperational, Confirm, Boot, RuleGate,
       Produce, Audit, Phase, Synthesize, EditorialBoard, EscalateDeltas, folders
  <2> QED
    BY <1>b, <1>c, <2>1, CleaningFrame
<1> QED
  BY <1>1, <1>2

LEMMA EndCleaning ==
  TypeOK /\ MemoIsOurs /\ Screened /\ Cleaning /\ EndStep => Cleaning'
<1> SUFFICES ASSUME TypeOK, MemoIsOurs, Screened, Cleaning, EndStep PROVE Cleaning'
  OBVIOUS
<1> USE DEF Drafting, Named
<1>0. run \in RunRecord /\ args.memo \in Files
  BY DEF TypeOK, Args, Files
<1>a. completion.state # "completed"
  BY DEF Screened, EndStep, SkipScreening, ScreenDocument, EndScreening, CountOutcomes,
     PreserveMemo, UnlinkMemo, UnlinkManifest, ReachEnd
<1>b. args' = args /\ run'.edited = run.edited
  BY <1>0 DEF EndStep, SkipScreening, ScreenDocument, EndScreening, CountOutcomes,
     PreserveMemo, UnlinkMemo, UnlinkManifest, ReachEnd, RunRecord
<1>1. CASE SkipScreening \/ (\E d \in Files : ScreenDocument(d)) \/ EndScreening \/ CountOutcomes
  <2>1. /\ context' = context /\ manifest' = manifest /\ preserved' = preserved
        /\ completion' = completion
        /\ pc \in {"screen", "count"} 
        /\ pc' \in {"screen", "count", "preserve"} \/ (pc' = "end" /\ args.task # "draft")
    BY <1>1 DEF SkipScreening, ScreenDocument, EndScreening, CountOutcomes, folders, record
  <2> QED
    BY <1>a, <1>b, <2>1, CleaningFrame
<1>2. CASE PreserveMemo
  <2>1. /\ context' = context /\ manifest' = manifest /\ completion' = completion
        /\ pc = "preserve" /\ pc' = "unlink_memo" /\ args.task = "draft"
        /\ preserved' = IF manifest.source = "system_draft" THEN manifest.targets \cap Here ELSE {}
    BY <1>2 DEF PreserveMemo, folders, MemoIsOurs
  <2>2. ~run.edited => args.memo \in preserved'
    BY <1>0, <2>1 DEF Cleaning, Here
  <2> QED
    BY <1>a, <1>b, <2>1, <2>2 DEF Cleaning, DraftCleansUp, Kept
<1>3. CASE UnlinkMemo
  <2>1. /\ manifest' = manifest /\ completion' = completion /\ preserved' = preserved
        /\ pc = "unlink_memo" /\ args.task = "draft"
    BY <1>3 DEF UnlinkMemo, record, MemoIsOurs
  <2>2. ~run.edited => /\ pc' = "unlink_manifest" /\ context'[args.memo] = "absent"
                       /\ args.memo \in preserved
    BY <1>0, <1>3, <2>1 DEF UnlinkMemo, Cleaning, Kept
  <2>3. pc' \in {"unlink_manifest", "end"}
    BY <1>3 DEF UnlinkMemo
  <2> QED
    BY <1>a, <1>b, <2>1, <2>2, <2>3 DEF Cleaning, DraftCleansUp, Kept, Gone
<1>4. CASE UnlinkManifest
  <2>1. /\ context' = context /\ completion' = completion /\ preserved' = preserved
        /\ pc = "unlink_manifest" /\ pc' = "end" /\ manifest' = NoManifest
    BY <1>4 DEF UnlinkManifest, record
  <2> QED
    BY <1>a, <1>b, <2>1 DEF Cleaning, DraftCleansUp, Kept, Gone
<1>5. CASE ReachEnd
  <2>1. /\ context' = context /\ manifest' = manifest /\ preserved' = preserved
        /\ pc = "end" /\ pc' = "idle"
    BY <1>5 DEF ReachEnd, Return, folders, record
  <2> QED
    BY <1>b, <2>1 DEF Cleaning, DraftCleansUp, Kept, Gone
<1> QED
  BY <1>1, <1>2, <1>3, <1>4, <1>5 DEF EndStep

LEMMA OutsideCleaning ==
  TypeOK /\ Screened /\ Cleaning /\ OutsideStep => Cleaning'
<1> SUFFICES ASSUME TypeOK, Screened, Cleaning, OutsideStep PROVE Cleaning'
  OBVIOUS
<1> USE DEF Drafting, Named
<1>0. run \in RunRecord
  BY DEF TypeOK
<1>1. CASE \E a \in Args : Begin(a)
  <2>1. pc' \in {"idle", "meta"} /\ completion'.state \in {"stopped", "running"}
    BY <1>1 DEF Begin, Return, NoCompletion
  <2> QED
    BY <2>1 DEF Cleaning, DraftCleansUp
<1>2. CASE \/ \E f \in Files : PlaceFile(f)
           \/ \E targets \in SUBSET (Here \cap Docs) \ {{}} : DeclareTargets(targets)
  <2>1. pc' = pc /\ args' = args
    BY <1>2 DEF PlaceFile, DeclareTargets
  <2>2. run'.edited
    BY <1>0, <1>2 DEF PlaceFile, DeclareTargets, Edit, RunRecord
  <2> QED
    BY <2>1, <2>2 DEF Cleaning, DraftCleansUp
<1>3. CASE Raise \/ Kill
  <2>1. pc' = "idle" /\ completion'.state # "completed"
    BY <1>3 DEF Raise, Kill, Screened, TypeOK, CompletionRecord
  <2> QED
    BY <2>1 DEF Cleaning, DraftCleansUp
<1> QED
  BY <1>1, <1>2, <1>3 DEF OutsideStep

\* A draft run that completed and whose folder the operator left alone leaves
\* neither memo nor manifest behind, and a copy of the memo.
THEOREM DraftCleansUpHolds == Spec => []DraftCleansUp
<1>1. Init => MemoIsOurs /\ Cleaning
  BY DEF Init, MemoIsOurs, Cleaning, DraftCleansUp, Drafting, Named, NoCompletion
<1>2. /\ TypeOK /\ Screened /\ MemoIsOurs /\ Cleaning
      /\ [Next]_vars
      => (MemoIsOurs /\ Cleaning)'
  <2> SUFFICES ASSUME TypeOK, Screened, MemoIsOurs, Cleaning, [Next]_vars
               PROVE  MemoIsOurs' /\ Cleaning'
    OBVIOUS
  <2>1. CASE UNCHANGED vars
    BY <2>1 DEF vars, installation, folders, screened, record, MemoIsOurs, Cleaning, Kept, Gone,
       DraftCleansUp
  <2> QED
    BY <2>1, NextSteps, GateMemo, WorkMemo, EndMemo, OutsideMemo,
       GateCleaning, WorkCleaning, EndCleaning, OutsideCleaning
<1>3. Cleaning => DraftCleansUp
  BY DEF Cleaning
<1> QED
  BY <1>1, <1>2, <1>3, ScreenedAlways, PTL DEF Spec
=============================================================================
