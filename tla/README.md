# Project Shimmer: a verification development

TLA+ models of the document-review pipeline in this repository: the server's
queue, the scheduler, the operator's channel, one review run, its paired review,
the constitution with its snapshots and the rented instance; TLC configurations
that check them on small instances; and proofs that TLAPS checks for every value
of the constants.

Paths below are relative to the repository; line numbers refer to its files.

## 1. The system

A FastAPI server (`scripts/server.py`) accepts documents, queues review jobs and
starts one pipeline process (`scripts/pipeline.py`) at a time. A pipeline calls
about eighteen agents through `agent_wrapper.py`, on lanes of an in-process
scheduler, under a constitution that only an operator may amend; agents post to
an append-only message bus. Stores outlive runs under `durable/`.

| Component | State it keeps | Operations | What makes it correct |
|---|---|---|---|
| Review queue, `server.py` | `JOBS`, `_STAGING`, `_PROCS`, `_CANCELLED`, `_THREADS`, `_STOPPING`, one `status.json` per run, `input/context/` | submit, cancel, worker thread, run timer, auto-clear, shutdown, rebuild after a restart | one pipeline at a time, first come first served; a run ends once, and only after its process; no run gets another run's files |
| Execution scheduler, `execution_scheduler.py` | tasks, outcomes, lanes, futures in flight | `run` of a batch, commits in logical order, cancel, timeout, interrupt | a lane serves one action; consumers start on published evidence; every call ends with every task settled |
| Operator channel, `pipeline.py`, `server.py`, `orchestrator.py`, `model_registry.py` | `pending_approval.json`, `approval_decision.json`, the operator ledger, the amendments | ask, poll, time out, answer, enact | an answer decides one question, the one it was given for; the ledger tells what was decided |
| Execution topology, `execution_topology.py` | lanes, the resident model of each | attach, load, evict, ordered calls | a model is not evicted under a call |
| Semantic waves, `semantic_waves.py` | frozen snapshot of the bus, outputs of a wave | run a wave, execute plans with one retry | every agent of a wave reads the same snapshot; posts are complete |
| Message bus, `message_bus.py` | a JSONL file and its last id | post, read | ids increase, a message is written once |
| Constitution, guard, snapshots, `constitution.py`, `constitution_guard.py`, `snapshot_manager.py` | `config/constitution.json`, the memory of each pipeline, `snapshots/<name>`, the derived stores | load, append and save, guard, save, restore and reset of snapshots | nothing ratified disappears but by an approved write; what is stripped is in a backup |
| Review run, `pipeline.py` (`main`), `role_resolution.py`, `sensitivity_layer/`, `run_completion.py` | input folders, manifest, governance ledger, deliverables, completion record | gates, draft, choice of documents, phases, screening, clean-up | nothing is spent undeclared; completed means screened; the operator's files stay |
| Paired review, `pipeline.py`, `paired_review.py` | plans, questions, findings, amendments | plan, route, ask, render, consume, post, promote | no computed disagreement is lost, whatever models and bus do |
| Orchestrator, `orchestrator.py` | charters, task forces | deliberate, escalate | only approved amendments enter |
| Cost tracker, `cost_tracker.py` | event log and derived snapshot | record, read | the snapshot is a function of the log |
| Ontology stores, `ontology_store.py` and its neighbours | live store, log | append, promote | a live entry is explained by the log |
| Desktop launcher, `desktop_launcher.py`, `desktop_server.py` | server process, owner | start, watch, stop | the queue is shut down once when the owner goes |
| Cloud tools, `tools/deploy_cloud_run.py`, `tools/cloud_run_watchdog.py`, `tools/cloud_run_remote.py` | rented instance, claim, termination request and verification, status | deploy, watch, run once, collect, terminate | one attempt; valid only when over; with arguments that let a watch run, no instance is paid for ever |

How they interact: the server starts the pipeline as a child and reads its exit
code and output; the operator channel is two files between those two processes;
pipeline, waves and topology call the scheduler; the scheduler calls actions on
lane threads; agents post to the bus and read it; the orchestrator calls the
constitution when the operator channel returns an approval. `main` runs the
gates, chooses the documents and calls the phases, of which the paired review is
one; it leaves a completion record. The cloud tools run the same pipeline on a
rented instance. `PROJECT.json` lists every component with its status.

What is hard here: worker threads, the event loop, timers, a child process and
the shutdown thread take `JOBS_LOCK` in any order and do much outside it; the
server may die and rebuild its queue from files; lane threads finish in any
order while a coordinator may be interrupted, twice; two processes talk through
two files and a deadline; a run may be killed at any of its steps and the next
starts over what it left; several pipelines and snapshot commands write one
constitution file without a lock; the tools that must end a paid instance die
themselves. `hazards` in `PROJECT.json` names each place.

## 2. Modules

| Module | Models | Abstract or detailed |
|---|---|---|
| `SerialQueue` | what the queue promises: accept, start in order, one at a time, end | abstract specification |
| `JobQueue` | `server.py`: submit, cancel, `_run_job`, timer, child, `shutdown_jobs`, `_rebuild_jobs_from_disk` | implements `SerialQueue` |
| `MCJobQueue` | symmetry of the runs, for TLC | |
| `JobQueue_proofs`, `JobQueueEnds_proofs` | theorems about `JobQueue`: the records, threads and processes; what a run holds and leaves | |
| `Scheduler` | `execution_scheduler.py`: `run`, `_run`, `publish_ready`, `_execute`, the interrupt handler | |
| `MCScheduler` | the batches TLC checks | |
| `Scheduler_proofs` | theorems about `Scheduler` | |
| `OperatorChannel` | `_make_file_operator_handler`, `answer_approval`, `escalate_delta_proposals`, the model gate | |
| `OperatorChannel_proofs` | theorems about `OperatorChannel` | |
| `ReviewRun` | `main` of `pipeline.py` from the gates to the completion record, draft phase 0, document roles, phase 9, `run_completion.py` | |
| `PairedReview` | phase 5.5 in paired mode: `plan_calls`, `_paired_convention_review`, `_reattribute_computed_plan`, `consume_judgment`, `ensure_amendments_for_findings` | |
| `MCPairedReview` | the documents and rules TLC checks | |
| `Governance` | `Constitution.load`, `add_amendment`, `save`, the guard, `save_snapshot`, `load_snapshot`, `reset_snapshot` | |
| `MCGovernance` | symmetry of the pipelines | |
| `CloudRun` | `deploy_cloud_run.py`, `cloud_run_watchdog.py`, `cloud_run_remote.py` | |
| `ReviewRun_proofs`, `PairedReview_proofs`, `Governance_proofs`, `CloudRun_proofs` | theorems about the four | |

An operator introduced as a mutant, a slip or "as it would be" before the
definition it resembles is that definition with a plausible bug; no
specification uses it. It serves to show that a property can fail.

### JobQueue

*State.* `jobs` and `job` are `JOBS` and its records, `disk` is what
`status.json` of each run says, `staged` is `_STAGING` with its directories,
`procs` and `cancelEv` are `_PROCS` and `_CANCELLED`. `worker[r]` is the place of
the worker thread in `_run_job`, `found[r]` its locals `exit_code` and `error`.
`child` and `rc` are the pipeline process. `cases`, `sidecar` and `manifest` are
what is in `input/context/`. `http` is the request in hand, `shut` the place of
`shutdown_jobs`.

*Actions.* Each section under `JOBS_LOCK` is one action, and so is each file or
process operation another thread can observe. `cancel_run` has five actions: it
polls for handles, signals, terminates and answers with other threads in between.
`_run_job` runs from `Register` over `PlaceFiles`, `Spawn`, `StreamEnds` or
`StreamFails` and `ReapKilled`, `Classify`, `RecordOutcome`, the two clearing steps
and `Unstage` to `PickUpNext`. `SetupFails` and `StreamFails` are file and process
errors. `Restart` may happen anywhere: threads die, the child lives on.

*Abstractions.*
- Routes are `async def` without an await after their checks: one request is in
  hand at a time (`cancel_run` blocks the loop while it polls and waits).
- Placing the files of a run is one step. Files of different bundles have
  different names; native reviews share names and manifest only if `Resubmit`.
- `SHIMMER_AUTO_CLEAR` has its default, true. Only the review task is modelled:
  not the draft and system-draft memos, not multi-round requests.
- SIGTERM and SIGKILL are one signal with code -15. A signalled child ends, so
  `_stop_process` never gives up; `shutdown_jobs` may still fail to join a worker.
- The directories `shutdown_jobs` removes after its sweep go with the sweep.
- `jobs` keeps the order of submission over a restart (the code sorts the
  rebuilt list by `submitted_at`). A run whose every status write was lost is
  `"absent"` after the restart: it is in no list any more.
- The log is not modelled, its failure is.

### Scheduler

*State.* `pending`, `running` (`_inflight`), `outcome`, `committed`, `accepted`,
`override` are the coordinator's; `busy`, `healthy`, `lane`, `stop` belong to
lanes and actions; `act` and `result` are the lane thread; `late` and `cancel`
the clock and the caller.

*Actions.* The `while` loop of `_run` is cut into its inner loops: `Poll`, one
`Visit` per pending task with `Commit*`, `Assign` (up to the submission to the
lane's pool) and `Register` (the entry in `_inflight`), then `Wait`, one `Collect`
per finished action, and `Commit*` again. `Interrupt` is an exception between two
of these; within one it is `InterruptCommitting` (the commit was called, the task
does not count as committed), `InterruptAssigning` (the lane is marked, the task
not submitted) or `InterruptCollecting` (out of `_inflight`, outcome not recorded,
lane marked or not). `Drain`, `DrainInterrupted`, `Raise` and `Abandon` are the
handler in `run`, the last one left by a further exception. `Begin` and `Finish` are
the two checkpoints of `_execute`.

*Abstractions.* One batch per scheduler, `close()` not modelled; a task is its
sequence number; `_compatible` is the constant relation `on` and `healthy`; any
free compatible lane may be chosen; telemetry is left out except that a sink
that raises is an interrupt. The bound of the ready queue belongs to the batch
(`max`), so that one run has batches that fit and batches that do not. An exception
between the two assignments of one statement, or before anything was admitted, is
left out.

### OperatorChannel

*State.* `pending` and `decision` are the two files, `asked` the number of the
question, `answer` and `verdict` what the handler read and returned, `ledger`
`operator_decisions.jsonl`, `amendments` those added. `http` is an answer whose
checks have passed; its `about` is the content of the pending file at that
moment, which no code reads: it serves a property.

*Actions.* `BeginAsk` unlinks the decision, `PendingOpened` and `PendingWritten`
are the two halves of `write_text`, `TakeDecision` and `TimeOut` end the wait,
`Enact` adds the amendment. `RouteChecks` and `RouteWrites` are `answer_approval`
before and after its replace. `Killed` ends the pipeline anywhere.

*Abstractions.* Time: the deadline may be over whenever the handler waits. An
answer's text is `approve` for the words that approve and `reject` for others.
`ModelGate` only stops or goes on, since the handler is not consulted when the
run is not interactive. The bus post of the handler has no effect on the channel
and is left out (it calls `MessageBus.post` with keywords that method does not
take; the exception is swallowed, so the trail its comment describes is not
left). Nor is the guard's refusal of an amendment modelled.

### ReviewRun

*State.* `pc` is the place in `main`; `args` the command line as far as the gates
look at it; `run` what the run has decided (redaction on or off, documents
selected and copied, masters written, whether a paid call was made).
`context`, `manifest`, `mandate` and `operational` are the input folders,
`screening` and `clean` what phase 9 found and did, `ledger` the governance
entries of this run, `preserved` the memos copied to the deliverables,
`completion` `audit/run_completion.json`.

*Actions.* One per gate (`MetaGate`, `SensitivityGate`, `ModelGate`,
`RedactionGate`, `RuleGate`) in the order of `main`; four for the draft phase;
`ClearOperational`, `ResolveRoles`, `CopyOperational` for the choice of
documents; one per phase; one per document in phase 9; three for the clean-up of
a draft. `Raise` is an exception or an interruption, which the decorator of
`main` records, `Kill` one it cannot. `PlaceFile` and `DeclareTargets` are the
operator, at any moment. A second `Begin` finds what the first run left.

*Abstractions.* A file is the operator's, the system's or absent; a deliverable
is scrubbed or not; whether a protected shape is in a document is a constant
(`Shaped`), what the redactor answers is free. The agents' phases are paid steps
that may lose a call; phase 5.5 is `PairedReview`, the operator's answers of
phase 7 are `OperatorChannel`, the amendments they enact are `Governance`. The
multi-round path is one step. Which of a completion record's fields are read is
not modelled.

### PairedReview

*State.* `world` is what the planner sees: pairs of units and rules under the
cap, the agent of each rule, suspensions, scopes, required fields, computed
arithmetic. `planned`, `todo` and `pending` are the plans returned, not yet
taken, and asked; `notJudged`, `reattributed`, `absence`, `rendered` and `called`
the lists of the map; `findings` Python's own, `judged` and `refused` what models
claimed; `bus`, `amendments` and `refusals` what comes out.

*Actions.* `Plan`; for each plan `SetAside`, `ComputeAbsence`, `RenderExact`
(waves only) or `Ask`; `ConsumeOpinion` and `ConsumeJudgment`; `MissingUnits`,
`Post`, `Promote`. In serial mode a question is consumed before the next plan is
taken, with waves all are asked first.

*Abstractions.* What is computed of figures is an input of the world. A model's
answer is present or failed, and an absence claim is one of five kinds. The kind
`duration` is folded into `band`, several required labels into one. A post
succeeds or fails per agent and kind of message. The order in which plans are
taken, and the rule to which shared arithmetic is attributed or moved (the code
scores word overlap), are free.

### Governance

*State.* `constitution` and `tmp` are the file and the one temporary file all
processes share, each absent, torn or whole; `memory[p]` what a pipeline loaded
and appended to; `snap` the snapshots with what each holds; `live` the derived
stores. `owed`, `lost`, `stripped` and `replaced` are history for the properties:
entries on file that no approved write has named, whether a restore died while it
copied, what resets have deleted, and what of it was in a backup that a later reset
replaced. `second` is the second of the last reset: the next one starts in it or in
a later one, and in the same second its backup has the same name and replaces the
first (`overwrite=True`), also when the two do not overlap.

*Actions.* `AddAmendment`, `CheckSave`, `OpenTmp`, `FillTmp`, `Replace` are
`add_amendment` and `save`; `Save` to `SaveMeta` a snapshot, `Reset` and `Strip` a
reset after its backup, `Load` to `Reload` a restore, whose `copy2` is torn before
it is whole. `Die` ends any process within an operation. `Learn` is a run that
writes to a derived store.

*Abstractions.* An amendment is a number, its id its place in the list, as
`_next_id` makes it. The operator's approval of a change is free. With `Overlap`
FALSE operations of different processes do not interleave (the code has no lock
between processes, so this is an assumption about use; section 6 shows what
happens without it), while their memories still go stale. Prompts, registry
copies and the output folders are left out.

### CloudRun

*State.* `instance` is what the provider reports, `directory`, `claimed`, `job`
and `runs` what is on the instance; `at[d]` the place of the controller of a
deployment, `watch[d]` its detached watchdog; `taken`, `requested`, `verified`,
`status` the files it writes; `input[d]` what the operator typed as far as it decides
whether a watch can end the instance; `clock` where the time stands in the budget.

*Actions.* The controller from `Begin` over `MakeCollection`, `StartWatchdog`,
`AwaitArmed` and the steps of the `try` block to `RequestEnd` and `WriteStatus`;
`Fail` is any of its exceptions. `Caught` is what `main` does with an exception of
`execute` outside that block: an emergency watch, `Refuse`, unless the instance ID is
not of the provider's form; `WatchRaises` is the watch that refuses the time or the
rate, which `main` only reports. `Poll` is an iteration of the watchdog that reaches
the provider. `Claim` is the exclusive create of `RUN_CLAIMED`, reached by
`StartRemote` and, typed by hand, by `Rerun`.
`ControllerDies` and `WatchdogDies` may happen anywhere, `Vanish` and `Tick` are
the provider and the clock.

*Abstractions.* Time is one of four stages of the budget. SSH, hashes and checks
on the instance succeed or fail. An iteration of the watchdog that does not
reach the provider changes nothing and is a stutter; with a credential that is missing
or refused every iteration is one (`Reaches`). An instance ID of the right form is
taken to be that of the rented instance. The read-only observer is
left out.

## 3. Runs

| Run | Question | Bounds |
|---|---|---|
| `JobQueue_life` | Do records, threads, processes, uploads and outcomes stay together through cancel, timeout, a failing operation, shutdown and a restart? | 2 runs of one plan, exit codes 0 and 3, 1 cancel, 1 fault, 1 restart |
| `JobQueue_disk` | Native reviews and bundles mixed, status writes that are lost: do record, thread and process stay together, do files stay under a running review? | 2 runs, 1 cancel, 1 restart |
| `JobQueue_refine` | Is it a first-come first-served queue? | 3 runs, 1 cancel, 1 restart: with two, two runs never wait |
| `JobQueue_live` | Does every run end, does a cancel take effect, does shutdown return? | 2 runs, timeout armed, 1 cancel |
| `Scheduler_safety` | Lanes, evidence, order, completeness, with an exception between or within the coordinator's steps | 3 tasks, 2 lanes, all forward edges of three kinds, a timeout on task 1 of 4 batches, the same 4 too large for the ready queue, 1 interrupt: with two, a lane is freed too early (section 6) |
| `Scheduler_live` | Does every call end? | 18 batches, 4 of them too large, also after two interrupts |
| `OperatorChannel_run` | Do answers, verdicts, ledger and amendments agree, and does every question end? | 3 questions, 3 answers, 1 lost ledger line |
| `ReviewRun_run` | Is nothing spent undeclared, is what is reviewed what was chosen, is a completed run screened, do drafts clean up and operator files stay? | 2 runs, 1 document, 2 memo names, 1 operator edit, a kill or failure in each run |
| `PairedReview_run` | Is every plan accounted for and no disagreement lost when calls and posts fail and plans move between rules? | all triples of ten kinds of rule on one unit, arithmetic absent, agreeing or wrong, a second unit without a match, 2 agents, serial and waves |
| `Governance_run` | Is nothing ratified lost, and is what is stripped in a backup until one of the same second replaces it? | 2 pipelines, 1 operator, 1 named snapshot, 2 seconds for backups, 2 amendments, 1 item, 1 death |
| `CloudRun_run` | One attempt, a verdict that is earned, an instance that ends | 2 deployments, each with one of 4 kinds of arguments, 1 instance, 2 collections, 2 deaths, 1 rerun by hand |
| `JobQueue_v_clear` | A statement of the repository TLC refutes, section 6 | the smallest that shows it |

*Why these bounds.* The queue's hazards are between the end of one run and the
start of the next: two runs, three where two must wait. One cancel, one fault
and one restart each meet every place of every thread. Two faults or restarts
add repetitions of a state that one restart already makes (`Restart` resets
every thread). In the scheduler three tasks give chains, forks and joins, a
task that waits for the logical order behind one it does not depend on, and
priorities against that order; two lanes give sharing and dedication. In the
operator channel a third question shows that nothing of the first two remains.
A review run meets another only through the folders and the manifest: two runs,
one of which may be a draft and may be killed; two memo names, so that what is
left and what is written next differ. The rules of a unit meet in the
attribution of shared arithmetic: three, of which one may be suspended, one
without an agent and one free to take over. Two pipelines make a memory stale,
one death and two backups meet each step of a restore or a reset. Two
deployments compete for one directory, on one collection or two; two deaths take
a controller and a watchdog, or both watchdogs.
Every `Max...` constant only bounds what the environment does.

*Deadlock* is checked in the passing runs of `JobQueue` except `JobQueue_live`, of
`Scheduler` and of `OperatorChannel`: `Exited`, `Over` and `Ended` are the
intended ends. In `JobQueue_live` and in the four last models the system really
stops: no run left, the review done, the bounds of the operator and of deaths
used up, the instance gone.

*Fairness.* `JobQueue!FairSpec`: the event loop continues a request it began, a
worker thread goes on, a signalled child ends (the code escalates to SIGKILL), an
armed timer fires, `shutdown_jobs` once called goes on. No client request,
shutdown, restart, failing operation or voluntary end of a pipeline is assumed:
`EveryRunEnds` therefore rests on the run timeout, which that run arms; with
`SHIMMER_RUN_TIMEOUT_S=0` a hung pipeline holds the queue, as documented.
`Scheduler!FairSpec`: the coordinator runs and actions return; the scheduler
does not pre-empt. `OperatorChannel!FairSpec`: the pipeline runs and its
deadline comes; nobody has to answer. `CloudRun!FairSpec`: the loops of the
watchdog and of the emergency watch retry for ever, so a provider that answers
now and then is reached, by those whose credential it accepts: `Reaches` is a guard
of their actions, so fairness asks nothing of the others. The provider carries a
termination out; time passes; a controller that lives goes on. No step of the
workload is assumed. `PaidInstanceEnds` is of deployments with good arguments: the
code leaves the instance running for the three other kinds (section 6). It excepts
a deployment whose watchdog, or whose controller without one, has died: nothing else
could end its instance.

## 4. Proofs

`JobQueue_proofs`, for any set of runs and any bounds:

- `TypeCorrect`: `TypeOK` is an invariant.
- `RecordThreadProcessHolds`: the inductive invariant `RecordThreadProcess`.
  "At most one pipeline runs" is not inductive: `StartNextJob` looks at
  `JOBS`, while a process belongs to a thread. The strengthening says that a run
  is `running` exactly while a worker is before its outcome block
  (`WorkerOwnsRun`), that one run is (`SingleRunning`), that a process which has
  a worker is held by it (`ProcessHeld`), and what is true of runs not yet
  submitted or still queued.
  The proof splits the steps: *quiet* ones (`QuietStep`, `QuietSteps`) change no
  record and move no worker into or out of the owning places; the others submit,
  start, settle or restart and have a lemma each.
- `OnePipelineHolds`, `EndedMeansGoneHolds`, `SettledNeverStartsHolds` follow from it.
- `EndedIsFinalHolds` and `Refinement` (`JobQueue` implements `SerialQueue`)
  assume that status writes succeed (`~ DiskMayFail`): if one is lost, a restart
  sees an older record.

`JobQueueEnds_proofs`, on top of `RecordThreadProcess` and of `WorkerOfJob` (a
worker is that of a submitted run):

- `ProcessReachableHolds`: inductive with `RecordThreadProcess` as it stands.
- `OutcomeEarnedHolds`: from `FoundEarned` (what a worker has found by the outcome
  block is what happened to its process) and `CancelsAreAsked` (a set event was
  asked for). The proof is why `replies` is a set for each run: with only the
  last reply kept, a cancel "forgot" the earlier one it had answered, and the
  property was false for more than one cancel; as it stands it says that *this*
  run was asked to cancel.
- `StagingFollowsJobHolds` assumes `~ DiskMayFail`: a restart finds the runs to
  unstage by their status files.
- `NativeFilesStayHolds` assumes `~ Resubmit`: from `NativePlaced` and
  `SidecarOfBundle`, since the auto-clear of a bundle removes whatever the
  sidecar names. With a second submission of the same files it is false
  (`JobQueue_v_resubmit.cfg`).
- Three safety cores of the liveness properties, stated in the proof module:
  `QueueAwakeHolds` (no wake-up is lost: while a run waits, a request in hand or
  a worker will start the queue; the first queued run exists by the least number
  principle, `LeastNatural`), `CancelStandsHolds` (a set cancel event is dropped
  only together with a "cancelled" record, or by a restart; from `EventOwned`:
  the event is there exactly from the first line of a worker to its outcome
  block) and `ShutdownCompleteHolds` (when `shutdown_jobs` has returned True
  nothing waits, runs or has a worker; from `ShutSwept`).

`Scheduler_proofs`, for any number of tasks and lanes, any batches and any number
of interrupts: `IInv` follows a task. It is pending, running or settled and
nowhere twice (`Placed`); what is published is a prefix of the logical order
(`Published`); what the coordinator has in hand is what it believes (`InHand`);
each task that runs or was just handed to a lane (`Holders`) has a lane of its own,
and only they hold one until an exception leaves the mark of another (`LanesHeld`);
no action works on for a task let go, but after a second interrupt
(`AwaitedOrInterrupted`).

- `SchedulerTypeCorrect`, `ConsumerSeesEvidenceHolds`, `EvidenceOrderedHolds` and
  `PublishedIsFinalHolds` hold whatever the interrupts.
- `LaneExclusiveHolds` and `CallCompleteHolds` are of the states with at most one
  interrupt: the second one breaks both (`Scheduler_v_lane.cfg`). What a call that
  raises may leave at work is the one task that `Assign` has submitted and `Register`
  not yet entered: `LanesHeld` says that it is the one in hand and still pending.
  A call never has more tasks waiting than its queue may hold.
- `FirstIsServedHolds`, the safety core of `CallEnds`: when nothing runs, the first
  pending task is settled, taken in hand or started, never deferred. It adds
  `Scheduled` to `IInv`: at that moment everything before the task has its
  outcome, so neither a parent nor the order nor a lane holds it back.

`OperatorChannel_proofs`, for any number of questions, answers and lost lines:

- `ChannelTypeCorrect`: `TypeOK`.
- `EachAnswerCountsOnceHolds`: from `HandFresh` and `FileFresh`: an answer in the
  server's hand, and one in the file that the question in hand may find, is newer
  than all answers read; an answer read before could only come from a file that
  `BeginAsk` has removed.
- `DecisionStandsHolds` rests on the other half of `HandFresh`: while an answer is between
  check and write, no decision file can appear.
- `AmendmentsEarnedHolds`: no approval without an answer that says so; from
  `Enacted`, which also says what holds between a verdict and its amendment.
- `LedgerFaithfulHolds`: from `VerdictsInOrder`, since a line of the ledger has a
  verdict, and the question in hand has none yet.

`ReviewRun_proofs`, for any documents, memos, runs and edits. The steps are
grouped (`GateStep`, `WorkStep`, `EndStep`, `OutsideStep`) and each invariant has
one lemma per group:

- `ReviewTypeCorrect`: `TypeOK`.
- `UndeclaredRunSpendsNothingHolds`: from `Declared`, which ties what is on the
  ledger to the place in `main`: past the sensitivity gate the layer is active or
  overridden on record, past the redaction gate it is on or waived on record,
  past the rule gate a rule is in force or not needed. `run.paid` alone says
  nothing of how the run came there.
- `OperatorFilesStayHolds`: from `MemoIsOurs`: from the exclusive create on, the
  memo a system manifest of this run names is the system's. It is needed because
  the clean-up removes what the manifest names, without looking whose it is.
- `ReviewedAreSelectedHolds`, `CompletedMeansScreenedHolds`: from `Screened`, its
  conjunct `Selected` (the folder is empty between clearing and copying) and
  `Outcomes` (what phase 9 recorded of a document says what was done to it).
- `DraftCleansUpHolds`: from `Cleaning`: copy first, memo second, manifest last.

`PairedReview_proofs`, for any document, rules and agents: `Inv` says that plans
cite rules in force (`PlansFit`), that a question is asked under a rule that may
judge it (`QuestionFits`), that a plan taken has left its trace (`PlanTaken`), and
that a candidate for a moved disagreement is never suspended on the unit. From it
`SuspendedStaysSilentHolds`, `NoDisagreementLostHolds` and `AmendedOrSaidHolds`.
`EachPlanAccountedHolds` is stated over the six places a plan can be in (`Fates`):
a step that moves a plan from one of them to another keeps them disjoint and
complete (`MoveKeeps`). `PairedTypeCorrect`: `TypeOK`.

`CloudRun_proofs`, for any number of deployments, instances, deaths and reruns:
`IInv` is `TypeOK` with `JobTellsRuns` (the remote process tells whether the
directory is claimed and how many workloads it has seen) and `EarnedByDeploy`
(what is collected, verified and reported stays true). From it `OneAttemptHolds`,
`ValidMeansOverHolds` and `CloudTypeCorrect`. `SomeoneEndsItHolds`, the safety core
of `PaidInstanceEnds`: an instance is gone, or its controller is at work, or the
watchdog is there to end it; otherwise that watchdog died, or the controller did
before there was one, or `main` returned because of the ID, the time or the rate it
was given. It needs `WatchFollows` (where the controller and its
watchdog can be relative to each other).

`Governance_proofs`, for any numbers of pipelines, operators, snapshots and deaths:

- `GovernanceTypeCorrect`: `TypeOK` and `CommandsNamed`, also with `Overlap`.
- `GovernanceKeptHolds`, assuming `~Overlap`: from `Exclusive` (at most one actor
  within an operation), `TmpFilled` and `LawKept`: what is owed is on file and in
  whatever a permitted write is about to put there.
- `StrippedIsBackedUpHolds`, assuming `~Overlap`: from `BackupKept`: what was stripped
  is in the backup of a second gone by or was in one that a later reset replaced, and
  the backup in progress holds the live store before `Strip` empties it.

The assumptions on constants (`QueueAssumption`, `ChannelAssumption`,
`FilesAssumption`, `BoundAssumption`, `NoAgentAssumption`, `WorldsAssumption`,
`GovernanceAssumption`, `BoundsAssumption`, `SchedulerAssumption`) are evaluated by TLC
in every run of their modules. `~Overlap`, `~DiskMayFail`, `~Resubmit` and "at most one
interrupt" are hypotheses of their theorems; each names a case in which the
property fails: TLC finds a counterexample once it is dropped.

*Only model-checked:* liveness (`EveryRunEnds`, `CancelTakesEffect`,
`ShutdownReturns`, `CallEnds`, `EveryQuestionEnds`, `PaidInstanceEnds`), which is out
of the prover's reach: WF and ENABLED. Every safety invariant and action property
of a passing run is proved.

## 5. Not modelled

- *Queue.* The draft and system-draft memos of auto-clear, multi-round requests,
  read-only routes.
  `mkdtemp` and the first status write are part of `Submit`: a directory left by a
  crash before the run is accepted is not seen.
- *Review run.* `--max-docs`; listing the folder and resolving the roles are one step.
- *Paired review.* `Promote` is one step for the several reasons to refuse an
  amendment; a refusal whose post fails is in the code only counted in the log.
- *Scheduler.* A second batch on one scheduler, `close()`, telemetry. Topology:
  residents and eviction; a lane owns its residents on its own thread, so what
  is left of it to the other parts is an unhealthy lane, which `Scheduler` has.
- *Waves and message bus.* The frozen snapshot, the posts in the `finally` block
  and the one retry of a partition; `PairedReview` has the order of a wave (all
  asked, then consumed) and posts that fail.
- *Governance.* Precedents and task-force laws (no caller in a run), prompts and
  registry copies.
- *Cloud.* The observer, the building of the bundle, the dependency checks.
- *Stores and logs.* Ontology stores, cost log with its derived snapshot,
  backups: appended by one process, in sequence.
- *Text.* Conventions, corpus, reference tables, relations, deliverables, dating:
  sequential functions of text that unit tests reach; `ReviewRun` and
  `PairedReview` take their results as inputs.
- *Everything else.* The console, the intake dialogue, the desktop shell, and the
  repository's own checks. These and the text are most of its lines:
  `verify_session1.py`, a test harness, is 25,000 of them. The definitions here
  stand for some 4,400 lines, those with control that can go wrong; a model of
  the rest would repeat computations, not show an interleaving or a failure.

## 6. What the code does otherwise than it says

The first is a run of the project and a finding in `PROJECT.json`. The
configurations named after it are beside the runs, and TLC finds a
counterexample with each.

- `JobQueue_v_clear`: the terminal record is written at `server.py:896`, the
  auto-clear follows at 908. A submit, or the cancel of a queued run, in between
  starts the next run; its bundle and its sidecar are then removed by the
  auto-clear "for the run that just finished" (631).
- `JobQueue_v_refused.cfg`: a run still placing its files after the two seconds of
  polling is refused a cancel as "finished" (2089-2101) and goes on.
- `JobQueue_v_orphan.cfg`: after a crash of the server its pipeline runs on beside
  the next one; `docs/THREAT_MODEL.md:82` says jobs run one at a time.
- `Scheduler_v_lane.cfg`: a second interrupt during the drain frees a lane whose
  action still runs (`execution_scheduler.py:180-190`).
- `Scheduler_v_drain.cfg`: a first interrupt between the submission of an action (279)
  and its entry in `_inflight` (280) leaves it at work behind the raise, its task
  marked interrupted; the handler says "Drain, mark the admission terminal, then
  raise" (181).
- `OperatorChannel_v_stale.cfg`: an answer checked against the earlier question is
  written after the decision file was unlinked and decides the next question
  (`pipeline.py:3889-3898`). The same window lets an answered question be
  answered twice, which `server.py:2167` calls refused.
- `JobQueue_v_timeout.cfg`: a run that failed by an exception of its worker is
  reported as `timed_out` (`server.py:1504`).
- `JobQueue_v_leak.cfg`: a crash between the terminal record and the auto-clear
  leaves cases that the restart does not clear (434).
- `JobQueue_v_cancel.cfg`: a cancel that reaches a run just ending is answered
  with 202 and the run ends as completed (2103-2126).
- `JobQueue_v_resubmit.cfg`: a run that submits the same plan and files while the
  first one is still clearing shares files that are then removed under it.
- `OperatorChannel_v_awaiting.cfg`: after a timeout the question is still listed
  and an answer to it recorded (`server.py:1456`).
- `OperatorChannel_v_gate.cfg`: a deprecated model stops a run of the server
  without a question (`model_registry.py:242`; `server.py:749` says it parks).
- `ReviewRun_v_leak.cfg`: a draft run that stops, fails or is killed before its
  clean-up leaves memo and manifest, and the next review reviews the memo; the
  comment at `pipeline.py:5018-5022` says it never leaks into the next run.
- `CloudRun_v_status.cfg`: `watchdog_continues_until_verified` is written as soon
  as the termination is not verified, also when the watchdog is dead
  (`deploy_cloud_run.py:200`; comment at 191).
- `CloudRun_v_idle.cfg`: `main` says of its exceptions "Even a local prerequisite
  discovered AFTER provisioning triggers termination. Never leave a paid instance
  idle" (`deploy_cloud_run.py:225-226`). It returns with the instance running when the
  ID is not of the provider's form (224) or the watch refuses the time or the rate
  (232-237, `cloud_run_common.py:162-165`); without a credential that works (112) the
  emergency watch retries for ever in vain.
- `Governance_v_second.cfg`: two resets that start in the same second, one after the
  other, give their backups one name (`snapshot_manager.py:237`), and the second
  removes the first (137-138) after what that held was stripped; "never
  strip-without-backup" (227).
- `Governance_v_backup.cfg`: a reset also strips `ontology/stores`
  (`snapshot_manager.py:264-274`), which `save_snapshot` does not copy; its
  docstring says "never strip-without-backup" (225-229). The passing run has
  installations whose runs write the backed-up stores only.
- `Governance_v_overlap.cfg`: nothing locks the file between the guard's look and
  the replace: of two pipelines saving at once one loses its amendment.

Read in the code while modelling, and in the models as the code has it:

- Draft phase 0 replaces an operator's manifest; `role_resolution.py:5-7` says it
  is never overwritten. The clean-up removes a manifest declared after its read.
- A manifest written from the mandate persists and is authoritative in later runs.
- A document whose master cannot be read, and a HELD deliverable, leave the run
  completed; phase 9 is skipped when the layer is inactive, though
  `pipeline.py:4861` says it always runs.
- Exit code 5 means both a failed draft and a blocked redaction; an operator who
  declines the documents ends the run with 0, and the record says stopped.
- Gates said to stand "before any paid agent" (`pipeline.py:4647`) come after the
  drafter's paid call in a draft run.
- With waves, the accounting "planned = made + not judged + absence computed"
  (`pipeline.py:2623`) lacks the rendered plans. Two disagreements on one unit and
  rule give one amendment. Shared arithmetic of a unit whose rules are all
  suspended is dropped without a record.
- A snapshot that is ahead of the live constitution by two amendments cannot be
  restored, with or without approval. A live file that cannot be read is compared
  with nothing, and a restore that dies in its copy leaves such a file. A snapshot
  cut short can be loaded.
