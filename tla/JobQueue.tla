------------------------------ MODULE JobQueue ------------------------------
(***************************************************************************)
(* The review queue of scripts/server.py: the HTTP event loop (submit and  *)
(* cancel), one worker thread per started run (_run_job), the run-timeout  *)
(* timer, the pipeline child process, shutdown_jobs and a restart of the   *)
(* server process (_rebuild_jobs_from_disk).                               *)
(*                                                                         *)
(* Every section the code runs under JOBS_LOCK is one action; between two  *)
(* sections any other thread may act.  Every route is an `async def` that  *)
(* does not await after its checks, so the event loop is one process with  *)
(* one request in hand (cancel_run blocks it while it polls and waits).    *)
(***************************************************************************)
EXTENDS Integers, Sequences

CONSTANTS
  Runs,          \* run identifiers, each submitted at most once
  NoRun,         \* not a run: an empty slot
  Intakes,       \* the intakes submitted: a subset of {"native", "bundle"}
  Resubmit,      \* the native runs submit one and the same plan and files
  ExitCodes,     \* codes the pipeline may exit with on its own
  TimerArmed,    \* SHIMMER_RUN_TIMEOUT_S > 0
  DiskMayFail,   \* a status.json write may be lost (best effort)
  MaxCancels,    \* bound on the cancel requests that find a run to cancel
  MaxFaults,     \* bound on the file and process operations that fail
  MayShutDown,   \* shutdown_jobs may be called
  MaxRestarts    \* bound on restarts of the server process

ASSUME QueueAssumption ==
  /\ NoRun \notin Runs
  /\ Intakes \subseteq {"native", "bundle"}
  /\ Resubmit \in BOOLEAN
  /\ Resubmit => Intakes = {"native"}  \* no other documents to compare
  /\ ExitCodes \subseteq 0..255
  /\ TimerArmed \in BOOLEAN
  /\ DiskMayFail \in BOOLEAN
  /\ MaxCancels \in Nat
  /\ MaxFaults \in Nat
  /\ MayShutDown \in BOOLEAN
  /\ MaxRestarts \in Nat

VARIABLES
  jobs,      \* JOBS, in submission order
  job,       \* the record of each run: status, exit_code, kind of error
  disk,      \* <run>/status.json: the record last written
  staged,    \* runs with a staging directory (and an entry in _STAGING)
  intake,    \* native_intake of each submitted run
  stopping,  \* _STOPPING
  procs,     \* keys of _PROCS
  cancelEv,  \* the event in _CANCELLED: "none" (no entry), "clear" or "set"
  worker,    \* where each worker thread is in _run_job
  found,     \* its locals exit_code and error
  timer,     \* its run-timeout timer: "off", "armed", "fired" (timed_out set)
  faults,    \* number of operations that failed
  child,     \* the pipeline process of each run
  rc,        \* the code with which it ended
  cases,     \* runs that created documents now in input/context/
  sidecar,   \* the run whose _corpus_ingest.json is there
  manifest,  \* the run that wrote the review manifest now there
  http,      \* the request in hand
  replies,   \* what the cancel requests of each run were answered
  cancels,   \* number of cancel requests
  shut,      \* where shutdown_jobs is
  shutProcs, \* its snapshot of _PROCS
  restarts

queueVars == <<jobs, job, disk, staged, intake>>
procVars  == <<procs, cancelEv, timer, child, rc>>
ctxVars   == <<cases, sidecar, manifest>>
httpVars  == <<http, replies, cancels>>
shutVars  == <<stopping, shut, shutProcs>>
vars == <<queueVars, procVars, worker, found, faults, ctxVars, httpVars, shutVars, restarts>>

Killed == -15   \* the return code of a terminated child (POSIX)
NoCode == -1    \* exit_code None

Governance == {"blocked", "stopped_model_approval", "stopped_redaction_gate",
               "refused_sensitivity_layer_inactive"}
Terminal   == Governance \cup {"completed", "snapshot_conflict", "operator_abort",
                               "failed", "cancelled", "interrupted"}
Statuses   == Terminal \cup {"absent", "queued", "running"}
Errors     == {"none", "cancel_request", "run_timeout", "exit", "exception",
               "before_start", "shutdown", "restart"}
Codes      == ExitCodes \cup {Killed, NoCode}

\* A mutant: the raw code decides.
StatusForExitCodeRaw(c) == IF c = 0 THEN "completed" ELSE "exited"

StatusForExitCode(c) ==
  CASE c = 0 -> "completed"
    [] c = 2 -> "snapshot_conflict"
    [] c = 3 -> "stopped_model_approval"
    [] c = 4 -> "stopped_redaction_gate"
    [] c = 5 -> "blocked"
    [] c = 6 -> "refused_sensitivity_layer_inactive"
    [] c = 7 -> "operator_abort"
    [] OTHER -> "failed"

\* The places of a worker at which its run is not settled yet, and those at
\* which the pipeline process may be running.
Owning  == {"starting", "staging", "spawning", "reading", "killing",
            "classify", "outcome"}
Holding == {"reading", "killing"}
Places  == Owning \cup {"none", "clearing", "clearing_cases", "unstaging",
                        "next", "done"}
Live    == {"alive", "signalled"}

Records == [status : Statuses, exit_code : Codes, error : Errors]
Record(s, c, e) == [status |-> s, exit_code |-> c, error |-> e]
Idle == [pc |-> "idle", run |-> NoRun]

QueueType ==
  /\ jobs \in Seq(Runs)
  /\ job \in [Runs -> Records]
  /\ disk \in [Runs -> Records]
  /\ staged \subseteq Runs
  /\ intake \in [Runs -> {"native", "bundle"}]
ProcType ==
  /\ procs \subseteq Runs
  /\ cancelEv \in [Runs -> {"none", "clear", "set"}]
  /\ timer \in [Runs -> {"off", "armed", "fired"}]
  /\ child \in [Runs -> {"none", "alive", "signalled", "dead"}]
  /\ rc \in [Runs -> Codes]
WorkerType ==
  /\ worker \in [Runs -> Places]
  /\ found \in [Runs -> [exit_code : Codes, error : Errors]]
  /\ faults \in 0..MaxFaults
ContextType ==
  /\ cases \subseteq Runs
  /\ sidecar \in Runs \cup {NoRun}
  /\ manifest \in Runs \cup {NoRun}
HttpType ==
  /\ http \in [pc : {"idle", "kick", "poll", "signal", "terminate", "await"},
               run : Runs \cup {NoRun}]
  /\ replies \in [Runs -> SUBSET {"cancelled", "finished_before", "record"}]
  /\ cancels \in 0..MaxCancels
ShutType ==
  /\ stopping \in BOOLEAN
  /\ shut \in {"up", "flagged", "stopping", "ok", "failed"}
  /\ shutProcs \subseteq Runs
  /\ restarts \in 0..MaxRestarts

TypeOK ==
  QueueType /\ ProcType /\ WorkerType /\ ContextType /\ HttpType /\ ShutType

Init ==
  /\ jobs = <<>>
  /\ job = [r \in Runs |-> Record("absent", NoCode, "none")]
  /\ disk = job
  /\ staged = {}
  /\ intake = [r \in Runs |-> "native"]
  /\ stopping = FALSE
  /\ procs = {}
  /\ cancelEv = [r \in Runs |-> "none"]
  /\ worker = [r \in Runs |-> "none"]
  /\ found = [r \in Runs |-> [exit_code |-> NoCode, error |-> "none"]]
  /\ timer = [r \in Runs |-> "off"]
  /\ child = [r \in Runs |-> "none"]
  /\ rc = [r \in Runs |-> NoCode]
  /\ cases = {} /\ sidecar = NoRun /\ manifest = NoRun
  /\ http = Idle
  /\ replies = [r \in Runs |-> {}]
  /\ cancels = 0 /\ faults = 0
  /\ shut = "up" /\ shutProcs = {}
  /\ restarts = 0

-----------------------------------------------------------------------------
(* Shared helpers.                                                         *)

\* _write_status for the runs whose record this step changes.
WriteStatus(changed) ==
  \E lost \in (IF DiskMayFail THEN SUBSET changed ELSE {{}}) :
    disk' = [r \in Runs |-> IF r \in changed \ lost THEN job'[r] ELSE disk[r]]

Running(r) == job[r].status = "running"
Queued(r)  == job[r].status = "queued"

\* A mutant: the last queued job of JOBS.
NextQueuedNewest(r) ==
  \E i \in DOMAIN jobs : jobs[i] = r /\ Queued(r) /\ \A k \in DOMAIN jobs : k > i => ~ Queued(jobs[k])

\* The first queued job of JOBS.
NextQueued(r) ==
  \E i \in DOMAIN jobs :
    /\ jobs[i] = r
    /\ Queued(r)
    /\ \A k \in 1..(i - 1) : ~ Queued(jobs[k])

\* _start_next_job with w the worker map in force: flip the next queued job to
\* running and start its thread, unless the server stops or a job runs.
StartNextJob(w) ==
  \/ /\ stopping \/ (\E r \in Runs : Running(r)) \/ (\A r \in Runs : ~ NextQueued(r))
     /\ worker' = w
     /\ UNCHANGED <<job, disk>>
  \/ /\ ~ stopping
     /\ \A r \in Runs : ~ Running(r)
     /\ \E r \in Runs :
          /\ NextQueued(r)
          /\ job' = [job EXCEPT ![r].status = "running"]
          /\ WriteStatus({r})
          /\ worker' = [w EXCEPT ![r] = "starting"]

\* proc.terminate(): nothing happens to a process that has ended.
Terminate(r) ==
  child' = [child EXCEPT ![r] = IF @ = "alive" THEN "signalled" ELSE @]

\* The worker moves on; an exception goes straight to the outcome block.
Goto(r, place) == worker' = [worker EXCEPT ![r] = place]
Finds(r, c, e) == found' = [found EXCEPT ![r] = [exit_code |-> c, error |-> e]]
Raises(r) == Finds(r, NoCode, "exception") /\ Goto(r, "outcome")

-----------------------------------------------------------------------------
(* The HTTP event loop.                                                    *)

\* The plan and files of two runs are the same.
SamePlan(q, r) == q = r \/ (Resubmit /\ q # NoRun)

\* _standalone_plan: the review manifest in place is of another plan.
InConflict(r) == manifest # NoRun /\ ~ SamePlan(manifest, r)

\* POST /submit: the last check of _STOPPING and the append, under the lock.
Submit(r, k) ==
  /\ http.pc = "idle"
  /\ \A i \in DOMAIN jobs : jobs[i] # r
  /\ ~ stopping
  /\ k = "native" => ~ InConflict(r)
  /\ jobs' = Append(jobs, r)
  /\ job' = [job EXCEPT ![r] = Record("queued", NoCode, "none")]
  /\ WriteStatus({r})
  /\ staged' = staged \cup {r}
  /\ intake' = [intake EXCEPT ![r] = k]
  /\ http' = [pc |-> "kick", run |-> NoRun]
  /\ UNCHANGED <<procVars, worker, found, ctxVars, replies, cancels, shutVars, faults, restarts>>

\* The _start_next_job with which submit and a cancel of a queued job end.
Kick ==
  /\ http.pc = "kick"
  /\ StartNextJob(worker)
  /\ http' = Idle
  /\ UNCHANGED <<jobs, staged, intake, procVars, found, ctxVars, replies, cancels, shutVars, faults, restarts>>

\* Mutants: the uploads stay; a run without a process counts as queued.
CancelQueuedKeepsUploads(r) ==
  /\ http.pc = "idle" /\ cancels < MaxCancels /\ Queued(r)
  /\ cancels' = cancels + 1
  /\ job' = [job EXCEPT ![r] = Record("cancelled", NoCode, "before_start")]
  /\ WriteStatus({r})
  /\ replies' = [replies EXCEPT ![r] = @ \cup {"cancelled"}]
  /\ http' = [pc |-> "kick", run |-> NoRun]
  /\ UNCHANGED <<jobs, staged, intake, procVars, worker, found, ctxVars, shutVars, faults, restarts>>

CancelQueuedUnstarted(r) ==
  /\ http.pc = "idle" /\ cancels < MaxCancels
  /\ Queued(r) \/ (Running(r) /\ r \notin procs)
  /\ cancels' = cancels + 1
  /\ job' = [job EXCEPT ![r] = Record("cancelled", NoCode, "before_start")]
  /\ WriteStatus({r})
  /\ staged' = staged \ {r}
  /\ replies' = [replies EXCEPT ![r] = @ \cup {"cancelled"}]
  /\ http' = [pc |-> "kick", run |-> NoRun]
  /\ UNCHANGED <<jobs, intake, procVars, worker, found, ctxVars, shutVars, faults, restarts>>

CancelQueued(r) ==
  /\ http.pc = "idle"
  /\ cancels < MaxCancels
  /\ cancels' = cancels + 1
  /\ Queued(r)
  /\ job' = [job EXCEPT ![r] = Record("cancelled", NoCode, "before_start")]
  /\ WriteStatus({r})
  /\ staged' = staged \ {r}
  /\ replies' = [replies EXCEPT ![r] = @ \cup {"cancelled"}]
  /\ http' = [pc |-> "kick", run |-> NoRun]
  /\ UNCHANGED <<jobs, intake, procVars, worker, found, ctxVars, shutVars, faults, restarts>>

CancelRunning(r) ==
  /\ http.pc = "idle"
  /\ cancels < MaxCancels
  /\ cancels' = cancels + 1
  /\ Running(r)
  /\ http' = [pc |-> "poll", run |-> r]
  /\ UNCHANGED <<queueVars, procVars, worker, found, ctxVars, replies, shutVars, faults, restarts>>

HandlesFound(r) == r \in procs /\ cancelEv[r] # "none"

PollFinds ==
  /\ http.pc = "poll"
  /\ HandlesFound(http.run)
  /\ http' = [http EXCEPT !.pc = "signal"]
  /\ UNCHANGED <<queueVars, procVars, worker, found, ctxVars, replies, cancels, shutVars, faults, restarts>>

\* Two seconds passed without both handles: 409 "finished before the cancel
\* request reached it".
PollGivesUp ==
  /\ http.pc = "poll"
  /\ ~ HandlesFound(http.run)
  /\ replies' = [replies EXCEPT ![http.run] = @ \cup {"finished_before"}]
  /\ http' = Idle
  /\ UNCHANGED <<queueVars, procVars, worker, found, ctxVars, cancels, shutVars, faults, restarts>>

\* cancel_event.set(), outside the lock; the worker may have dropped the event.
CancelSignals ==
  /\ http.pc = "signal"
  /\ cancelEv' = [cancelEv EXCEPT ![http.run] = IF @ = "none" THEN "none" ELSE "set"]
  /\ http' = [http EXCEPT !.pc = "terminate"]
  /\ UNCHANGED <<queueVars, procs, timer, child, rc, worker, found, ctxVars, replies, cancels,
                 shutVars, faults, restarts>>

CancelTerminates ==
  /\ http.pc = "terminate"
  /\ Terminate(http.run)
  /\ http' = [http EXCEPT !.pc = "await"]
  /\ UNCHANGED <<queueVars, procs, cancelEv, timer, rc, worker, found, ctxVars, replies, cancels,
                 shutVars, faults, restarts>>

\* The run settled, or the bounded waits for the child and for that ran out.
CancelAnswers ==
  /\ http.pc = "await"
  /\ replies' = [replies EXCEPT ![http.run] = @ \cup {"record"}]
  /\ http' = Idle
  /\ UNCHANGED <<queueVars, procVars, worker, found, ctxVars, cancels, shutVars, faults, restarts>>

-----------------------------------------------------------------------------
(* One worker thread: _run_job.                                            *)

Register(r) ==
  /\ worker[r] = "starting"
  /\ cancelEv' = [cancelEv EXCEPT ![r] = "clear"]
  /\ Goto(r, "staging")
  /\ UNCHANGED <<queueVars, procs, timer, child, rc, found, ctxVars, httpVars, shutVars, faults, restarts>>

\* _STOPPING seen before the files are placed, or before the child is started.
WorkerSeesStop(r) ==
  /\ worker[r] \in {"staging", "spawning"}
  /\ stopping
  /\ cancelEv' = [cancelEv EXCEPT ![r] = "set"]
  /\ Raises(r)
  /\ UNCHANGED <<queueVars, procs, timer, child, rc, ctxVars, httpVars, shutVars, faults, restarts>>

\* A native plan is checked again; it creates the files and the manifest that
\* are not there, with the same content, already.
PlaceFiles(r) ==
  /\ worker[r] = "staging"
  /\ ~ stopping
  /\ r \in staged
  /\ \/ /\ intake[r] = "native"
        /\ ~ InConflict(r)
        /\ manifest' = IF manifest = NoRun THEN r ELSE manifest
        /\ cases' = IF \E q \in cases : SamePlan(q, r) THEN cases ELSE cases \cup {r}
        /\ UNCHANGED sidecar
     \/ /\ intake[r] = "bundle"
        /\ sidecar' = r
        /\ cases' = cases \cup {r}
        /\ UNCHANGED manifest
  /\ Goto(r, "spawning")
  /\ UNCHANGED <<queueVars, procVars, found, httpVars, shutVars, faults, restarts>>

\* _place_standalone raises the conflict (the uploads are there: see
\* StagingFollowsJob).
PlanRefused(r) ==
  /\ worker[r] = "staging"
  /\ ~ stopping
  /\ intake[r] = "native"
  /\ InConflict(r)
  /\ Raises(r)
  /\ UNCHANGED <<queueVars, procVars, ctxVars, httpVars, shutVars, faults, restarts>>

\* The files cannot be read or copied; or Popen fails.
SetupFails(r) ==
  /\ faults < MaxFaults
  /\ faults' = faults + 1
  /\ worker[r] \in {"staging", "spawning"}
  /\ Raises(r)
  /\ UNCHANGED <<queueVars, procVars, ctxVars, httpVars, shutVars, restarts>>

Spawn(r) ==
  /\ worker[r] = "spawning"
  /\ ~ stopping
  /\ child' = [child EXCEPT ![r] = "alive"]
  /\ procs' = procs \cup {r}
  /\ timer' = [timer EXCEPT ![r] = IF TimerArmed THEN "armed" ELSE "off"]
  /\ Goto(r, "reading")
  /\ UNCHANGED <<queueVars, cancelEv, rc, found, ctxVars, httpVars, shutVars, faults, restarts>>

StopTimer(r) == timer' = [timer EXCEPT ![r] = IF @ = "armed" THEN "off" ELSE @]

\* A mutant: the end of the output is taken for the end of the child.
StreamEndsUnwaited(r) ==
  /\ worker[r] = "reading"
  /\ StopTimer(r)
  /\ procs' = procs \ {r}
  /\ Goto(r, "classify")
  /\ UNCHANGED <<queueVars, cancelEv, child, rc, found, ctxVars, httpVars, shutVars, faults, restarts>>

\* The child closed its output and was waited for; the finally block.
StreamEnds(r) ==
  /\ worker[r] = "reading"
  /\ child[r] = "dead"
  /\ StopTimer(r)
  /\ procs' = procs \ {r}
  /\ Goto(r, "classify")
  /\ UNCHANGED <<queueVars, cancelEv, child, rc, found, ctxVars, httpVars, shutVars, faults, restarts>>

\* The log cannot be made (before the try block whose finally drops the
\* handle) or written (inside it): _stop_process takes the child down.
StreamFails(r) ==
  /\ faults < MaxFaults
  /\ faults' = faults + 1
  /\ worker[r] = "reading"
  /\ StopTimer(r)
  /\ procs' \in {procs, procs \ {r}}
  /\ Terminate(r)
  /\ Goto(r, "killing")
  /\ UNCHANGED <<queueVars, cancelEv, rc, found, ctxVars, httpVars, shutVars, restarts>>

\* Mutants: the killed child is not waited for; its handle is kept.
ReapKilledAtOnce(r) ==
  /\ worker[r] = "killing"
  /\ procs' = procs \ {r}
  /\ Raises(r)
  /\ UNCHANGED <<queueVars, cancelEv, timer, child, rc, ctxVars, httpVars, shutVars, faults, restarts>>

ReapKilledKeepsHandle(r) ==
  /\ worker[r] = "killing"
  /\ child[r] = "dead"
  /\ Raises(r)
  /\ UNCHANGED <<queueVars, procVars, ctxVars, httpVars, shutVars, faults, restarts>>

ReapKilled(r) ==
  /\ worker[r] = "killing"
  /\ child[r] = "dead"
  /\ procs' = procs \ {r}
  /\ Raises(r)
  /\ UNCHANGED <<queueVars, cancelEv, timer, child, rc, ctxVars, httpVars, shutVars, faults, restarts>>

Classify(r) ==
  /\ worker[r] = "classify"
  /\ \/ /\ cancelEv[r] = "set"
        /\ Finds(r, rc[r], "cancel_request")
     \/ /\ cancelEv[r] # "set"
        /\ timer[r] = "fired"
        /\ Finds(r, NoCode, "run_timeout")
     \/ /\ cancelEv[r] # "set"
        /\ timer[r] # "fired"
        /\ Finds(r, rc[r], IF rc[r] = 0 THEN "none" ELSE "exit")
  /\ Goto(r, "outcome")
  /\ UNCHANGED <<queueVars, procVars, ctxVars, httpVars, shutVars, faults, restarts>>

\* Mutants: a killed child means a cancelled run; the cancel event is not read.
SettledStatusBySignal(r) ==
  IF cancelEv[r] = "set" \/ rc[r] = Killed THEN "cancelled"
  ELSE IF found[r].exit_code = NoCode THEN "failed"
  ELSE StatusForExitCode(found[r].exit_code)

SettledStatusIgnoresCancel(r) ==
  IF found[r].exit_code = NoCode THEN "failed" ELSE StatusForExitCode(found[r].exit_code)

SettledStatus(r) ==
  IF cancelEv[r] = "set" THEN "cancelled"
  ELSE IF found[r].exit_code = NoCode THEN "failed"
  ELSE StatusForExitCode(found[r].exit_code)

RecordOutcome(r) ==
  /\ worker[r] = "outcome"
  /\ job' = [job EXCEPT ![r] = Record(SettledStatus(r), found[r].exit_code, found[r].error)]
  /\ WriteStatus({r})
  /\ cancelEv' = [cancelEv EXCEPT ![r] = "none"]
  /\ Goto(r, "clearing")
  /\ Finds(r, NoCode, "none")      \* the locals are not read again
  /\ UNCHANGED <<jobs, staged, intake, procs, timer, child, rc, ctxVars, httpVars, shutVars,
                 faults, restarts>>

\* _auto_clear removes what the sidecar in place names, then the sidecar.
AutoClear ==
  /\ cases' = cases \ {sidecar}
  /\ sidecar' = NoRun
  /\ UNCHANGED manifest

\* _clear_standalone removes this run's own files: the manifest first.
ClearContext(r) ==
  /\ worker[r] = "clearing"
  /\ \/ /\ intake[r] = "bundle"
        /\ AutoClear
        /\ Goto(r, "unstaging")
     \/ /\ intake[r] = "native"
        /\ manifest' = IF manifest = r THEN NoRun ELSE manifest
        /\ UNCHANGED <<cases, sidecar>>
        /\ Goto(r, "clearing_cases")
  /\ UNCHANGED <<queueVars, procVars, found, httpVars, shutVars, faults, restarts>>

\* A mutant: the whole of input/context/ is cleared.
ClearCasesAll(r) ==
  /\ worker[r] = "clearing_cases"
  /\ cases' = {}
  /\ Goto(r, "unstaging")
  /\ UNCHANGED <<queueVars, procVars, found, sidecar, manifest, httpVars, shutVars, faults, restarts>>

ClearCases(r) ==
  /\ worker[r] = "clearing_cases"
  /\ cases' = cases \ {r}
  /\ Goto(r, "unstaging")
  /\ UNCHANGED <<queueVars, procVars, found, sidecar, manifest, httpVars, shutVars, faults, restarts>>

Unstage(r) ==
  /\ worker[r] = "unstaging"
  /\ staged' = staged \ {r}
  /\ Goto(r, "next")
  /\ UNCHANGED <<jobs, job, disk, intake, procVars, found, ctxVars, httpVars, shutVars, faults, restarts>>

\* A mutant: the end of a run does not wake the queue.
PickUpNextSleeps(r) ==
  /\ worker[r] = "next"
  /\ Goto(r, "done")
  /\ UNCHANGED <<queueVars, procVars, found, ctxVars, httpVars, shutVars, faults, restarts>>

PickUpNext(r) ==
  /\ worker[r] = "next"
  /\ StartNextJob([worker EXCEPT ![r] = "done"])
  /\ UNCHANGED <<jobs, staged, intake, procVars, found, ctxVars, httpVars, shutVars, faults, restarts>>

-----------------------------------------------------------------------------
(* The timer and the pipeline process.                                     *)

TimerFires(r) ==
  /\ timer[r] = "armed"
  /\ timer' = [timer EXCEPT ![r] = "fired"]
  /\ Terminate(r)
  /\ UNCHANGED <<queueVars, procs, cancelEv, rc, worker, found, ctxVars, httpVars, shutVars,
                 faults, restarts>>

ChildEnds(r, c) ==
  /\ child[r] \in Live
  /\ child' = [child EXCEPT ![r] = "dead"]
  /\ rc' = [rc EXCEPT ![r] = c]
  /\ UNCHANGED <<queueVars, procs, cancelEv, timer, worker, found, ctxVars, httpVars, shutVars,
                 faults, restarts>>

ChildExits(r) == \E c \in ExitCodes : ChildEnds(r, c)
ChildKilled(r) == child[r] = "signalled" /\ ChildEnds(r, Killed)

-----------------------------------------------------------------------------
(* shutdown_jobs, and a restart of the server process.                     *)

ShutdownFlags ==
  /\ MayShutDown
  /\ shut = "up"
  /\ stopping' = TRUE
  /\ shut' = "flagged"
  /\ UNCHANGED <<queueVars, procVars, worker, found, ctxVars, httpVars, shutProcs, faults, restarts>>

ShutdownSweeps ==
  /\ shut = "flagged"
  /\ cancelEv' = [r \in Runs |-> IF cancelEv[r] = "none" THEN "none" ELSE "set"]
  /\ job' = [r \in Runs |-> IF Queued(r) THEN Record("cancelled", NoCode, "shutdown")
                            ELSE job[r]]
  /\ WriteStatus({r \in Runs : Queued(r)})
  /\ staged' = staged \ {r \in Runs : Queued(r)}
  /\ shutProcs' = procs
  /\ shut' = "stopping"
  /\ UNCHANGED <<jobs, intake, procs, timer, child, rc, worker, found, ctxVars, httpVars,
                 stopping, faults, restarts>>

ShutdownTerminates(r) ==
  /\ shut = "stopping"
  /\ r \in shutProcs
  /\ child[r] = "alive"
  /\ Terminate(r)
  /\ UNCHANGED <<queueVars, procs, cancelEv, timer, rc, worker, found, ctxVars, httpVars,
                 shutVars, faults, restarts>>

\* A mutant: only a process that died of the signal is waited for.
ShutdownReapsTerminated(r) ==
  /\ shut = "stopping" /\ r \in shutProcs
  /\ child[r] = "dead" /\ rc[r] = Killed
  /\ shutProcs' = shutProcs \ {r}
  /\ UNCHANGED <<queueVars, procVars, worker, found, ctxVars, httpVars, stopping, shut, faults, restarts>>

ShutdownReaps(r) ==
  /\ shut = "stopping"
  /\ r \in shutProcs
  /\ child[r] = "dead"
  /\ shutProcs' = shutProcs \ {r}
  /\ UNCHANGED <<queueVars, procVars, worker, found, ctxVars, httpVars, stopping, shut, faults, restarts>>

\* Every worker joined, or one outlived the bounded join: False, "never
\* successful shutdown".
ShutdownJoins ==
  /\ shut = "stopping"
  /\ shutProcs = {}
  /\ \/ /\ \A r \in Runs : worker[r] \in {"none", "done"}
        /\ shut' = "ok"
     \/ /\ \E r \in Runs : worker[r] \notin {"none", "done"}
        /\ shut' = "failed"
  /\ UNCHANGED <<queueVars, procVars, worker, found, ctxVars, httpVars, stopping, shutProcs,
                 faults, restarts>>

\* The process dies at any point (its threads with it) and a new one rebuilds
\* JOBS from the status files.  A pipeline process it started lives on.
\* Mutants: every run, only queued ones are interrupted.
InterruptedAll(d) == IF d.status # "absent" THEN Record("interrupted", d.exit_code, "restart") ELSE d
InterruptedQueuedOnly(d) == IF d.status = "queued" THEN Record("interrupted", d.exit_code, "restart") ELSE d

Interrupted(d) ==
  IF d.status \in {"queued", "running"}
  THEN Record("interrupted", d.exit_code, "restart")
  ELSE d

Restart ==
  /\ restarts < MaxRestarts
  /\ restarts' = restarts + 1
  /\ job' = [r \in Runs |-> Interrupted(disk[r])]
  /\ WriteStatus({r \in Runs : disk[r].status \in {"queued", "running"}})
  /\ staged' = {r \in staged : disk[r].status = "absent"}
  /\ IF \E r \in Runs : disk[r].status = "running" THEN AutoClear ELSE UNCHANGED ctxVars
  /\ procs' = {}
  /\ cancelEv' = [r \in Runs |-> "none"]
  /\ timer' = [r \in Runs |-> "off"]
  /\ worker' = [r \in Runs |-> "none"]
  /\ found' = [r \in Runs |-> [exit_code |-> NoCode, error |-> "none"]]
  /\ http' = Idle
  /\ stopping' = FALSE /\ shut' = "up" /\ shutProcs' = {}
  /\ UNCHANGED <<jobs, intake, child, rc, replies, cancels, faults>>

-----------------------------------------------------------------------------
Http == Kick \/ PollFinds \/ PollGivesUp \/ CancelSignals \/ CancelTerminates \/ CancelAnswers

\* The steps a worker takes of itself, and the file or process operations that
\* may fail under it.
Progress(r) ==
  \/ Register(r) \/ WorkerSeesStop(r) \/ PlaceFiles(r) \/ PlanRefused(r) \/ Spawn(r)
  \/ StreamEnds(r) \/ ReapKilled(r) \/ Classify(r) \/ RecordOutcome(r)
  \/ ClearContext(r) \/ ClearCases(r) \/ Unstage(r) \/ PickUpNext(r)

Fault(r) == SetupFails(r) \/ StreamFails(r)

Worker(r) == Progress(r) \/ Fault(r)

Shutdown ==
  \/ ShutdownFlags \/ ShutdownSweeps \/ ShutdownJoins
  \/ \E r \in Runs : ShutdownTerminates(r) \/ ShutdownReaps(r)

\* After shutdown_jobs the process exits: nothing moves until it is started again.
Exited == shut \in {"ok", "failed"} /\ UNCHANGED vars

Next ==
  \/ \E r \in Runs :
       \/ \E k \in Intakes : Submit(r, k)
       \/ CancelQueued(r) \/ CancelRunning(r)
       \/ Worker(r)
       \/ TimerFires(r) \/ ChildExits(r) \/ ChildKilled(r)
  \/ Http
  \/ Shutdown
  \/ Restart
  \/ Exited

Spec == Init /\ [][Next]_vars
-----------------------------------------------------------------------------
(* Fairness.  The threads of the server keep running and a signalled child *)
(* ends (SIGKILL follows SIGTERM after ten seconds); the timer fires once  *)
(* armed.  Nothing obliges a client to send a request, a shutdown or a     *)
(* restart to happen, a file operation to fail, or a pipeline to end by    *)
(* itself.                                                                 *)

Fairness ==
  /\ WF_vars(Http)
  /\ \A r \in Runs :
       /\ WF_vars(Progress(r))
       /\ WF_vars(TimerFires(r))
       /\ WF_vars(ChildKilled(r))

\* Once shutdown_jobs is called, its thread runs to its end.
ShutdownFairness ==
  /\ WF_vars(ShutdownSweeps \/ ShutdownJoins)
  /\ \A r \in Runs : WF_vars(ShutdownTerminates(r) \/ ShutdownReaps(r))

FairSpec == Spec /\ Fairness /\ ShutdownFairness

-----------------------------------------------------------------------------
(* Safety.                                                                 *)

\* A pipeline process of this server process; one that outlived a restart has
\* no worker.
Owned(r) == child[r] \in Live /\ worker[r] # "none"
Settled(r) == job[r].status \in Terminal

\* The queue drains one job at a time: at no moment do two pipeline processes
\* of one server process run (_start_next_job, server.py:448).
OnePipeline == \A r, s \in Runs : Owned(r) /\ Owned(s) => r = s

\* A run is reported as ended only after its process is gone: whatever cancel,
\* timeout, log failure and shutdown do to it in whatever order (_run_job).
EndedMeansGone == \A r \in Runs : Owned(r) => Running(r)

\* A process nobody has signalled yet can be reached through _PROCS, by cancel
\* and by shutdown; no entry outlives the worker that made it (_PROCS, 279).
ProcessReachable ==
  /\ \A r \in Runs : child[r] = "alive" /\ worker[r] # "none" => r \in procs
  /\ \A r \in procs : child[r] # "none" /\ worker[r] \in Holding

\* A cancel request signalled the run, or a shutdown did.
CancelAsked(r) ==
  \/ stopping
  \/ http.run = r /\ http.pc \in {"terminate", "await"}
  \/ "record" \in replies[r]

\* What a finished worker reports is what happened: completed only for a child
\* that exited 0, a governance stop only for its exit code, a run timeout only
\* if the timer fired, cancelled only if a cancel or a shutdown asked for it.
OutcomeEarned ==
  \A r \in Runs : worker[r] \in Places \ (Owning \cup {"none"}) =>
    LET s == job[r].status IN
    /\ s \in Governance \cup {"completed"} =>
         child[r] = "dead" /\ s = StatusForExitCode(rc[r])
    /\ job[r].error = "run_timeout" => timer[r] = "fired" /\ child[r] = "dead"
    /\ s = "cancelled" => CancelAsked(r)

\* The uploads of a run are on disk exactly as long as it may need them: from
\* its submission to the end of its worker, and never after a cancel, a
\* shutdown or a restart (_STAGING).
StagingFollowsJob ==
  \A r \in Runs :
    r \in staged <=> Queued(r) \/ worker[r] \in Places \ {"none", "next", "done"}

\* The documents and the manifest of a native review stay while it runs,
\* although the worker of an earlier run may still be clearing its own
\* (_clear_standalone removes what "this submission created").  A second
\* submission of the same files breaks it: see the findings of the README.
NativeFilesStay ==
  \A r \in Runs : Owned(r) /\ intake[r] = "native" =>
    SamePlan(manifest, r) /\ \E q \in cases : SamePlan(q, r)

\* No process is started for a run that has ended without one: cancelled in the
\* queue, failed to place, swept by shutdown, interrupted by a restart.
SettledNeverStarts ==
  [][\A r \in Runs : Settled(r) /\ child[r] = "none" => child'[r] = "none"]_vars

\* The record of an ended run never changes again, over restarts too.
EndedIsFinal == [][\A r \in Runs : Settled(r) => job'[r] = job[r]]_vars

-----------------------------------------------------------------------------
(* The invariant that makes the safety properties inductive; proved in     *)
(* JobQueue_proofs.tla.                                                    *)

InJobs(r) == \E i \in DOMAIN jobs : jobs[i] = r

\* What was never submitted has left no trace, what waits has not begun.
NewIsClean ==
  \A r \in Runs : ~ InJobs(r) =>
    job[r].status = "absent" /\ disk[r].status = "absent" /\ worker[r] = "none" /\ child[r] = "none"
QueuedIsClean == \A r \in Runs : Queued(r) => worker[r] = "none" /\ child[r] = "none"

SingleRunning == \A r, s \in Runs : Running(r) /\ Running(s) => r = s
WorkerOwnsRun == \A r \in Runs : worker[r] \in Owning <=> Running(r)
ProcessHeld   == \A r \in Runs : Owned(r) => worker[r] \in Holding
DiskCurrent   == ~ DiskMayFail => disk = job

\* A run is "running" exactly while one worker is between its first line and
\* its outcome block, there is one such run, and its worker holds the only
\* process: the record in JOBS, the thread and the process of a run stay
\* together (_start_next_job, _run_job).
RecordThreadProcess ==
  NewIsClean /\ QueuedIsClean /\ SingleRunning /\ WorkerOwnsRun /\ ProcessHeld /\ DiskCurrent

-----------------------------------------------------------------------------
(* Liveness, under FairSpec with the run timeout armed.                    *)

\* Every submitted run ends, although pipelines may hang: each end of a run
\* wakes the queue.
EveryRunEnds == \A r \in Runs : Queued(r) ~> Settled(r)

\* A cancel that set the event of its run ends in "cancelled".
CancelTakesEffect ==
  \A r \in Runs : cancelEv[r] = "set" ~> job[r].status = "cancelled"

\* shutdown_jobs returns.
ShutdownReturns == shut = "flagged" ~> shut \in {"ok", "failed"}

-----------------------------------------------------------------------------
(* What comments and documents of the repository say of this queue, and    *)
(* TLC refutes (see the findings of the README).                           *)

\* _outcome_for_status.
ReportedOutcome(r) ==
  LET s == job[r].status IN
  CASE s = "completed" -> "succeeded"
    [] s \in Governance -> "governance_stop"
    [] s = "failed" /\ job[r].exit_code = NoCode -> "timed_out"
    [] OTHER -> "crashed"

\* A stopped run whose outcome is reported as timed_out hit the run timeout
\* (server.py:1505: a missing exit code "is exactly and only that path").
TimedOutIsTimeout ==
  \A r \in Runs : job[r].status = "failed" /\ ReportedOutcome(r) = "timed_out"
                   => job[r].error = "run_timeout"

\* Auto-clear removes the files "for the run that just finished"
\* (server.py:631): a prepared bundle stays in input/context/ while its
\* pipeline runs.
RunningKeepsItsCases ==
  \A r \in Runs : child[r] = "alive" /\ worker[r] = "reading" => r \in cases

\* "Auto-clear prevents stale ingested cases from leaking into the next run"
\* (server.py:634): a pipeline finds no other run's cases.
NoCasesLeak == \A r \in Runs : Owned(r) => cases \subseteq {r}

\* A cancel refused with "finished before the cancel request reached it"
\* (server.py:2091) concerns a run that has ended.
RefusedCancelWasLate == \A r \in Runs : "finished_before" \in replies[r] => ~ Running(r)

\* An accepted cancel of a running run lands on "cancelled"; a run that ended
\* first is refused (docstring of cancel_run, server.py:2026).
AcceptedCancelCancels ==
  \A r \in Runs : "record" \in replies[r] /\ Settled(r) => job[r].status = "cancelled"

\* Jobs "run one at a time" (docs/THREAT_MODEL.md:83), over restarts too.
OneAtATime == \A r, s \in Runs : child[r] \in Live /\ child[s] \in Live => r = s

-----------------------------------------------------------------------------
(* The queue implements the serial queue of SerialQueue.tla.               *)

PhaseOf(r) == IF Settled(r) THEN "ended" ELSE job[r].status

Serial == INSTANCE SerialQueue WITH
            order <- jobs,
            phase <- [r \in Runs |-> PhaseOf(r)]

\* Every step of server, workers, pipelines, shutdown and restart is a step of
\* a first-come first-served queue with a single place, or invisible to it.
ImplementsSerialQueue == Serial!Spec
=============================================================================
