------------------------ MODULE JobQueueEnds_proofs -------------------------
(***************************************************************************)
(* What a run of the queue holds and leaves: its process, its outcome, its *)
(* uploads and its documents, proved for every value of the constants of   *)
(* JobQueue from RecordThreadProcess, which JobQueue_proofs proves.        *)
(***************************************************************************)
EXTENDS JobQueue_proofs, WellFoundedInduction

\* A worker is that of a submitted run.
WorkerOfJob == \A r \in Runs : worker[r] # "none" => InJobs(r) /\ job[r].status # "absent"

\* A set cancel event was asked for; shutdown_jobs flags before it sweeps.
CancelsAreAsked ==
  /\ shut # "up" => stopping
  /\ \A r \in Runs : cancelEv[r] = "set" => CancelAsked(r)

\* What a worker has found when it comes to the outcome is what happened.
FoundEarned ==
  \A r \in Runs :
    /\ worker[r] = "classify" => child[r] = "dead"
    /\ worker[r] = "outcome" =>
         /\ found[r].exit_code # NoCode => child[r] = "dead" /\ found[r].exit_code = rc[r]
         /\ found[r].error = "run_timeout" => child[r] = "dead" /\ timer[r] = "fired"

\* The files the sidecar names are a prepared bundle's.
SidecarOfBundle == \A r \in Runs : sidecar = r => InJobs(r) /\ intake[r] = "bundle"

\* From the placing of its files to the end of its process, the manifest and
\* the documents are those of the native run at work.
NativePlaced ==
  \A r \in Runs : intake[r] = "native" /\ worker[r] \in {"spawning"} \cup Holding =>
    manifest = r /\ r \in cases

-----------------------------------------------------------------------------
(* The operators the steps are built from.                                 *)

\* Waking the queue starts at most one queued run, and nothing else.
LEMMA WakeEffect ==
  ASSUME TypeOK, NEW w \in [Runs -> Places], StartNextJob(w)
  PROVE  \/ worker' = w /\ UNCHANGED job
         \/ \E r \in Runs : /\ Queued(r)
                            /\ \A s \in Runs : job'[s] = IF s = r THEN [job[r] EXCEPT !.status = "running"] ELSE job[s]
                            /\ \A s \in Runs : worker'[s] = IF s = r THEN "starting" ELSE w[s]
<1>0. job \in [Runs -> Records]
  BY DEF TypeOK, QueueType
<1>1. ASSUME NEW r \in Runs, NextQueued(r),
             job' = [job EXCEPT ![r].status = "running"], worker' = [w EXCEPT ![r] = "starting"]
      PROVE  /\ Queued(r)
             /\ \A s \in Runs : job'[s] = IF s = r THEN [job[r] EXCEPT !.status = "running"] ELSE job[s]
             /\ \A s \in Runs : worker'[s] = IF s = r THEN "starting" ELSE w[s]
  <2>1. Queued(r)
    BY <1>1 DEF NextQueued
  <2>2. \A s \in Runs : job'[s] = IF s = r THEN [job[r] EXCEPT !.status = "running"] ELSE job[s]
    BY <1>0, <1>1
  <2>3. \A s \in Runs : worker'[s] = IF s = r THEN "starting" ELSE w[s]
    BY <1>1
  <2>. QED
    BY <2>1, <2>2, <2>3
<1>. QED
  BY <1>1 DEF StartNextJob

\* The two places the queue is woken from: a request, and the end of a worker.
LEMMA Wakes ==
  ASSUME TypeOK, RecordThreadProcess, Kick \/ \E r \in Runs : PickUpNext(r)
  PROVE  /\ UNCHANGED <<jobs, staged, intake, procVars, ctxVars>>
         /\ \E q \in Runs \cup {NoRun} :
              /\ NoRun \notin Runs
              /\ q # NoRun => Queued(q) /\ worker[q] = "none" /\ child[q] = "none"
              /\ \A s \in Runs :
                   /\ s = q => worker'[s] = "starting" /\ job'[s].status = "running"
                   /\ s # q => /\ job'[s] = job[s]
                               /\ worker'[s] = worker[s] \/ (worker[s] = "next" /\ worker'[s] = "done")
<1>0. worker \in [Runs -> Places] /\ NoRun \notin Runs
  BY QueueAssumption DEF TypeOK, WorkerType
<1>1. \A q \in Runs : Queued(q) => worker[q] = "none" /\ child[q] = "none"
  BY DEF RecordThreadProcess, QueuedIsClean
<1>2. ASSUME NEW w \in [Runs -> Places], StartNextJob(w),
             \A s \in Runs : w[s] = worker[s] \/ (worker[s] = "next" /\ w[s] = "done")
      PROVE  \E q \in Runs \cup {NoRun} :
               /\ q # NoRun => Queued(q)
               /\ \A s \in Runs :
                    /\ s = q => worker'[s] = "starting" /\ job'[s].status = "running"
                    /\ s # q => /\ job'[s] = job[s]
                                /\ worker'[s] = worker[s] \/ (worker[s] = "next" /\ worker'[s] = "done")
  <2>1. CASE worker' = w /\ UNCHANGED job
    BY <1>0, <1>2, <2>1
  <2>2. CASE \E r \in Runs :
               /\ Queued(r)
               /\ \A s \in Runs : job'[s] = IF s = r THEN [job[r] EXCEPT !.status = "running"] ELSE job[s]
               /\ \A s \in Runs : worker'[s] = IF s = r THEN "starting" ELSE w[s]
    <3> PICK r \in Runs :
               /\ Queued(r)
               /\ \A s \in Runs : job'[s] = IF s = r THEN [job[r] EXCEPT !.status = "running"] ELSE job[s]
               /\ \A s \in Runs : worker'[s] = IF s = r THEN "starting" ELSE w[s]
      BY <2>2
    <3>1. job'[r].status = "running"
      BY DEF TypeOK, QueueType, Records
    <3>. QED
      BY <1>0, <1>2, <3>1
  <2>. QED
    BY <1>2, <2>1, <2>2, WakeEffect
<1>3. CASE Kick
  BY <1>0, <1>1, <1>2, <1>3 DEF Kick
<1>4. ASSUME NEW r \in Runs, PickUpNext(r)
      PROVE  /\ UNCHANGED <<jobs, staged, intake, procVars, ctxVars>>
             /\ \E w \in [Runs -> Places] :
                  /\ StartNextJob(w)
                  /\ \A s \in Runs : w[s] = worker[s] \/ (worker[s] = "next" /\ w[s] = "done")
  <2>1. [worker EXCEPT ![r] = "done"] \in [Runs -> Places]
    BY <1>0 DEF Places
  <2>. QED
    BY <1>0, <1>4, <2>1 DEF PickUpNext
<1>. QED
  BY <1>0, <1>1, <1>2, <1>3, <1>4

-----------------------------------------------------------------------------
(* The process can be reached.                                             *)

LEMMA ReachableStep ==
  ASSUME TypeOK, RecordThreadProcess, ProcessReachable, [Next]_vars
  PROVE  ProcessReachable'
<1> USE DEF ProcessReachable, TypeOK, ProcType, WorkerType, Owning, Holding, Live
<1>1. ASSUME UNCHANGED <<worker, procs>>,
             \A s \in Runs : /\ child'[s] = "alive" => child[s] = "alive"
                             /\ child[s] # "none" => child'[s] # "none"
      PROVE  ProcessReachable'
  BY <1>1
<1>2. CASE Kick \/ \E r \in Runs : PickUpNext(r)
  <2>1. \A s \in procs : child[s] # "none" /\ worker[s] \in Holding
    OBVIOUS
  <2>. QED
    BY <1>2, <2>1, Wakes DEF procVars
<1>3. ASSUME NEW r \in Runs,
             \/ \E k \in Intakes : Submit(r, k)
             \/ CancelQueued(r) \/ CancelRunning(r) \/ ShutdownReaps(r)
      PROVE  ProcessReachable'
  BY <1>1, <1>3 DEF Submit, CancelQueued, CancelRunning, ShutdownReaps, procVars
<1>4. CASE PollFinds \/ PollGivesUp \/ CancelSignals \/ CancelAnswers \/ ShutdownFlags \/ ShutdownSweeps
           \/ ShutdownJoins \/ UNCHANGED vars
  BY <1>1, <1>4 DEF PollFinds, PollGivesUp, CancelSignals, CancelAnswers, ShutdownFlags, ShutdownSweeps,
     ShutdownJoins, procVars, vars
<1>5. CASE CancelTerminates \/ \E r \in Runs : TimerFires(r) \/ ShutdownTerminates(r)
  BY <1>1, <1>5 DEF CancelTerminates, TimerFires, ShutdownTerminates, Terminate
<1>6. ASSUME NEW r \in Runs, NEW c \in Codes, ChildEnds(r, c) PROVE ProcessReachable'
  BY <1>1, <1>6 DEF ChildEnds
<1>7. ASSUME NEW r \in Runs, UNCHANGED <<child, procs>>, worker[r] \notin Holding \cup {"none"},
             worker'[r] \notin Holding,
             \A s \in Runs \ {r} : worker'[s] = worker[s]
      PROVE  ProcessReachable'
  BY <1>7 DEF RecordThreadProcess, ProcessHeld, Owned
<1>8. ASSUME NEW r \in Runs,
             \/ Register(r) \/ WorkerSeesStop(r) \/ PlaceFiles(r) \/ PlanRefused(r) \/ SetupFails(r)
             \/ Classify(r) \/ RecordOutcome(r) \/ ClearContext(r) \/ ClearCases(r) \/ Unstage(r)
      PROVE  ProcessReachable'
  <2>1. UNCHANGED <<child, procs>>
    BY <1>8 DEF Register, WorkerSeesStop, PlaceFiles, PlanRefused, SetupFails, Classify, RecordOutcome,
       ClearContext, ClearCases, Unstage, procVars
  <2>2. /\ worker[r] \notin Holding \cup {"none"}
        /\ worker'[r] \notin Holding
        /\ \A s \in Runs \ {r} : worker'[s] = worker[s]
    BY <1>8 DEF Register, WorkerSeesStop, PlaceFiles, PlanRefused, SetupFails, Classify, RecordOutcome,
       ClearContext, ClearCases, Unstage, Goto, Raises
  <2>. QED
    BY <1>7, <2>1, <2>2
<1>9. ASSUME NEW r \in Runs, Spawn(r) PROVE ProcessReachable'
  BY <1>9 DEF Spawn, Goto
<1>10. ASSUME NEW r \in Runs, StreamEnds(r) \/ ReapKilled(r) PROVE ProcessReachable'
  BY <1>10 DEF StreamEnds, ReapKilled, Raises, Goto
<1>11. ASSUME NEW r \in Runs, StreamFails(r) PROVE ProcessReachable'
  BY <1>11 DEF StreamFails, Terminate, Goto
<1>12. CASE Restart
  BY <1>12 DEF Restart
<1>. QED
  BY <1>2, <1>3, <1>4, <1>5, <1>6, <1>8, <1>9, <1>10, <1>11, <1>12
     DEF Next, Http, Shutdown, Worker, Progress, Fault, Exited, ChildExits, ChildKilled, Codes

\* A process nobody has signalled can be reached through _PROCS, and no entry
\* outlives the worker that made it.
THEOREM ProcessReachableHolds == Spec => []ProcessReachable
<1>1. Init => ProcessReachable
  BY DEF Init, ProcessReachable
<1>. QED
  BY <1>1, ReachableStep, TypeCorrect, RecordThreadProcessHolds, PTL DEF Spec

-----------------------------------------------------------------------------
(* A worker is that of a submitted run.                                    *)

\* JOBS only grows, and only a submission adds to it.
LEMMA JobsGrow ==
  ASSUME TypeOK, RecordThreadProcess, [Next]_vars
  PROVE  UNCHANGED jobs \/ \E r \in Runs, k \in Intakes : Submit(r, k)
<1>1. CASE UNCHANGED vars \/ Restart
  BY <1>1 DEF vars, queueVars, Restart
<1>2. CASE Next /\ ~ Quiet
  BY <1>1, <1>2, LoudSteps DEF Kick, ShutdownSweeps, CancelQueued, RecordOutcome, PickUpNext
<1>3. CASE Quiet
  BY <1>3 DEF Quiet
<1>. QED
  BY <1>1, <1>2, <1>3

LEMMA InJobsStays ==
  ASSUME TypeOK, RecordThreadProcess, [Next]_vars, NEW r \in Runs, InJobs(r)
  PROVE  InJobs(r)'
<1>1. CASE UNCHANGED jobs
  BY <1>1 DEF InJobs
<1>2. ASSUME NEW q \in Runs, NEW k \in Intakes, Submit(q, k) PROVE InJobs(r)'
  BY <1>2 DEF Submit, InJobs, TypeOK, QueueType
<1>. QED
  BY <1>1, <1>2, JobsGrow

LEMMA WorkerOfJobStep ==
  ASSUME TypeOK, RecordThreadProcess, WorkerOfJob, [Next]_vars
  PROVE  WorkerOfJob'
<1> SUFFICES ASSUME NEW r \in Runs, worker'[r] # "none"
             PROVE  InJobs(r)' /\ job'[r].status # "absent"
  BY DEF WorkerOfJob
<1> USE DEF WorkerOfJob, TypeOK, QueueType, Queued
<1>0. Queued(r) => InJobs(r)
  BY DEF RecordThreadProcess, NewIsClean
<1>1. InJobs(r) => InJobs(r)'
  BY InJobsStays
<1>2. CASE Quiet \/ UNCHANGED vars
  <2>1. worker[r] # "none" /\ job'[r] = job[r]
    BY <1>2 DEF Quiet, vars, queueVars
  <2>. QED
    BY <1>1, <2>1
<1>3. CASE Kick \/ \E q \in Runs : PickUpNext(q)
  BY <1>0, <1>1, <1>3, Wakes
<1>4. ASSUME NEW q \in Runs, \/ \E k \in Intakes : Submit(q, k)
                             \/ CancelQueued(q) \/ RecordOutcome(q)
      PROVE  InJobs(r)' /\ job'[r].status # "absent"
  <2>1. CASE ~ RecordOutcome(q)
    <3>1. worker' = worker /\ job'[r] # job[r] => job'[r].status \in {"queued", "cancelled"}
      BY <1>4, <2>1 DEF Submit, CancelQueued, Record
    <3>2. UNCHANGED worker
      BY <1>4, <2>1 DEF Submit, CancelQueued
    <3>. QED
      BY <1>1, <3>1, <3>2
  <2>2. CASE RecordOutcome(q)
    <3>1. q = r \/ (worker'[r] = worker[r] /\ job'[r] = job[r])
      BY <2>2 DEF RecordOutcome, Goto, WorkerType
    <3>2. worker[q] # "none" /\ job'[q].status \in Terminal
      BY <2>2, StatusIsTerminal DEF RecordOutcome, SettledStatus, Record, Terminal
    <3>. QED
      BY <1>1, <3>1, <3>2 DEF Terminal, Governance
  <2>. QED
    BY <2>1, <2>2
<1>5. CASE ShutdownSweeps
  <2>1. job'[r] = job[r] \/ job'[r].status = "cancelled"
    BY <1>5 DEF ShutdownSweeps, Record
  <2>2. UNCHANGED worker
    BY <1>5 DEF ShutdownSweeps
  <2>. QED
    BY <1>1, <2>1, <2>2
<1>6. CASE Restart
  BY <1>6 DEF Restart
<1>7. CASE Next /\ ~ Quiet
  BY <1>2, <1>3, <1>4, <1>5, <1>6, <1>7, LoudSteps
<1>. QED
  BY <1>2, <1>7

LEMMA WorkerOfJobHolds == Spec => []WorkerOfJob
<1>1. Init => WorkerOfJob
  BY DEF Init, WorkerOfJob
<1>. QED
  BY <1>1, WorkerOfJobStep, TypeCorrect, RecordThreadProcessHolds, PTL DEF Spec

-----------------------------------------------------------------------------
(* The uploads.                                                            *)

\* The places of a worker that may still need the uploads.
Needing == Places \ {"none", "next", "done"}

\* A step that moves no worker in or out of those places, and queues or
\* unqueues no run, leaves the uploads.
LEMMA StagingFrame ==
  ASSUME StagingFollowsJob, UNCHANGED staged,
         \A s \in Runs : /\ Queued(s)' <=> Queued(s)
                         /\ worker'[s] \in Needing <=> worker[s] \in Needing
  PROVE  StagingFollowsJob'
BY DEF StagingFollowsJob, Needing

LEMMA StagingStep ==
  ASSUME TypeOK, RecordThreadProcess, WorkerOfJob, ~ DiskMayFail, StagingFollowsJob, [Next]_vars
  PROVE  StagingFollowsJob'
<1> USE DEF TypeOK, QueueType, WorkerType
<1>1. CASE Kick \/ \E r \in Runs : PickUpNext(r)
  <2>1. PICK q \in Runs \cup {NoRun} :
          /\ NoRun \notin Runs
          /\ q # NoRun => Queued(q) /\ worker[q] = "none" /\ child[q] = "none"
          /\ \A s \in Runs :
               /\ s = q => worker'[s] = "starting" /\ job'[s].status = "running"
               /\ s # q => /\ job'[s] = job[s]
                           /\ worker'[s] = worker[s] \/ (worker[s] = "next" /\ worker'[s] = "done")
    BY <1>1, Wakes
  <2>2. UNCHANGED staged
    BY <1>1, Wakes
  <2>3. \A s \in Runs : s # q => /\ Queued(s)' <=> Queued(s)
                                 /\ worker'[s] \in Needing <=> worker[s] \in Needing
    BY <2>1 DEF Queued, Needing
  <2>4. \A s \in Runs : s = q => /\ Queued(s) /\ ~ Queued(s)'
                                 /\ worker'[s] \in Needing
    BY <2>1 DEF Queued, Needing, Places, Owning
  <2>. QED
    BY <2>2, <2>3, <2>4 DEF StagingFollowsJob, Needing
<1>2. ASSUME NEW r \in Runs, NEW k \in Intakes, Submit(r, k) PROVE StagingFollowsJob'
  <2>1. \A s \in Runs : Queued(s)' <=> s = r \/ Queued(s)
    BY <1>2 DEF Submit, Queued, Record
  <2>. QED
    BY <1>2, <2>1 DEF Submit, StagingFollowsJob
<1>3. ASSUME NEW r \in Runs, CancelQueued(r) PROVE StagingFollowsJob'
  <2>1. \A s \in Runs : Queued(s)' <=> s # r /\ Queued(s)
    BY <1>3 DEF CancelQueued, Queued, Record
  <2>2. worker[r] = "none"
    BY <1>3 DEF CancelQueued, RecordThreadProcess, QueuedIsClean
  <2>. QED
    BY <1>3, <2>1, <2>2 DEF CancelQueued, StagingFollowsJob
<1>4. ASSUME NEW r \in Runs, RecordOutcome(r) PROVE StagingFollowsJob'
  <2>1. ~ Queued(r)
    BY <1>4 DEF RecordOutcome, RecordThreadProcess, QueuedIsClean
  <2>2. ~ Queued(r)' /\ \A s \in Runs \ {r} : job'[s] = job[s]
    BY <1>4, StatusIsTerminal DEF RecordOutcome, Queued, Record, SettledStatus, Terminal, Governance
  <2>3. worker[r] \in Needing /\ worker'[r] \in Needing /\ \A s \in Runs \ {r} : worker'[s] = worker[s]
    BY <1>4 DEF RecordOutcome, Goto, Needing, Places, Owning
  <2>4. UNCHANGED staged
    BY <1>4 DEF RecordOutcome
  <2>. QED
    BY <2>1, <2>2, <2>3, <2>4, StagingFrame DEF Queued
<1>5. CASE ShutdownSweeps
  <2>1. \A s \in Runs : ~ Queued(s)'
    BY <1>5 DEF ShutdownSweeps, Queued, Record
  <2>2. \A s \in Runs : Queued(s) => worker[s] = "none"
    BY DEF RecordThreadProcess, QueuedIsClean
  <2>. QED
    BY <1>5, <2>1, <2>2 DEF ShutdownSweeps, StagingFollowsJob
<1>6. CASE Restart
  <2>1. disk = job
    BY DEF RecordThreadProcess, DiskCurrent
  <2>2. \A s \in Runs : ~ Queued(s)' /\ worker'[s] = "none"
    BY <1>6 DEF Restart, Interrupted, Queued, Record
  <2>3. \A s \in staged : job[s].status # "absent"
    BY DEF StagingFollowsJob, WorkerOfJob, Queued
  <2>. QED
    BY <1>6, <2>1, <2>2, <2>3 DEF Restart, StagingFollowsJob
<1>7. ASSUME NEW r \in Runs, Unstage(r) PROVE StagingFollowsJob'
  <2>1. ~ Queued(r)
    BY <1>7 DEF Unstage, RecordThreadProcess, QueuedIsClean
  <2>. QED
    BY <1>7, <2>1 DEF Unstage, Goto, StagingFollowsJob, Queued
<1>8. ASSUME NEW r \in Runs, UNCHANGED <<job, staged>>,
             worker[r] \in Needing, worker'[r] \in Needing, \A s \in Runs \ {r} : worker'[s] = worker[s]
      PROVE  StagingFollowsJob'
  BY <1>8, StagingFrame DEF Queued
<1>9. ASSUME NEW r \in Runs, Worker(r), ~ Unstage(r), ~ RecordOutcome(r), ~ PickUpNext(r)
      PROVE  StagingFollowsJob'
  <2> USE DEF Goto, Raises, queueVars, Needing, Places, Owning
  <2>1. CASE Register(r) \/ WorkerSeesStop(r) \/ PlaceFiles(r) \/ PlanRefused(r) \/ SetupFails(r) \/ Spawn(r)
    BY <1>8, <2>1 DEF Register, WorkerSeesStop, PlaceFiles, PlanRefused, SetupFails, Spawn
  <2>2. CASE StreamEnds(r) \/ StreamFails(r) \/ ReapKilled(r) \/ Classify(r) \/ ClearContext(r) \/ ClearCases(r)
    BY <1>8, <2>2 DEF StreamEnds, StreamFails, ReapKilled, Classify, ClearContext, ClearCases
  <2>. QED
    BY <1>9, <2>1, <2>2 DEF Worker, Progress, Fault
<1>10. CASE UNCHANGED <<job, staged, worker>>
  BY <1>10, StagingFrame DEF Queued
<1>11. CASE \/ PollFinds \/ PollGivesUp \/ CancelSignals \/ CancelTerminates \/ CancelAnswers
            \/ ShutdownFlags \/ ShutdownJoins \/ UNCHANGED vars
            \/ \E r \in Runs : \/ CancelRunning(r) \/ TimerFires(r) \/ ChildExits(r) \/ ChildKilled(r)
                               \/ ShutdownTerminates(r) \/ ShutdownReaps(r)
  BY <1>10, <1>11 DEF PollFinds, PollGivesUp, CancelSignals, CancelTerminates, CancelAnswers,
     ShutdownFlags, ShutdownJoins, vars, queueVars, CancelRunning, TimerFires, ChildExits, ChildKilled,
     ChildEnds, ShutdownTerminates, ShutdownReaps
<1>. QED
  BY <1>1, <1>2, <1>3, <1>4, <1>5, <1>6, <1>7, <1>9, <1>11
     DEF Next, Http, Shutdown, Exited

\* While no status write is lost, the uploads of a run are on disk exactly as
\* long as it may need them: over cancels, shutdowns and restarts.
THEOREM StagingFollowsJobHolds == ASSUME ~ DiskMayFail PROVE Spec => []StagingFollowsJob
<1>1. Init => StagingFollowsJob
  <2> SUFFICES ASSUME Init, NEW r \in Runs PROVE r \notin staged /\ ~ Queued(r) /\ worker[r] = "none"
    BY DEF StagingFollowsJob
  <2>. QED
    BY DEF Init, Queued, Record
<1>2. TypeOK /\ RecordThreadProcess /\ WorkerOfJob /\ StagingFollowsJob /\ [Next]_vars
        => StagingFollowsJob'
  BY StagingStep
<1>. QED
  BY <1>1, <1>2, TypeCorrect, RecordThreadProcessHolds, WorkerOfJobHolds, PTL DEF Spec

-----------------------------------------------------------------------------
(* The outcome.                                                            *)

\* The steps of the workers, timers and processes, and of shutdown_jobs but
\* its first, leave what was asked of the server alone.
LEMMA WorkersAskNothing ==
  ASSUME \/ \E r \in Runs : Worker(r) \/ TimerFires(r) \/ ChildExits(r) \/ ChildKilled(r)
         \/ Shutdown /\ ~ ShutdownFlags
         \/ UNCHANGED vars
  PROVE  UNCHANGED <<httpVars, stopping>>
<1>1. ASSUME NEW r \in Runs,
             \/ Register(r) \/ WorkerSeesStop(r) \/ PlaceFiles(r) \/ PlanRefused(r) \/ SetupFails(r)
             \/ Spawn(r) \/ StreamEnds(r) \/ StreamFails(r) \/ ReapKilled(r) \/ Classify(r)
      PROVE  UNCHANGED <<httpVars, stopping>>
  BY <1>1 DEF Register, WorkerSeesStop, PlaceFiles, PlanRefused, SetupFails, Spawn, StreamEnds, StreamFails,
     ReapKilled, Classify, shutVars
<1>2. ASSUME NEW r \in Runs,
             \/ RecordOutcome(r) \/ ClearContext(r) \/ ClearCases(r) \/ Unstage(r) \/ PickUpNext(r)
             \/ TimerFires(r) \/ ChildExits(r) \/ ChildKilled(r) \/ ShutdownTerminates(r) \/ ShutdownReaps(r)
      PROVE  UNCHANGED <<httpVars, stopping>>
  <2>1. CASE RecordOutcome(r) \/ ClearContext(r) \/ ClearCases(r) \/ Unstage(r) \/ PickUpNext(r)
    BY <2>1 DEF RecordOutcome, ClearContext, ClearCases, Unstage, PickUpNext, shutVars
  <2>2. CASE TimerFires(r) \/ ChildExits(r) \/ ChildKilled(r) \/ ShutdownTerminates(r) \/ ShutdownReaps(r)
    BY <2>2 DEF TimerFires, ChildExits, ChildKilled, ChildEnds, ShutdownTerminates, ShutdownReaps, shutVars
  <2>. QED
    BY <1>2, <2>1, <2>2
<1>3. CASE ShutdownSweeps \/ ShutdownJoins \/ UNCHANGED vars
  BY <1>3 DEF ShutdownSweeps, ShutdownJoins, vars, shutVars
<1>. QED
  BY <1>1, <1>2, <1>3 DEF Worker, Progress, Fault, Shutdown

\* What was asked for stays asked for, until a restart.
LEMMA AskedStays ==
  ASSUME TypeOK, [Next]_vars, ~ Restart, NEW r \in Runs, CancelAsked(r)
  PROVE  CancelAsked(r)'
<1> USE DEF CancelAsked, TypeOK, HttpType
<1>1. CASE UNCHANGED <<httpVars, stopping>>
  BY <1>1 DEF httpVars
<1>2. CASE ShutdownFlags
  BY <1>2 DEF ShutdownFlags
<1>3. CASE Kick
  BY <1>3 DEF Kick, shutVars
<1>6. ASSUME NEW q \in Runs, CancelQueued(q) PROVE CancelAsked(r)'
  BY <1>6 DEF CancelQueued, shutVars
<1>7. ASSUME NEW q \in Runs, CancelRunning(q) \/ \E k \in Intakes : Submit(q, k) PROVE CancelAsked(r)'
  BY <1>7 DEF CancelRunning, Submit, shutVars
<1>4. CASE PollFinds \/ PollGivesUp \/ CancelSignals \/ CancelTerminates
  BY <1>4 DEF PollFinds, PollGivesUp, CancelSignals, CancelTerminates, shutVars
<1>5. CASE CancelAnswers
  BY <1>5 DEF CancelAnswers, shutVars
<1>. QED
  BY <1>1, <1>2, <1>3, <1>4, <1>5, <1>6, <1>7, WorkersAskNothing DEF Next, Http, Exited

\* Who sets a cancel event.
LEMMA EventsSet ==
  ASSUME TypeOK, [Next]_vars, NEW r \in Runs, cancelEv'[r] = "set", cancelEv[r] # "set"
  PROVE  \/ WorkerSeesStop(r)
         \/ CancelSignals /\ http.run = r
         \/ ShutdownSweeps
<1> USE DEF TypeOK, ProcType
<1>1. ASSUME NEW q \in Runs,
             Worker(q), ~ WorkerSeesStop(q)
      PROVE  cancelEv'[r] \in {cancelEv[r], "none", "clear"}
  BY <1>1 DEF Worker, Progress, Fault, Register, PlaceFiles, PlanRefused, SetupFails, Spawn, StreamEnds,
     StreamFails, ReapKilled, Classify, RecordOutcome, ClearContext, ClearCases, Unstage, PickUpNext, procVars
<1>2. ASSUME NEW q \in Runs, WorkerSeesStop(q), q # r PROVE cancelEv'[r] = cancelEv[r]
  BY <1>2 DEF WorkerSeesStop
<1>3. ASSUME Http, ~ (CancelSignals /\ http.run = r) PROVE cancelEv'[r] = cancelEv[r]
  BY <1>3 DEF Http, Kick, PollFinds, PollGivesUp, CancelSignals, CancelTerminates, CancelAnswers, procVars
<1>4. ASSUME Shutdown, ~ ShutdownSweeps PROVE cancelEv'[r] = cancelEv[r]
  BY <1>4 DEF Shutdown, ShutdownFlags, ShutdownJoins, ShutdownTerminates, ShutdownReaps, procVars
<1>5. ASSUME Restart \/ UNCHANGED vars PROVE cancelEv'[r] \in {cancelEv[r], "none"}
  BY <1>5 DEF Restart, vars, procVars
<1>6. ASSUME NEW q \in Runs,
             \/ \E k \in Intakes : Submit(q, k)
             \/ CancelQueued(q) \/ CancelRunning(q) \/ TimerFires(q) \/ ChildExits(q) \/ ChildKilled(q)
      PROVE  cancelEv'[r] = cancelEv[r]
  BY <1>6 DEF Submit, CancelQueued, CancelRunning, TimerFires, ChildExits, ChildKilled, ChildEnds, procVars
<1>. QED
  BY <1>1, <1>2, <1>3, <1>4, <1>5, <1>6 DEF Next, Exited

LEMMA AskedStep ==
  ASSUME TypeOK, CancelsAreAsked, [Next]_vars
  PROVE  CancelsAreAsked'
<1>1. shut' # "up" => stopping'
  <2>1. CASE ShutdownFlags \/ ShutdownSweeps \/ ShutdownJoins \/ Restart
    BY <2>1 DEF CancelsAreAsked, ShutdownFlags, ShutdownSweeps, ShutdownJoins, Restart
  <2>2. CASE UNCHANGED <<shut, stopping>>
    BY <2>2 DEF CancelsAreAsked
  <2>3. CASE \E r \in Runs : Worker(r) \/ TimerFires(r) \/ ChildExits(r) \/ ChildKilled(r)
    <3> PICK r \in Runs : Worker(r) \/ TimerFires(r) \/ ChildExits(r) \/ ChildKilled(r)
      BY <2>3
    <3>1. CASE Worker(r)
      BY <2>2, <3>1 DEF Worker, Progress, Fault, Register, WorkerSeesStop, PlaceFiles, PlanRefused, SetupFails,
         Spawn, StreamEnds, StreamFails, ReapKilled, Classify, RecordOutcome, ClearContext, ClearCases,
         Unstage, PickUpNext, shutVars
    <3>2. CASE ~ Worker(r)
      BY <2>2, <3>2 DEF TimerFires, ChildExits, ChildKilled, ChildEnds, shutVars
    <3>. QED
      BY <3>1, <3>2
  <2>4. CASE \/ Http \/ UNCHANGED vars
             \/ \E r \in Runs : \/ \E k \in Intakes : Submit(r, k)
                                \/ CancelQueued(r) \/ CancelRunning(r)
                                \/ ShutdownTerminates(r) \/ ShutdownReaps(r)
    BY <2>2, <2>4 DEF Http, Kick, PollFinds, PollGivesUp, CancelSignals, CancelTerminates, CancelAnswers, vars,
       Submit, CancelQueued, CancelRunning, ShutdownTerminates, ShutdownReaps, shutVars
  <2>. QED
    BY <2>1, <2>3, <2>4 DEF Next, Shutdown, Exited
<1>2. ASSUME NEW r \in Runs, cancelEv'[r] = "set" PROVE CancelAsked(r)'
  <2>1. ~ Restart
    BY <1>2 DEF Restart
  <2>2. CASE cancelEv[r] = "set"
    BY <2>1, <2>2, AskedStays DEF CancelsAreAsked
  <2>3. CASE WorkerSeesStop(r)
    BY <2>3 DEF WorkerSeesStop, CancelAsked, shutVars
  <2>4. CASE CancelSignals /\ http.run = r
    BY <2>4 DEF CancelSignals, CancelAsked, TypeOK, HttpType
  <2>5. CASE ShutdownSweeps
    BY <2>5 DEF ShutdownSweeps, CancelAsked, CancelsAreAsked
  <2>. QED
    BY <1>2, <2>2, <2>3, <2>4, <2>5, EventsSet
<1>. QED
  BY <1>1, <1>2 DEF CancelsAreAsked

\* The end of a process is final, and so is an elapsed timeout, unless the
\* process is started or the server restarts.
LEMMA DeadStays ==
  ASSUME TypeOK, [Next]_vars, ~ Restart, NEW r \in Runs, worker[r] # "spawning", child[r] = "dead"
  PROVE  /\ child'[r] = "dead" /\ rc'[r] = rc[r]
         /\ timer[r] = "fired" => timer'[r] = "fired"
<1> DEFINE Ended == /\ child'[r] = "dead" /\ rc'[r] = rc[r]
                    /\ timer[r] = "fired" => timer'[r] = "fired"
<1> USE DEF TypeOK, ProcType
<1>1. ASSUME UNCHANGED <<child, rc, timer>> PROVE Ended
  BY <1>1
<1>2. ASSUME NEW q \in Runs, Spawn(q) PROVE Ended
  <2>1. q # r
    BY <1>2 DEF Spawn
  <2>. QED
    BY <1>2, <2>1 DEF Spawn
<1>3. ASSUME NEW q \in Runs, StreamEnds(q) \/ StreamFails(q) PROVE Ended
  BY <1>3 DEF StreamEnds, StreamFails, StopTimer, Terminate
<1>4. ASSUME NEW q \in Runs, Worker(q), ~ Spawn(q), ~ StreamEnds(q), ~ StreamFails(q) PROVE Ended
  BY <1>1, <1>4 DEF Worker, Progress, Fault, Register, WorkerSeesStop, PlaceFiles, PlanRefused, SetupFails,
     ReapKilled, Classify, RecordOutcome, ClearContext, ClearCases, Unstage, PickUpNext, procVars
<1>5. ASSUME NEW q \in Runs, TimerFires(q) \/ ShutdownTerminates(q) PROVE Ended
  BY <1>5 DEF TimerFires, ShutdownTerminates, Terminate
<1>6. ASSUME NEW q \in Runs, ChildExits(q) \/ ChildKilled(q) PROVE Ended
  BY <1>6 DEF ChildExits, ChildKilled, ChildEnds, Live
<1>7. CASE CancelTerminates
  BY <1>7 DEF CancelTerminates, Terminate
<1>8. CASE Http /\ ~ CancelTerminates
  BY <1>1, <1>8 DEF Http, Kick, PollFinds, PollGivesUp, CancelSignals, CancelAnswers, procVars
<1>9. CASE \/ ShutdownFlags \/ ShutdownSweeps \/ ShutdownJoins \/ UNCHANGED vars
           \/ \E q \in Runs : \/ \E k \in Intakes : Submit(q, k)
                              \/ CancelQueued(q) \/ CancelRunning(q) \/ ShutdownReaps(q)
  BY <1>1, <1>9 DEF ShutdownFlags, ShutdownSweeps, ShutdownJoins, vars, Submit, CancelQueued, CancelRunning,
     ShutdownReaps, procVars
<1>. QED
  BY <1>2, <1>3, <1>4, <1>5, <1>6, <1>7, <1>8, <1>9 DEF Next, Shutdown, Exited

\* What a worker has found, and the way to it, is its own.
LEMMA FoundEffect ==
  ASSUME TypeOK, RecordThreadProcess, [Next]_vars, NEW r \in Runs, worker'[r] \in {"classify", "outcome"}
  PROVE  \/ worker'[r] = worker[r] /\ found'[r] = found[r]
         \/ StreamEnds(r) \/ Classify(r)
         \/ found'[r] = [exit_code |-> NoCode, error |-> "exception"] /\ worker'[r] = "outcome"
<1> USE DEF TypeOK, WorkerType
<1>1. CASE UNCHANGED <<worker, found>>
  BY <1>1
<1>2. CASE Kick \/ \E q \in Runs : PickUpNext(q)
  <2>1. worker'[r] = worker[r]
    BY <1>2, Wakes
  <2>2. UNCHANGED found
    BY <1>2 DEF Kick, PickUpNext
  <2>. QED
    BY <2>1, <2>2
<1>3. ASSUME NEW q \in Runs, Worker(q), ~ PickUpNext(q), q # r PROVE worker'[r] = worker[r] /\ found'[r] = found[r]
  BY <1>3 DEF Worker, Progress, Fault, Register, WorkerSeesStop, PlaceFiles, PlanRefused, SetupFails, Spawn,
     StreamEnds, StreamFails, ReapKilled, Classify, RecordOutcome, ClearContext, ClearCases, Unstage,
     Goto, Raises, Finds
<1>4. CASE WorkerSeesStop(r) \/ PlanRefused(r) \/ SetupFails(r) \/ ReapKilled(r)
  BY <1>4 DEF WorkerSeesStop, PlanRefused, SetupFails, ReapKilled, Goto, Raises, Finds
<1>5. CASE Register(r) \/ PlaceFiles(r) \/ Spawn(r) \/ StreamFails(r) \/ RecordOutcome(r) \/ ClearContext(r)
           \/ ClearCases(r) \/ Unstage(r)
  BY <1>5 DEF Register, PlaceFiles, Spawn, StreamFails, RecordOutcome, ClearContext, ClearCases, Unstage, Goto
<1>6. CASE Restart
  BY <1>6 DEF Restart
<1>7. CASE \/ (Http /\ ~ Kick) \/ UNCHANGED vars
           \/ \E q \in Runs : \/ \E k \in Intakes : Submit(q, k)
                              \/ CancelQueued(q) \/ CancelRunning(q) \/ TimerFires(q) \/ ChildExits(q)
                              \/ ChildKilled(q)
  BY <1>1, <1>7 DEF Http, PollFinds, PollGivesUp, CancelSignals, CancelTerminates, CancelAnswers, vars, Submit,
     CancelQueued, CancelRunning, TimerFires, ChildExits, ChildKilled, ChildEnds
<1>8. CASE Shutdown
  BY <1>1, <1>8 DEF Shutdown, ShutdownFlags, ShutdownSweeps, ShutdownJoins, ShutdownTerminates, ShutdownReaps
<1>. QED
  BY <1>2, <1>3, <1>4, <1>5, <1>6, <1>7, <1>8 DEF Next, Worker, Progress, Fault, Exited

LEMMA FoundStep ==
  ASSUME TypeOK, RecordThreadProcess, FoundEarned, [Next]_vars
  PROVE  FoundEarned'
<1> SUFFICES ASSUME NEW r \in Runs, worker'[r] \in {"classify", "outcome"}
             PROVE  /\ worker'[r] = "classify" => child'[r] = "dead"
                    /\ worker'[r] = "outcome" =>
                         /\ found'[r].exit_code # NoCode => child'[r] = "dead" /\ found'[r].exit_code = rc'[r]
                         /\ found'[r].error = "run_timeout" => child'[r] = "dead" /\ timer'[r] = "fired"
  BY DEF FoundEarned
<1> USE DEF FoundEarned, TypeOK, WorkerType
<1>0. ~ Restart
  BY DEF Restart
<1>1. CASE worker'[r] = worker[r] /\ found'[r] = found[r]
  <2>1. child[r] = "dead" => /\ child'[r] = "dead" /\ rc'[r] = rc[r]
                             /\ timer[r] = "fired" => timer'[r] = "fired"
    BY <1>0, <1>1, DeadStays
  <2>. QED
    BY <1>1, <2>1
<1>2. CASE StreamEnds(r)
  BY <1>2 DEF StreamEnds, Goto
<1>3. CASE Classify(r)
  <2>1. child[r] = "dead" /\ UNCHANGED <<child, rc, timer>> /\ worker'[r] = "outcome"
    BY <1>3 DEF Classify, procVars, Goto
  <2>2. \/ found'[r].exit_code = rc[r] /\ found'[r].error \in {"cancel_request", "none", "exit"}
        \/ found'[r].exit_code = NoCode /\ timer[r] = "fired"
    BY <1>3 DEF Classify, Finds
  <2>. QED
    BY <2>1, <2>2
<1>4. CASE found'[r] = [exit_code |-> NoCode, error |-> "exception"] /\ worker'[r] = "outcome"
  BY <1>4
<1>. QED
  BY <1>1, <1>2, <1>3, <1>4, FoundEffect

\* The places of a worker whose run is settled.
After == Places \ (Owning \cup {"none"})

\* A worker settles its run by recording the outcome, and no other way.
LEMMA EntersAfter ==
  ASSUME TypeOK, RecordThreadProcess, [Next]_vars, NEW r \in Runs, worker'[r] \in After, worker[r] \notin After
  PROVE  RecordOutcome(r)
<1> USE DEF TypeOK, WorkerType, After
<1>1. worker[r] = "none" \/ worker[r] \in Owning
  OBVIOUS
<1>2. CASE Quiet \/ UNCHANGED vars
  <2>1. worker'[r] = "none" \/ worker'[r] \in Owning
    BY <1>1, <1>2 DEF Quiet, vars
  <2>. QED
    BY <2>1
<1>3. CASE Kick \/ \E q \in Runs : PickUpNext(q)
  <2>1. worker'[r] = worker[r] \/ worker'[r] = "starting" \/ worker[r] = "next"
    BY <1>3, Wakes
  <2>. QED
    BY <1>1, <2>1 DEF Places, Owning
<1>4. CASE ShutdownSweeps \/ Restart
  BY <1>1, <1>4 DEF ShutdownSweeps, Restart
<1>5. ASSUME NEW q \in Runs, CancelQueued(q) \/ \E k \in Intakes : Submit(q, k) PROVE FALSE
  BY <1>1, <1>5 DEF CancelQueued, Submit
<1>6. ASSUME NEW q \in Runs, RecordOutcome(q), q # r PROVE FALSE
  BY <1>1, <1>6 DEF RecordOutcome, Goto
<1>7. CASE Next /\ ~ Quiet
  BY <1>2, <1>3, <1>4, <1>5, <1>6, <1>7, LoudSteps
<1>. QED
  BY <1>2, <1>7

\* Until a restart, the record of a settled run does not change.
LEMMA RecordStays ==
  ASSUME TypeOK, RecordThreadProcess, [Next]_vars, ~ Restart,
         NEW r \in Runs, ~ Queued(r), ~ Running(r), job[r].status # "absent"
  PROVE  job'[r] = job[r]
<1> USE DEF TypeOK, QueueType
<1>1. CASE Quiet \/ UNCHANGED vars
  BY <1>1 DEF Quiet, vars, queueVars
<1>2. CASE Kick \/ \E q \in Runs : PickUpNext(q)
  BY <1>2, Wakes
<1>3. ASSUME NEW q \in Runs, NEW k \in Intakes, Submit(q, k) PROVE job'[r] = job[r]
  <2>1. job[q].status = "absent"
    BY <1>3 DEF Submit, RecordThreadProcess, NewIsClean, InJobs
  <2>. QED
    BY <1>3, <2>1 DEF Submit
<1>4. ASSUME NEW q \in Runs, CancelQueued(q) PROVE job'[r] = job[r]
  BY <1>4 DEF CancelQueued
<1>5. ASSUME NEW q \in Runs, RecordOutcome(q) PROVE job'[r] = job[r]
  <2>1. Running(q)
    BY <1>5 DEF RecordOutcome, RecordThreadProcess, WorkerOwnsRun, Owning
  <2>. QED
    BY <1>5, <2>1 DEF RecordOutcome
<1>6. CASE ShutdownSweeps
  BY <1>6 DEF ShutdownSweeps
<1>7. CASE Next /\ ~ Quiet
  BY <1>1, <1>2, <1>3, <1>4, <1>5, <1>6, <1>7, LoudSteps
<1>. QED
  BY <1>1, <1>7

\* The outcome of one run.
Earned(r) ==
  LET s == job[r].status IN
  /\ s \in Governance \cup {"completed"} => child[r] = "dead" /\ s = StatusForExitCode(rc[r])
  /\ job[r].error = "run_timeout" => timer[r] = "fired" /\ child[r] = "dead"
  /\ s = "cancelled" => CancelAsked(r)

LEMMA OutcomeStep ==
  ASSUME TypeOK, RecordThreadProcess, WorkerOfJob, CancelsAreAsked, FoundEarned, OutcomeEarned, [Next]_vars
  PROVE  OutcomeEarned'
<1> SUFFICES ASSUME NEW r \in Runs, worker'[r] \in After PROVE Earned(r)'
  BY DEF OutcomeEarned, After, Earned
<1>0. ~ Restart
  BY DEF Restart, After
<1>1. CASE worker[r] \in After
  <2>1. Earned(r)
    BY <1>1 DEF OutcomeEarned, After, Earned
  <2>2. ~ Queued(r) /\ ~ Running(r) /\ job[r].status # "absent"
    BY <1>1 DEF RecordThreadProcess, QueuedIsClean, WorkerOwnsRun, WorkerOfJob, After
  <2>3. job'[r] = job[r]
    BY <1>0, <2>2, RecordStays
  <2>4. worker[r] # "spawning"
    BY <1>1 DEF After, Owning
  <2>5. child[r] = "dead" => /\ child'[r] = "dead" /\ rc'[r] = rc[r]
                             /\ timer[r] = "fired" => timer'[r] = "fired"
    BY <1>0, <2>4, DeadStays
  <2>6. CancelAsked(r) => CancelAsked(r)'
    BY <1>0, AskedStays
  <2>. QED
    BY <2>1, <2>3, <2>5, <2>6 DEF Earned
<1>2. CASE worker[r] \notin After
  <2>1. RecordOutcome(r)
    BY <1>2, EntersAfter
  <2>2. /\ job'[r].status = SettledStatus(r) /\ job'[r].error = found[r].error
        /\ UNCHANGED <<child, rc, timer>> /\ worker[r] = "outcome"
    BY <2>1 DEF RecordOutcome, Record, TypeOK, QueueType
  <2>3. /\ found[r].exit_code # NoCode => child[r] = "dead" /\ found[r].exit_code = rc[r]
        /\ found[r].error = "run_timeout" => child[r] = "dead" /\ timer[r] = "fired"
    BY <2>2 DEF FoundEarned
  <2>4. CASE cancelEv[r] = "set"
    <3>1. CancelAsked(r)'
      BY <1>0, <2>4, AskedStays DEF CancelsAreAsked
    <3>. QED
      BY <2>2, <2>3, <2>4, <3>1 DEF Earned, SettledStatus, Governance
  <2>5. CASE cancelEv[r] # "set" /\ found[r].exit_code = NoCode
    BY <2>2, <2>3, <2>5 DEF Earned, SettledStatus, Governance
  <2>6. CASE cancelEv[r] # "set" /\ found[r].exit_code # NoCode
    <3>1. job'[r].status = StatusForExitCode(rc[r]) /\ child[r] = "dead"
      BY <2>2, <2>3, <2>6 DEF SettledStatus
    <3>2. StatusForExitCode(rc[r]) # "cancelled"
      BY DEF StatusForExitCode
    <3>. QED
      BY <2>2, <2>3, <3>1, <3>2 DEF Earned
  <2>. QED
    BY <2>4, <2>5, <2>6
<1>. QED
  BY <1>1, <1>2

\* What a finished worker reports is what happened to its process, and
\* cancelled only if a cancel or a shutdown asked for it, for any number of
\* cancels, faults and restarts.
THEOREM OutcomeEarnedHolds == Spec => []OutcomeEarned
<1>1. Init => CancelsAreAsked /\ FoundEarned /\ OutcomeEarned
  <2> SUFFICES ASSUME Init PROVE CancelsAreAsked /\ FoundEarned /\ OutcomeEarned
    OBVIOUS
  <2>1. shut = "up" /\ \A r \in Runs : cancelEv[r] = "none" /\ worker[r] = "none"
    BY DEF Init
  <2>. QED
    BY <2>1 DEF CancelsAreAsked, FoundEarned, OutcomeEarned
<1>2. TypeOK /\ RecordThreadProcess /\ WorkerOfJob /\ CancelsAreAsked /\ FoundEarned /\ OutcomeEarned
        /\ [Next]_vars => CancelsAreAsked' /\ FoundEarned' /\ OutcomeEarned'
  BY AskedStep, FoundStep, OutcomeStep
<1>. QED
  BY <1>1, <1>2, TypeCorrect, RecordThreadProcessHolds, WorkerOfJobHolds, PTL DEF Spec

-----------------------------------------------------------------------------
(* The documents of a native review.                                       *)

\* The kind of a submitted run is fixed.
LEMMA IntakeStays ==
  ASSUME TypeOK, [Next]_vars, NEW s \in Runs, InJobs(s)
  PROVE  intake'[s] = intake[s]
<1>1. CASE UNCHANGED intake
  BY <1>1
<1>2. ASSUME NEW q \in Runs, NEW k \in Intakes, Submit(q, k) PROVE intake'[s] = intake[s]
  BY <1>2 DEF Submit, InJobs, TypeOK, QueueType
<1>3. CASE \/ Http \/ Shutdown \/ Restart \/ UNCHANGED vars
           \/ \E q \in Runs : \/ CancelQueued(q) \/ CancelRunning(q) \/ TimerFires(q) \/ ChildExits(q)
                              \/ ChildKilled(q)
  BY <1>1, <1>3 DEF Http, Kick, PollFinds, PollGivesUp, CancelSignals, CancelTerminates, CancelAnswers,
     Shutdown, ShutdownFlags, ShutdownSweeps, ShutdownJoins, ShutdownTerminates, ShutdownReaps, Restart,
     CancelQueued, CancelRunning, TimerFires, ChildExits, ChildKilled, ChildEnds, vars, queueVars
<1>4. ASSUME NEW q \in Runs, Worker(q) PROVE UNCHANGED intake
  BY <1>4 DEF Worker, Progress, Fault, Register, WorkerSeesStop, PlaceFiles, PlanRefused, SetupFails, Spawn,
     StreamEnds, StreamFails, ReapKilled, Classify, RecordOutcome, ClearContext, ClearCases, Unstage,
     PickUpNext, queueVars
<1>. QED
  BY <1>1, <1>2, <1>3, <1>4 DEF Next, Exited

\* Only workers and a restart touch input/context/.
LEMMA ContextSteps ==
  ASSUME [Next]_vars, ~ UNCHANGED ctxVars
  PROVE  Restart \/ \E q \in Runs : PlaceFiles(q) \/ ClearContext(q) \/ ClearCases(q)
<1>1. ASSUME NEW q \in Runs, Worker(q), ~ PlaceFiles(q), ~ ClearContext(q), ~ ClearCases(q) PROVE FALSE
  BY <1>1 DEF Worker, Progress, Fault, Register, WorkerSeesStop, PlanRefused, SetupFails, Spawn, StreamEnds,
     StreamFails, ReapKilled, Classify, RecordOutcome, Unstage, PickUpNext
<1>2. CASE \/ Http \/ Shutdown \/ UNCHANGED vars
           \/ \E q \in Runs : \/ CancelQueued(q) \/ CancelRunning(q) \/ TimerFires(q) \/ ChildExits(q)
                              \/ ChildKilled(q) \/ \E k \in Intakes : Submit(q, k)
  BY <1>2 DEF Http, Kick, PollFinds, PollGivesUp, CancelSignals, CancelTerminates, CancelAnswers,
     Shutdown, ShutdownFlags, ShutdownSweeps, ShutdownJoins, ShutdownTerminates, ShutdownReaps, Submit,
     CancelQueued, CancelRunning, TimerFires, ChildExits, ChildKilled, ChildEnds, vars
<1>. QED
  BY <1>1, <1>2 DEF Next, Exited

LEMMA SidecarStep ==
  ASSUME TypeOK, RecordThreadProcess, WorkerOfJob, SidecarOfBundle, [Next]_vars
  PROVE  SidecarOfBundle'
<1> SUFFICES ASSUME NEW r \in Runs, sidecar' = r PROVE InJobs(r)' /\ intake'[r] = "bundle"
  BY DEF SidecarOfBundle
<1>1. InJobs(r) => InJobs(r)' /\ intake'[r] = intake[r]
  BY InJobsStays, IntakeStays
<1>2. CASE UNCHANGED sidecar
  BY <1>1, <1>2 DEF SidecarOfBundle
<1>3. ASSUME NEW q \in Runs, PlaceFiles(q), ~ UNCHANGED sidecar PROVE InJobs(r)' /\ intake'[r] = "bundle"
  <2>1. q = r /\ intake[r] = "bundle" /\ worker[r] = "staging"
    BY <1>3 DEF PlaceFiles
  <2>. QED
    BY <1>1, <2>1 DEF WorkerOfJob
<1>4. CASE Restart \/ \E q \in Runs : ClearContext(q) \/ ClearCases(q)
  <2>1. UNCHANGED sidecar \/ sidecar' = NoRun
    BY <1>4 DEF Restart, ClearContext, ClearCases, AutoClear, ctxVars
  <2>. QED
    BY <1>2, <2>1, QueueAssumption
<1>. QED
  BY <1>2, <1>3, <1>4, ContextSteps DEF ctxVars

\* The places from the placing of the files to the end of the process.
Using == {"spawning"} \cup Holding

\* A worker comes there by placing the files.
LEMMA EntersUsing ==
  ASSUME TypeOK, RecordThreadProcess, [Next]_vars, NEW r \in Runs, worker'[r] \in Using, worker[r] \notin Using
  PROVE  PlaceFiles(r)
<1> USE DEF TypeOK, WorkerType, Using, Holding
<1>1. worker'[r] # worker[r]
  OBVIOUS
<1>2. CASE Kick \/ \E q \in Runs : PickUpNext(q)
  <2>1. worker'[r] \in {worker[r], "starting", "done"}
    BY <1>2, Wakes
  <2>. QED
    BY <1>1, <2>1
<1>3. ASSUME NEW q \in Runs, Worker(q), ~ PickUpNext(q), q # r PROVE worker'[r] = worker[r]
  BY <1>3 DEF Worker, Progress, Fault, Register, WorkerSeesStop, PlaceFiles, PlanRefused, SetupFails, Spawn,
     StreamEnds, StreamFails, ReapKilled, Classify, RecordOutcome, ClearContext, ClearCases, Unstage,
     Goto, Raises
<1>4. ASSUME Worker(r), ~ PickUpNext(r), ~ PlaceFiles(r) PROVE FALSE
  BY <1>4 DEF Worker, Progress, Fault, Register, WorkerSeesStop, PlanRefused, SetupFails, Spawn,
     StreamEnds, StreamFails, ReapKilled, Classify, RecordOutcome, ClearContext, ClearCases, Unstage,
     Goto, Raises
<1>5. CASE \/ (Http /\ ~ Kick) \/ Shutdown \/ Restart \/ UNCHANGED vars
           \/ \E q \in Runs : \/ \E k \in Intakes : Submit(q, k)
                              \/ CancelQueued(q) \/ CancelRunning(q) \/ TimerFires(q) \/ ChildExits(q)
                              \/ ChildKilled(q)
  <2>1. UNCHANGED worker \/ worker'[r] = "none"
    BY <1>5 DEF Http, PollFinds, PollGivesUp, CancelSignals, CancelTerminates, CancelAnswers, vars,
       Shutdown, ShutdownFlags, ShutdownSweeps, ShutdownJoins, ShutdownTerminates, ShutdownReaps, Restart,
       Submit, CancelQueued, CancelRunning, TimerFires, ChildExits, ChildKilled, ChildEnds
  <2>. QED
    BY <1>1, <2>1
<1>. QED
  BY <1>1, <1>2, <1>3, <1>4, <1>5 DEF Next, Exited, Worker, Progress

LEMMA NativeStep ==
  ASSUME TypeOK, RecordThreadProcess, WorkerOfJob, SidecarOfBundle, NativePlaced, ~ Resubmit, [Next]_vars
  PROVE  NativePlaced'
<1> SUFFICES ASSUME NEW r \in Runs, intake'[r] = "native", worker'[r] \in Using
             PROVE  manifest' = r /\ r \in cases'
  BY DEF NativePlaced, Using
<1>0. NoRun \notin Runs /\ \A q, s : SamePlan(q, s) <=> q = s
  BY QueueAssumption DEF SamePlan
<1>1. CASE worker[r] \notin Using
  <2>1. PlaceFiles(r)
    BY <1>1, EntersUsing
  <2>2. intake[r] = "native"
    BY <2>1 DEF PlaceFiles, queueVars
  <2>3. ~ InConflict(r) /\ manifest' = (IF manifest = NoRun THEN r ELSE manifest)
        /\ cases' = IF \E q \in cases : SamePlan(q, r) THEN cases ELSE cases \cup {r}
    BY <2>1, <2>2 DEF PlaceFiles
  <2>. QED
    BY <1>0, <2>3 DEF InConflict
<1>2. CASE worker[r] \in Using
  <2>0. worker[r] \notin {"none", "staging", "clearing", "clearing_cases"}
    BY <1>2 DEF Using, Holding
  <2>1. intake[r] = "native" /\ manifest = r /\ r \in cases /\ sidecar # r
    <3>1. intake[r] = "native"
      BY <2>0, IntakeStays DEF WorkerOfJob
    <3>. QED
      BY <1>2, <3>1 DEF NativePlaced, Using, SidecarOfBundle
  <2>2. CASE UNCHANGED ctxVars
    BY <2>1, <2>2 DEF ctxVars
  <2>3. ASSUME NEW q \in Runs, PlaceFiles(q) PROVE manifest' = r /\ r \in cases'
    BY <1>0, <2>1, <2>3 DEF PlaceFiles
  <2>4. ASSUME NEW q \in Runs, ClearContext(q) \/ ClearCases(q) PROVE manifest' = r /\ r \in cases'
    <3>1. q # r
      BY <2>0, <2>4 DEF ClearContext, ClearCases
    <3>. QED
      BY <2>1, <2>4, <3>1 DEF ClearContext, ClearCases, AutoClear
  <2>5. ~ Restart
    BY DEF Restart, Using, Holding
  <2>. QED
    BY <2>2, <2>3, <2>4, <2>5, ContextSteps
<1>. QED
  BY <1>1, <1>2

\* Where no plan is submitted again while it is in review, the documents and
\* the manifest of a native review stay while it runs, although the worker of
\* an earlier run may still be clearing its own.
THEOREM NativeFilesStayHolds == ASSUME ~ Resubmit PROVE Spec => []NativeFilesStay
<1>1. Init => SidecarOfBundle /\ NativePlaced
  <2> SUFFICES ASSUME Init PROVE SidecarOfBundle /\ NativePlaced
    OBVIOUS
  <2>1. sidecar = NoRun /\ \A r \in Runs : worker[r] = "none"
    BY DEF Init
  <2>. QED
    BY <2>1, QueueAssumption DEF SidecarOfBundle, NativePlaced, Holding
<1>2. TypeOK /\ RecordThreadProcess /\ WorkerOfJob /\ SidecarOfBundle /\ NativePlaced /\ [Next]_vars
        => SidecarOfBundle' /\ NativePlaced'
  BY SidecarStep, NativeStep
<1>3. RecordThreadProcess /\ NativePlaced => NativeFilesStay
  BY DEF RecordThreadProcess, ProcessHeld, NativePlaced, NativeFilesStay, SamePlan
<1>. QED
  BY <1>1, <1>2, <1>3, TypeCorrect, RecordThreadProcessHolds, WorkerOfJobHolds, PTL DEF Spec

-----------------------------------------------------------------------------
(* What EveryRunEnds rests on: the queue is always woken.                  *)

\* A set of naturals has a least element.
LEMMA LeastNatural ==
  ASSUME NEW T, T \subseteq Nat, T # {}
  PROVE  \E m \in T : \A k \in T : m <= k
<1> DEFINE R == {ss \in Nat \X Nat : ss[1] < ss[2]}
<1>1. IsWellFoundedOn(R, Nat)
  BY NatLessThanWellFounded DEF OpToRel
<1>2. \A m, k \in T : k < m => <<k, m>> \in R
  OBVIOUS
<1>3. PICK m \in T : \A k \in T : ~ (<<k, m>> \in R)
  <2> HIDE DEF R
  <2>. QED
    BY <1>1, WFMin
<1>4. \A k \in T : ~ (k < m)
  BY <1>2, <1>3
<1>. QED
  BY <1>4

\* If a run is queued, the queue has a next one.
LEMMA QueueHasFirst ==
  ASSUME TypeOK, RecordThreadProcess, NEW r \in Runs, Queued(r)
  PROVE  \E q \in Runs : NextQueued(q)
<1> DEFINE T == {i \in DOMAIN jobs : Queued(jobs[i])}
<1>1. jobs \in Seq(Runs)
  BY DEF TypeOK, QueueType
<1>2. DOMAIN jobs = 1..Len(jobs) /\ Len(jobs) \in Nat /\ \A i \in DOMAIN jobs : jobs[i] \in Runs
  BY <1>1
<1>3. T \subseteq Nat /\ T # {}
  <2>1. InJobs(r)
    BY DEF RecordThreadProcess, NewIsClean, Queued
  <2>. QED
    BY <1>2, <2>1 DEF InJobs
<1>4. PICK m \in T : \A k \in T : m <= k
  <2> HIDE DEF T
  <2>. QED
    BY <1>3, LeastNatural
<1>5. m \in DOMAIN jobs /\ Queued(jobs[m]) /\ jobs[m] \in Runs
  BY <1>2
<1>6. \A k \in 1..(m - 1) : ~ Queued(jobs[k])
  <2> SUFFICES ASSUME NEW k \in 1..(m - 1), Queued(jobs[k]) PROVE FALSE
    OBVIOUS
  <2>1. k \in DOMAIN jobs /\ k \in Nat /\ m \in Nat /\ k < m
    BY <1>2, <1>5
  <2>2. k \in T
    BY <2>1
  <2>. QED
    BY <1>4, <2>1, <2>2
<1>. QED
  BY <1>5, <1>6 DEF NextQueued

\* Whenever a run waits and the server is not stopping, the request that will wake the
\* queue is in hand, or a worker is on its way to its end, where it wakes the queue.
QueueAwake ==
  (\E r \in Runs : Queued(r)) /\ ~ stopping =>
    \/ http.pc = "kick"
    \/ \E r \in Runs : worker[r] \notin {"none", "done"}

\* Nothing but the waking itself, and a restart, uses up a reason to be awake.
LEMMA StaysAwake ==
  ASSUME TypeOK, RecordThreadProcess, [Next]_vars, ~ Kick, ~ Restart, \A r \in Runs : ~ PickUpNext(r)
  PROVE  /\ http.pc = "kick" => http'.pc = "kick"
         /\ stopping => stopping'
         /\ \A r \in Runs : worker[r] \notin {"none", "done"} => worker'[r] \notin {"none", "done"}
         /\ (\E r \in Runs : Queued(r)') => (\E r \in Runs : Queued(r)) \/ http'.pc = "kick"
<1> USE DEF TypeOK, WorkerType, HttpType
<1>1. /\ http.pc = "kick" => http'.pc = "kick"
      /\ stopping => stopping'
  <2>1. CASE UNCHANGED <<httpVars, stopping>>
    BY <2>1 DEF httpVars
  <2>2. CASE ShutdownFlags
    BY <2>2 DEF ShutdownFlags, httpVars
  <2>3. ASSUME NEW q \in Runs, CancelQueued(q) \/ CancelRunning(q) \/ \E k \in Intakes : Submit(q, k)
        PROVE  http.pc # "kick" /\ stopping' = stopping
    BY <2>3 DEF CancelQueued, CancelRunning, Submit, shutVars
  <2>4. CASE PollFinds \/ PollGivesUp \/ CancelSignals \/ CancelTerminates \/ CancelAnswers
    BY <2>4 DEF PollFinds, PollGivesUp, CancelSignals, CancelTerminates, CancelAnswers, shutVars
  <2>. QED
    BY <2>1, <2>2, <2>3, <2>4, WorkersAskNothing DEF Next, Http, Exited
<1>2. ASSUME NEW r \in Runs, worker[r] \notin {"none", "done"} PROVE worker'[r] \notin {"none", "done"}
  <2>1. ASSUME NEW q \in Runs, NEW place \in Places \ {"none", "done"}, Goto(q, place)
        PROVE  worker'[r] \notin {"none", "done"}
    BY <1>2, <2>1 DEF Goto
  <2>2. ASSUME NEW q \in Runs, Worker(q) PROVE \E place \in Places \ {"none", "done"} : Goto(q, place)
    <3>1. {"outcome", "staging", "spawning", "reading", "killing", "classify", "clearing",
           "clearing_cases", "unstaging", "next"} \subseteq Places \ {"none", "done"}
      BY DEF Places, Owning
    <3>2. CASE Register(q) \/ WorkerSeesStop(q) \/ PlaceFiles(q) \/ PlanRefused(q) \/ SetupFails(q) \/ Spawn(q)
      BY <3>1, <3>2 DEF Register, WorkerSeesStop, PlaceFiles, PlanRefused, SetupFails, Spawn, Raises
    <3>3. CASE StreamEnds(q) \/ StreamFails(q) \/ ReapKilled(q) \/ Classify(q) \/ RecordOutcome(q)
      BY <3>1, <3>3 DEF StreamEnds, StreamFails, ReapKilled, Classify, RecordOutcome, Raises
    <3>4. CASE ClearContext(q) \/ ClearCases(q) \/ Unstage(q)
      BY <3>1, <3>4 DEF ClearContext, ClearCases, Unstage
    <3>. QED
      BY <2>2, <3>2, <3>3, <3>4 DEF Worker, Progress, Fault
  <2>3. CASE \E q \in Runs : Worker(q)
    BY <2>1, <2>2, <2>3
  <2>4. CASE ~ \E q \in Runs : Worker(q)
    <3>1. UNCHANGED worker
      <4>1. CASE Http \/ Shutdown \/ UNCHANGED vars
        BY <4>1 DEF Http, PollFinds, PollGivesUp, CancelSignals, CancelTerminates, CancelAnswers, Shutdown,
           ShutdownFlags, ShutdownSweeps, ShutdownTerminates, ShutdownReaps, ShutdownJoins, vars
      <4>2. ASSUME NEW q \in Runs,
                   \/ \E k \in Intakes : Submit(q, k)
                   \/ CancelQueued(q) \/ CancelRunning(q) \/ TimerFires(q) \/ ChildExits(q) \/ ChildKilled(q)
            PROVE  UNCHANGED worker
        BY <4>2 DEF Submit, CancelQueued, CancelRunning, TimerFires, ChildExits, ChildKilled, ChildEnds
      <4>. QED
        BY <2>4, <4>1, <4>2 DEF Next, Exited
    <3>. QED
      BY <1>2, <3>1
  <2>. QED
    BY <2>3, <2>4
<1>3. ASSUME NEW r \in Runs, Queued(r)', ~ Queued(r) PROVE http'.pc = "kick"
  <2> USE DEF QueueType, Queued
  <2>1. CASE Quiet \/ UNCHANGED vars
    BY <1>3, <2>1 DEF Quiet, vars, queueVars
  <2>2. ASSUME NEW q \in Runs, CancelQueued(q) \/ \E k \in Intakes : Submit(q, k) PROVE http'.pc = "kick"
    BY <2>2 DEF CancelQueued, Submit
  <2>3. ASSUME NEW q \in Runs, RecordOutcome(q) PROVE FALSE
    <3>1. job' = [job EXCEPT ![q] = Record(SettledStatus(q), found[q].exit_code, found[q].error)]
      BY <2>3 DEF RecordOutcome
    <3>2. SettledStatus(q) # "queued"
      BY StatusIsTerminal DEF SettledStatus, Terminal, Governance
    <3>. QED
      BY <1>3, <3>1, <3>2 DEF Record
  <2>4. CASE ShutdownSweeps
    BY <1>3, <2>4 DEF ShutdownSweeps, Record
  <2>. QED
    BY <2>1, <2>2, <2>3, <2>4, LoudSteps
<1>. QED
  BY <1>1, <1>2, <1>3

\* The waking starts a run, or finds that nothing is to be started.
LEMMA WakesAwake ==
  ASSUME TypeOK, RecordThreadProcess, NEW w \in [Runs -> Places], StartNextJob(w), UNCHANGED stopping,
         \A s \in Runs : w[s] = worker[s] \/ (worker[s] = "next" /\ w[s] = "done")
  PROVE  QueueAwake'
<1>1. CASE stopping
  BY <1>1 DEF QueueAwake
<1>2. ASSUME NEW r \in Runs, Running(r), worker' = w PROVE QueueAwake'
  <2>1. worker[r] \in Owning
    BY <1>2 DEF RecordThreadProcess, WorkerOwnsRun
  <2>2. worker'[r] \notin {"none", "done"}
    BY <1>2, <2>1 DEF Owning
  <2>. QED
    BY <2>2 DEF QueueAwake
<1>3. CASE (\A r \in Runs : ~ NextQueued(r)) /\ UNCHANGED job
  BY <1>3, QueueHasFirst DEF QueueAwake, Queued
<1>4. ASSUME NEW r \in Runs, worker' = [w EXCEPT ![r] = "starting"] PROVE QueueAwake'
  <2>1. worker'[r] = "starting"
    BY <1>4
  <2>. QED
    BY <2>1 DEF QueueAwake
<1>. QED
  BY <1>1, <1>2, <1>3, <1>4 DEF StartNextJob

LEMMA AwakeStep ==
  ASSUME TypeOK, RecordThreadProcess, QueueAwake, [Next]_vars
  PROVE  QueueAwake'
<1>0. worker \in [Runs -> Places]
  BY DEF TypeOK, WorkerType
<1>1. CASE Kick
  BY <1>0, <1>1, WakesAwake DEF Kick, shutVars
<1>2. ASSUME NEW r \in Runs, PickUpNext(r) PROVE QueueAwake'
  <2> DEFINE w == [worker EXCEPT ![r] = "done"]
  <2>1. /\ w \in [Runs -> Places]
        /\ \A s \in Runs : w[s] = worker[s] \/ (worker[s] = "next" /\ w[s] = "done")
    BY <1>0, <1>2 DEF PickUpNext, Places
  <2>2. StartNextJob(w) /\ UNCHANGED stopping
    BY <1>2 DEF PickUpNext, shutVars
  <2>. HIDE DEF w
  <2>. QED
    BY <2>1, <2>2, WakesAwake
<1>3. CASE Restart
  <2>1. \A r \in Runs : ~ Queued(r)'
    BY <1>3 DEF Restart, Interrupted, Record, Queued
  <2>. QED
    BY <2>1 DEF QueueAwake
<1>4. CASE ~ Kick /\ ~ Restart /\ \A r \in Runs : ~ PickUpNext(r)
  <2>1. /\ http.pc = "kick" => http'.pc = "kick"
        /\ stopping => stopping'
        /\ \A r \in Runs : worker[r] \notin {"none", "done"} => worker'[r] \notin {"none", "done"}
        /\ (\E r \in Runs : Queued(r)') => (\E r \in Runs : Queued(r)) \/ http'.pc = "kick"
    BY <1>4, StaysAwake
  <2>. QED
    BY <2>1 DEF QueueAwake
<1>. QED
  BY <1>1, <1>2, <1>3, <1>4

\* No wake-up is lost: a waiting run is never left without a request or a worker
\* that will start it, whatever cancels, faults and settles in between.  What
\* EveryRunEnds adds to it is that these do come to their ends.
THEOREM QueueAwakeHolds == Spec => []QueueAwake
<1>1. Init => QueueAwake
  BY DEF Init, QueueAwake, Queued, Record
<1>. QED
  BY <1>1, AwakeStep, TypeCorrect, RecordThreadProcessHolds, PTL DEF Spec

-----------------------------------------------------------------------------
(* What a cancel and a shutdown are owed.                                  *)

\* The places of a worker that has registered its cancel event.
Registered == Owning \ {"starting"}

\* A run has its entry in _CANCELLED from the first line of its worker to its
\* outcome block.
EventOwned == \A r \in Runs : cancelEv[r] # "none" <=> worker[r] \in Registered

\* A set event is dropped only with the record of a cancelled run, or by a restart.
Heeded(r) ==
  cancelEv[r] = "set" =>
    \/ cancelEv'[r] = "set"
    \/ worker[r] = "outcome" /\ job'[r].status = "cancelled"
    \/ Restart

LEMMA EventStep ==
  ASSUME TypeOK, RecordThreadProcess, EventOwned, [Next]_vars
  PROVE  EventOwned' /\ \A r \in Runs : Heeded(r)
<1> USE DEF TypeOK, ProcType, WorkerType, EventOwned, Registered, Heeded, Owning
<1> DEFINE Good == EventOwned' /\ \A r \in Runs : Heeded(r)
<1>1. ASSUME UNCHANGED cancelEv, \A r \in Runs : worker'[r] \in Registered <=> worker[r] \in Registered
      PROVE  Good
  BY <1>1
<1>2. ASSUME NEW r \in Runs, Register(r) PROVE Good
  BY <1>2 DEF Register, Goto
<1>3. ASSUME NEW r \in Runs, WorkerSeesStop(r) PROVE Good
  BY <1>3 DEF WorkerSeesStop, Raises, Goto
<1>4. ASSUME NEW r \in Runs, RecordOutcome(r) PROVE Good
  <2>1. EventOwned'
    BY <1>4 DEF RecordOutcome, Goto
  <2>2. cancelEv[r] = "set" => job'[r].status = "cancelled"
    BY <1>4 DEF RecordOutcome, SettledStatus, Record, QueueType
  <2>3. worker[r] = "outcome" /\ \A q \in Runs \ {r} : cancelEv'[q] = cancelEv[q]
    BY <1>4 DEF RecordOutcome
  <2>. QED
    BY <2>1, <2>2, <2>3
<1>5. ASSUME NEW r \in Runs,
             PlaceFiles(r) \/ PlanRefused(r) \/ SetupFails(r) \/ Spawn(r) \/ StreamEnds(r)
             \/ StreamFails(r) \/ ReapKilled(r) \/ Classify(r)
      PROVE  Good
  BY <1>1, <1>5 DEF PlaceFiles, PlanRefused, SetupFails, Spawn, StreamEnds, StreamFails, ReapKilled,
     Classify, Raises, Goto, procVars
<1>6. ASSUME NEW r \in Runs, ClearContext(r) \/ ClearCases(r) \/ Unstage(r) PROVE Good
  BY <1>1, <1>6 DEF ClearContext, ClearCases, Unstage, Goto, procVars
<1>7. CASE Kick \/ \E r \in Runs : PickUpNext(r)
  <2>1. UNCHANGED cancelEv
    BY <1>7, Wakes DEF procVars
  <2>2. \A r \in Runs : worker'[r] \in Registered <=> worker[r] \in Registered
    BY <1>7, Wakes
  <2>. QED
    BY <1>1, <2>1, <2>2
<1>8. CASE CancelSignals
  BY <1>8 DEF CancelSignals
<1>9. CASE ShutdownSweeps
  BY <1>9 DEF ShutdownSweeps
<1>10. CASE Restart
  BY <1>10 DEF Restart
<1>11. ASSUME NEW r \in Runs,
              \/ \E k \in Intakes : Submit(r, k)
              \/ CancelQueued(r) \/ CancelRunning(r) \/ TimerFires(r) \/ ChildExits(r) \/ ChildKilled(r)
              \/ ShutdownTerminates(r) \/ ShutdownReaps(r)
       PROVE  Good
  BY <1>1, <1>11 DEF Submit, CancelQueued, CancelRunning, TimerFires, ChildExits, ChildKilled, ChildEnds,
     ShutdownTerminates, ShutdownReaps, procVars
<1>12. CASE PollFinds \/ PollGivesUp \/ CancelTerminates \/ CancelAnswers \/ ShutdownFlags \/ ShutdownJoins
            \/ UNCHANGED vars
  BY <1>1, <1>12 DEF PollFinds, PollGivesUp, CancelTerminates, CancelAnswers, ShutdownFlags, ShutdownJoins,
     vars, procVars
<1>13. ASSUME NEW r \in Runs, Worker(r) PROVE Good
  BY <1>2, <1>3, <1>4, <1>5, <1>6, <1>7, <1>13 DEF Worker, Progress, Fault
<1>. QED
  BY <1>7, <1>8, <1>9, <1>10, <1>11, <1>12, <1>13 DEF Next, Http, Shutdown, Exited

\* The safety core of CancelTakesEffect: once a cancel has set the event of a
\* run, neither a fault nor an elapsed timeout, the end of its process or the
\* registration of another event takes it back; the outcome block drops it and
\* records "cancelled".  Only the death of the server forgets it.
CancelStands ==
  [][\A r \in Runs : cancelEv[r] = "set" =>
       \/ cancelEv'[r] = "set"
       \/ worker[r] = "outcome" /\ job'[r].status = "cancelled"
       \/ restarts' = restarts + 1]_vars

LEMMA EventOwnedHolds == Spec => []EventOwned
<1>1. Init => EventOwned
  BY DEF Init, EventOwned, Registered, Owning
<1>. QED
  BY <1>1, EventStep, TypeCorrect, RecordThreadProcessHolds, PTL DEF Spec

THEOREM CancelStandsHolds == Spec => CancelStands
<1> DEFINE Stands == \A r \in Runs : cancelEv[r] = "set" =>
                       \/ cancelEv'[r] = "set"
                       \/ worker[r] = "outcome" /\ job'[r].status = "cancelled"
                       \/ restarts' = restarts + 1
<1>1. TypeOK /\ RecordThreadProcess /\ EventOwned /\ [Next]_vars => [Stands]_vars
  <2>1. Restart => restarts' = restarts + 1
    BY DEF Restart
  <2>. QED
    BY <2>1, EventStep DEF Heeded
<1>. QED
  BY <1>1, TypeCorrect, RecordThreadProcessHolds, EventOwnedHolds, PTL DEF Spec, CancelStands

\* After the sweep of shutdown_jobs no run waits, and none will; when it has
\* returned True, no worker is left either.
ShutSwept ==
  /\ shut \in {"stopping", "ok", "failed"} => \A r \in Runs : ~ Queued(r)
  /\ shut = "ok" => \A r \in Runs : worker[r] \in {"none", "done"}

\* Once the server is stopping nothing new is queued or started.
LEMMA NothingStarts ==
  ASSUME TypeOK, RecordThreadProcess, [Next]_vars, ~ Restart, stopping
  PROVE  /\ \A r \in Runs : Queued(r)' => Queued(r)
         /\ \A r \in Runs : worker[r] \in {"none", "done"} => worker'[r] \in {"none", "done"}
<1> USE DEF TypeOK, WorkerType, QueueType
<1>1. ASSUME NEW w \in [Runs -> Places], StartNextJob(w) PROVE worker' = w /\ UNCHANGED job
  BY <1>1 DEF StartNextJob
<1>2. ASSUME NEW r \in Runs, Queued(r)' PROVE Queued(r)
  <2>1. CASE Quiet \/ UNCHANGED vars
    BY <1>2, <2>1 DEF Quiet, vars, queueVars, Queued
  <2>2. CASE Kick
    BY <1>1, <1>2, <2>2 DEF Kick, Queued
  <2>3. ASSUME NEW q \in Runs, PickUpNext(q) PROVE Queued(r)
    <3>1. [worker EXCEPT ![q] = "done"] \in [Runs -> Places]
      BY DEF Places
    <3>. QED
      BY <1>1, <1>2, <2>3, <3>1 DEF PickUpNext, Queued
  <2>4. ASSUME NEW q \in Runs, NEW k \in Intakes, Submit(q, k) PROVE FALSE
    BY <2>4 DEF Submit
  <2>5. ASSUME NEW q \in Runs, CancelQueued(q) PROVE Queued(r)
    BY <1>2, <2>5 DEF CancelQueued, Queued, Record
  <2>6. ASSUME NEW q \in Runs, RecordOutcome(q) PROVE Queued(r)
    <3>1. SettledStatus(q) # "queued"
      BY StatusIsTerminal DEF SettledStatus, Terminal, Governance
    <3>. QED
      BY <1>2, <2>6, <3>1 DEF RecordOutcome, Record, Queued
  <2>7. CASE ShutdownSweeps
    BY <1>2, <2>7 DEF ShutdownSweeps, Record, Queued
  <2>. QED
    BY <2>1, <2>2, <2>3, <2>4, <2>5, <2>6, <2>7, LoudSteps
<1>3. ASSUME NEW r \in Runs, worker[r] \in {"none", "done"} PROVE worker'[r] \in {"none", "done"}
  <2>1. CASE Kick
    BY <1>1, <1>3, <2>1 DEF Kick
  <2>2. ASSUME NEW q \in Runs, PickUpNext(q) PROVE worker'[r] \in {"none", "done"}
    <3>1. [worker EXCEPT ![q] = "done"] \in [Runs -> Places]
      BY DEF Places
    <3>. QED
      BY <1>1, <1>3, <2>2, <3>1 DEF PickUpNext
  <2>3. ASSUME NEW q \in Runs, Worker(q), ~ PickUpNext(q) PROVE q # r /\ worker'[r] = worker[r]
    <3>1. CASE Register(q) \/ WorkerSeesStop(q) \/ PlaceFiles(q) \/ PlanRefused(q) \/ SetupFails(q) \/ Spawn(q)
      BY <1>3, <3>1 DEF Register, WorkerSeesStop, PlaceFiles, PlanRefused, SetupFails, Spawn, Raises, Goto
    <3>2. CASE StreamEnds(q) \/ StreamFails(q) \/ ReapKilled(q) \/ Classify(q) \/ RecordOutcome(q)
      BY <1>3, <3>2 DEF StreamEnds, StreamFails, ReapKilled, Classify, RecordOutcome, Raises, Goto
    <3>3. CASE ClearContext(q) \/ ClearCases(q) \/ Unstage(q)
      BY <1>3, <3>3 DEF ClearContext, ClearCases, Unstage, Goto
    <3>. QED
      BY <2>3, <3>1, <3>2, <3>3 DEF Worker, Progress, Fault
  <2>4. CASE UNCHANGED worker
    BY <1>3, <2>4
  <2>5. CASE ~ Kick /\ (Http \/ Shutdown \/ UNCHANGED vars)
    BY <2>4, <2>5 DEF Http, PollFinds, PollGivesUp, CancelSignals, CancelTerminates, CancelAnswers, Shutdown,
       ShutdownFlags, ShutdownSweeps, ShutdownTerminates, ShutdownReaps, ShutdownJoins, vars
  <2>6. ASSUME NEW q \in Runs,
               \/ \E k \in Intakes : Submit(q, k)
               \/ CancelQueued(q) \/ CancelRunning(q) \/ TimerFires(q) \/ ChildExits(q) \/ ChildKilled(q)
        PROVE  UNCHANGED worker
    BY <2>6 DEF Submit, CancelQueued, CancelRunning, TimerFires, ChildExits, ChildKilled, ChildEnds
  <2>. QED
    BY <1>3, <2>1, <2>2, <2>3, <2>4, <2>5, <2>6 DEF Next, Exited
<1>. QED
  BY <1>2, <1>3

\* The steps of shutdown_jobs move it on; no other step but a restart does.
LEMMA ShutMoves ==
  ASSUME [Next]_vars, ~ Restart
  PROVE  \/ shut' = shut
         \/ ShutdownFlags /\ shut' = "flagged"
         \/ ShutdownSweeps /\ shut' = "stopping"
         \/ ShutdownJoins
<1>1. CASE Http \/ UNCHANGED vars
  BY <1>1 DEF Http, Kick, PollFinds, PollGivesUp, CancelSignals, CancelTerminates, CancelAnswers, vars, shutVars
<1>2. ASSUME NEW r \in Runs,
             \/ \E k \in Intakes : Submit(r, k)
             \/ CancelQueued(r) \/ CancelRunning(r) \/ TimerFires(r) \/ ChildExits(r) \/ ChildKilled(r)
             \/ ShutdownTerminates(r) \/ ShutdownReaps(r)
      PROVE  shut' = shut
  BY <1>2 DEF Submit, CancelQueued, CancelRunning, TimerFires, ChildExits, ChildKilled, ChildEnds,
     ShutdownTerminates, ShutdownReaps, shutVars
<1>3. ASSUME NEW r \in Runs, Worker(r) PROVE shut' = shut
  BY <1>3 DEF Worker, Progress, Fault, Register, WorkerSeesStop, PlaceFiles, PlanRefused, SetupFails, Spawn,
     StreamEnds, StreamFails, ReapKilled, Classify, RecordOutcome, ClearContext, ClearCases, Unstage,
     PickUpNext, shutVars
<1>4. CASE ShutdownFlags \/ ShutdownSweeps \/ ShutdownJoins
  BY <1>4 DEF ShutdownFlags, ShutdownSweeps
<1>. QED
  BY <1>1, <1>2, <1>3, <1>4 DEF Next, Shutdown, Exited

LEMMA SweptStep ==
  ASSUME TypeOK, RecordThreadProcess, CancelsAreAsked, ShutSwept, [Next]_vars
  PROVE  ShutSwept'
<1>1. CASE Restart
  BY <1>1 DEF Restart, ShutSwept
<1>2. CASE ~ Restart /\ shut' = shut
  <2>1. shut # "up" => stopping
    BY DEF CancelsAreAsked
  <2>2. shut # "up" => /\ \A r \in Runs : Queued(r)' => Queued(r)
                       /\ \A r \in Runs : worker[r] \in {"none", "done"} => worker'[r] \in {"none", "done"}
    BY <1>2, <2>1, NothingStarts
  <2>. QED
    BY <1>2, <2>2 DEF ShutSwept
<1>3. CASE ~ Restart /\ ShutdownFlags /\ shut' = "flagged"
  BY <1>3 DEF ShutSwept
<1>4. CASE ShutdownSweeps /\ shut' = "stopping"
  <2>1. \A r \in Runs : ~ Queued(r)'
    BY <1>4 DEF ShutdownSweeps, Queued, Record
  <2>. QED
    BY <1>4, <2>1 DEF ShutSwept
<1>5. CASE ShutdownJoins
  <2>1. /\ shut = "stopping" /\ UNCHANGED <<job, worker>>
        /\ shut' = "ok" => \A r \in Runs : worker[r] \in {"none", "done"}
    BY <1>5 DEF ShutdownJoins, queueVars
  <2>. QED
    BY <2>1 DEF ShutSwept, Queued
<1>. QED
  BY <1>1, <1>2, <1>3, <1>4, <1>5, ShutMoves

\* When shutdown_jobs has returned True, nothing waits, nothing runs and no
\* worker is left that could place files or start a process: what requests,
\* cancels and workers were in flight when it was called.
ShutdownComplete ==
  shut = "ok" => \A r \in Runs : ~ Queued(r) /\ ~ Running(r) /\ ~ Owned(r) /\ worker[r] \in {"none", "done"}

THEOREM ShutdownCompleteHolds == Spec => []ShutdownComplete
<1>1. Init => CancelsAreAsked /\ ShutSwept
  BY DEF Init, CancelsAreAsked, ShutSwept
<1>2. TypeOK /\ RecordThreadProcess /\ CancelsAreAsked /\ ShutSwept /\ [Next]_vars
        => CancelsAreAsked' /\ ShutSwept'
  BY AskedStep, SweptStep
<1>3. RecordThreadProcess /\ ShutSwept => ShutdownComplete
  BY DEF RecordThreadProcess, WorkerOwnsRun, ProcessHeld, ShutSwept, ShutdownComplete, Owning, Holding
<1>. QED
  BY <1>1, <1>2, <1>3, TypeCorrect, RecordThreadProcessHolds, PTL DEF Spec
=============================================================================
