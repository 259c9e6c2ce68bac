-------------------------- MODULE JobQueue_proofs --------------------------
(* Proofs about JobQueue, for every value of its constants.                *)
EXTENDS JobQueue, TLAPS

-----------------------------------------------------------------------------
(* The operators the steps are built from.                                 *)

\* Every exit code is reported as an end of the run.
LEMMA StatusIsTerminal == \A c : StatusForExitCode(c) \in Terminal
BY DEF StatusForExitCode, Terminal, Governance

\* A status write keeps what is on disk a record of each run.
LEMMA WriteStatusType ==
  ASSUME NEW changed, disk \in [Runs -> Records], job' \in [Runs -> Records],
         WriteStatus(changed)
  PROVE  disk' \in [Runs -> Records]
BY DEF WriteStatus

\* Without lost writes, what changed is what is written.
LEMMA WriteStatusCurrent ==
  ASSUME NEW changed \in SUBSET Runs, disk \in [Runs -> Records],
         job \in [Runs -> Records], job' \in [Runs -> Records],
         ~ DiskMayFail, disk = job, WriteStatus(changed),
         \A r \in Runs \ changed : job'[r] = job[r]
  PROVE  disk' = job'
<1>1. disk' = [r \in Runs |-> IF r \in changed THEN job'[r] ELSE disk[r]]
  BY DEF WriteStatus
<1>2. \A r \in Runs : disk'[r] = job'[r]
  BY <1>1
<1>3. QED
  BY <1>1, <1>2

\* Waking the queue keeps the records and the workers well-typed.
LEMMA StartNextJobType ==
  ASSUME NEW w \in [Runs -> Places], TypeOK, StartNextJob(w)
  PROVE  /\ job' \in [Runs -> Records]
         /\ disk' \in [Runs -> Records]
         /\ worker' \in [Runs -> Places]
<1>0. job \in [Runs -> Records] /\ disk \in [Runs -> Records]
  BY DEF TypeOK, QueueType
<1>1. CASE worker' = w /\ UNCHANGED <<job, disk>>
  BY <1>0, <1>1
<1>2. ASSUME NEW r \in Runs,
             job' = [job EXCEPT ![r].status = "running"],
             WriteStatus({r}),
             worker' = [w EXCEPT ![r] = "starting"]
      PROVE  /\ job' \in [Runs -> Records]
             /\ disk' \in [Runs -> Records]
             /\ worker' \in [Runs -> Places]
  <2>1. job' \in [Runs -> Records]
    BY <1>0, <1>2 DEF Records, Statuses
  <2>2. disk' \in [Runs -> Records]
    BY <1>0, <1>2, <2>1, WriteStatusType
  <2>3. worker' \in [Runs -> Places]
    BY <1>2 DEF Places, Owning
  <2>4. QED
    BY <2>1, <2>2, <2>3
<1>3. QED
  BY <1>1, <1>2 DEF StartNextJob

-----------------------------------------------------------------------------
(* Type correctness.                                                       *)

LEMMA InitType == Init => TypeOK
<1> SUFFICES ASSUME Init PROVE TypeOK
  OBVIOUS
<1>1. job \in [Runs -> Records] /\ disk \in [Runs -> Records]
  BY DEF Init, Record, Records, Statuses, Errors, Codes
<1>2. jobs \in Seq(Runs)
  BY DEF Init
<1>3. QueueType
  BY <1>1, <1>2 DEF Init, QueueType
<1>4. ProcType
  BY DEF Init, ProcType, Codes
<1>5. WorkerType
  BY QueueAssumption DEF Init, WorkerType, Places, Errors, Codes
<1>6. ContextType
  BY DEF Init, ContextType
<1>7. HttpType
  BY QueueAssumption DEF Init, HttpType, Idle
<1>8. ShutType
  <2>1. restarts \in 0..MaxRestarts
    BY QueueAssumption DEF Init
  <2>. QED
    BY <2>1 DEF Init, ShutType
<1>. QED
  BY <1>3, <1>4, <1>5, <1>6, <1>7, <1>8 DEF TypeOK

\* What a step leaves alone keeps its type.
LEMMA Unchanged ==
  ASSUME TypeOK
  PROVE  /\ UNCHANGED queueVars => QueueType'
         /\ UNCHANGED procVars => ProcType'
         /\ UNCHANGED <<worker, found, faults>> => WorkerType'
         /\ UNCHANGED ctxVars => ContextType'
         /\ UNCHANGED httpVars => HttpType'
         /\ UNCHANGED <<shutVars, restarts>> => ShutType'
<1>1. UNCHANGED queueVars => QueueType'
  BY DEF TypeOK, QueueType, queueVars
<1>2. UNCHANGED procVars => ProcType'
  BY DEF TypeOK, ProcType, procVars
<1>3. UNCHANGED <<worker, found, faults>> => WorkerType'
  BY DEF TypeOK, WorkerType
<1>4. UNCHANGED ctxVars => ContextType'
  BY DEF TypeOK, ContextType, ctxVars
<1>5. UNCHANGED httpVars => HttpType'
  BY DEF TypeOK, HttpType, httpVars
<1>6. UNCHANGED <<shutVars, restarts>> => ShutType'
  BY DEF TypeOK, ShutType, shutVars
<1>. QED
  BY <1>1, <1>2, <1>3, <1>4, <1>5, <1>6

LEMMA TypeStep == ASSUME TypeOK, Next PROVE TypeOK'
<1>1. ASSUME NEW r \in Runs, NEW k \in Intakes, Submit(r, k) PROVE TypeOK'
  <2>1. QueueType'
    <3>1. job' \in [Runs -> Records]
      BY <1>1 DEF Submit, TypeOK, QueueType, Record, Records, Statuses, Terminal, Governance, Errors, Codes, NoCode
    <3>2. disk' \in [Runs -> Records]
      BY <1>1, <3>1, WriteStatusType DEF Submit, TypeOK, QueueType
    <3>3. jobs' \in Seq(Runs) /\ intake' \in [Runs -> {"native", "bundle"}]
      BY <1>1, QueueAssumption DEF Submit, TypeOK, QueueType
    <3>. QED
      BY <1>1, <3>1, <3>2, <3>3 DEF Submit, TypeOK, QueueType
  <2>2. HttpType'
    BY <1>1, QueueAssumption DEF Submit, TypeOK, HttpType
  <2>. QED
    BY <2>1, <2>2, <1>1, Unchanged DEF TypeOK, Submit
<1>2. ASSUME NEW r \in Runs, CancelQueued(r) PROVE TypeOK'
  <2>1. QueueType'
    <3>1. job' \in [Runs -> Records]
      BY <1>2 DEF CancelQueued, TypeOK, QueueType, Record, Records, Statuses, Terminal, Governance, Errors, Codes, NoCode
    <3>2. disk' \in [Runs -> Records]
      BY <1>2, <3>1, WriteStatusType DEF CancelQueued, TypeOK, QueueType
    <3>. QED
      BY <1>2, <3>1, <3>2 DEF CancelQueued, TypeOK, QueueType
  <2>2. HttpType'
    BY <1>2, QueueAssumption DEF CancelQueued, TypeOK, HttpType
  <2>. QED
    BY <2>1, <2>2, <1>2, Unchanged DEF TypeOK, CancelQueued
<1>3. ASSUME NEW r \in Runs, CancelRunning(r) PROVE TypeOK'
  <2>1. HttpType'
    BY <1>3, QueueAssumption DEF CancelRunning, TypeOK, HttpType
  <2>. QED
    BY <2>1, <1>3, Unchanged DEF TypeOK, CancelRunning
<1>4. CASE Kick
  <2>1. /\ job' \in [Runs -> Records]
        /\ disk' \in [Runs -> Records]
        /\ worker' \in [Runs -> Places]
    <3>1. worker \in [Runs -> Places]
      BY DEF TypeOK, WorkerType, Places
    <3>. QED
      BY <1>4, <3>1, StartNextJobType DEF Kick
  <2>0. QueueType'
    BY <1>4, <2>1 DEF Kick, TypeOK, QueueType
  <2>2. WorkerType'
    BY <1>4, <2>1 DEF Kick, TypeOK, WorkerType
  <2>3. HttpType'
    BY <1>4, QueueAssumption DEF Kick, TypeOK, HttpType, Idle
  <2>. QED
    BY <2>0, <2>2, <2>3, <1>4, Unchanged DEF TypeOK, Kick
<1>5. CASE PollFinds
  <2>1. HttpType'
    BY <1>5, QueueAssumption DEF PollFinds, TypeOK, HttpType
  <2>. QED
    BY <2>1, <1>5, Unchanged DEF TypeOK, PollFinds
<1>6. CASE PollGivesUp
  <2>1. HttpType'
    BY <1>6, QueueAssumption DEF PollGivesUp, TypeOK, HttpType, Idle
  <2>. QED
    BY <2>1, <1>6, Unchanged DEF TypeOK, PollGivesUp
<1>7. CASE CancelSignals
  <2>1. ProcType'
    BY <1>7 DEF CancelSignals, TypeOK, ProcType
  <2>2. HttpType'
    BY <1>7, QueueAssumption DEF CancelSignals, TypeOK, HttpType
  <2>. QED
    BY <2>1, <2>2, <1>7, Unchanged DEF TypeOK, CancelSignals
<1>8. CASE CancelTerminates
  <2>1. ProcType'
    BY <1>8 DEF CancelTerminates, TypeOK, ProcType, Terminate
  <2>2. HttpType'
    BY <1>8, QueueAssumption DEF CancelTerminates, TypeOK, HttpType
  <2>. QED
    BY <2>1, <2>2, <1>8, Unchanged DEF TypeOK, CancelTerminates
<1>9. CASE CancelAnswers
  <2>1. HttpType'
    BY <1>9, QueueAssumption DEF CancelAnswers, TypeOK, HttpType, Idle
  <2>. QED
    BY <2>1, <1>9, Unchanged DEF TypeOK, CancelAnswers
<1>10. ASSUME NEW r \in Runs, Register(r) PROVE TypeOK'
  <2>1. ProcType'
    BY <1>10 DEF Register, TypeOK, ProcType
  <2>2. WorkerType'
    BY <1>10, QueueAssumption DEF Register, TypeOK, WorkerType, Goto, Places, Owning
  <2>. QED
    BY <2>1, <2>2, <1>10, Unchanged DEF TypeOK, Register
<1>11. ASSUME NEW r \in Runs, WorkerSeesStop(r) PROVE TypeOK'
  <2>1. ProcType'
    BY <1>11 DEF WorkerSeesStop, TypeOK, ProcType
  <2>2. WorkerType'
    BY <1>11, QueueAssumption DEF WorkerSeesStop, TypeOK, WorkerType, Goto, Places, Owning, Finds, Errors, Codes, NoCode, Raises
  <2>. QED
    BY <2>1, <2>2, <1>11, Unchanged DEF TypeOK, WorkerSeesStop
<1>12. ASSUME NEW r \in Runs, PlaceFiles(r) PROVE TypeOK'
  <2>1. WorkerType'
    BY <1>12, QueueAssumption DEF PlaceFiles, TypeOK, WorkerType, Goto, Places, Owning
  <2>2. ContextType'
    BY <1>12 DEF PlaceFiles, TypeOK, ContextType
  <2>. QED
    BY <2>1, <2>2, <1>12, Unchanged DEF TypeOK, PlaceFiles
<1>13. ASSUME NEW r \in Runs, SetupFails(r) PROVE TypeOK'
  <2>1. WorkerType'
    BY <1>13, QueueAssumption DEF SetupFails, TypeOK, WorkerType, Goto, Places, Owning, Finds, Errors, Codes, NoCode, Raises
  <2>. QED
    BY <2>1, <1>13, Unchanged DEF TypeOK, SetupFails
<1>37. ASSUME NEW r \in Runs, PlanRefused(r) PROVE TypeOK'
  <2>1. WorkerType'
    BY <1>37, QueueAssumption DEF PlanRefused, TypeOK, WorkerType, Goto, Places, Owning, Finds, Errors, Codes, NoCode, Raises
  <2>. QED
    BY <2>1, <1>37, Unchanged DEF TypeOK, PlanRefused
<1>14. ASSUME NEW r \in Runs, Spawn(r) PROVE TypeOK'
  <2>1. ProcType'
    BY <1>14 DEF Spawn, TypeOK, ProcType
  <2>2. WorkerType'
    BY <1>14, QueueAssumption DEF Spawn, TypeOK, WorkerType, Goto, Places, Owning
  <2>. QED
    BY <2>1, <2>2, <1>14, Unchanged DEF TypeOK, Spawn
<1>15. ASSUME NEW r \in Runs, StreamEnds(r) PROVE TypeOK'
  <2>1. ProcType'
    BY <1>15 DEF StreamEnds, TypeOK, ProcType, StopTimer
  <2>2. WorkerType'
    BY <1>15, QueueAssumption DEF StreamEnds, TypeOK, WorkerType, Goto, Places, Owning
  <2>. QED
    BY <2>1, <2>2, <1>15, Unchanged DEF TypeOK, StreamEnds
<1>16. ASSUME NEW r \in Runs, StreamFails(r) PROVE TypeOK'
  <2>1. ProcType'
    BY <1>16 DEF StreamFails, TypeOK, ProcType, Terminate, StopTimer
  <2>2. WorkerType'
    BY <1>16, QueueAssumption DEF StreamFails, TypeOK, WorkerType, Goto, Places, Owning
  <2>. QED
    BY <2>1, <2>2, <1>16, Unchanged DEF TypeOK, StreamFails
<1>17. ASSUME NEW r \in Runs, ReapKilled(r) PROVE TypeOK'
  <2>1. ProcType'
    BY <1>17 DEF ReapKilled, TypeOK, ProcType
  <2>2. WorkerType'
    BY <1>17, QueueAssumption DEF ReapKilled, TypeOK, WorkerType, Goto, Places, Owning, Finds, Errors, Codes, NoCode, Raises
  <2>. QED
    BY <2>1, <2>2, <1>17, Unchanged DEF TypeOK, ReapKilled
<1>18. ASSUME NEW r \in Runs, Classify(r) PROVE TypeOK'
  <2>1. WorkerType'
    BY <1>18, QueueAssumption DEF Classify, TypeOK, ProcType, WorkerType, Goto, Places, Owning, Finds, Errors, Codes, NoCode
  <2>. QED
    BY <2>1, <1>18, Unchanged DEF TypeOK, Classify
<1>19. ASSUME NEW r \in Runs, RecordOutcome(r) PROVE TypeOK'
  <2>1. QueueType'
    <3>1. job' \in [Runs -> Records]
      BY <1>19, StatusIsTerminal DEF RecordOutcome, TypeOK, QueueType, Record, Records, Statuses, Terminal, Governance, Errors, Codes, NoCode, SettledStatus, WorkerType
    <3>2. disk' \in [Runs -> Records]
      BY <1>19, <3>1, WriteStatusType DEF RecordOutcome, TypeOK, QueueType
    <3>. QED
      BY <1>19, <3>1, <3>2 DEF RecordOutcome, TypeOK, QueueType
  <2>2. ProcType'
    BY <1>19 DEF RecordOutcome, TypeOK, ProcType
  <2>3. WorkerType'
    BY <1>19, QueueAssumption DEF RecordOutcome, TypeOK, WorkerType, Goto, Places, Owning, Finds, Errors, Codes, NoCode
  <2>. QED
    BY <2>1, <2>2, <2>3, <1>19, Unchanged DEF TypeOK, RecordOutcome
<1>20. ASSUME NEW r \in Runs, ClearContext(r) PROVE TypeOK'
  <2>1. WorkerType'
    BY <1>20, QueueAssumption DEF ClearContext, TypeOK, WorkerType, Goto, Places, Owning
  <2>2. ContextType'
    BY <1>20 DEF ClearContext, TypeOK, ContextType, AutoClear
  <2>. QED
    BY <2>1, <2>2, <1>20, Unchanged DEF TypeOK, ClearContext
<1>21. ASSUME NEW r \in Runs, ClearCases(r) PROVE TypeOK'
  <2>1. WorkerType'
    BY <1>21, QueueAssumption DEF ClearCases, TypeOK, WorkerType, Goto, Places, Owning
  <2>2. ContextType'
    BY <1>21 DEF ClearCases, TypeOK, ContextType
  <2>. QED
    BY <2>1, <2>2, <1>21, Unchanged DEF TypeOK, ClearCases
<1>22. ASSUME NEW r \in Runs, Unstage(r) PROVE TypeOK'
  <2>1. QueueType'
    BY <1>22 DEF Unstage, TypeOK, QueueType
  <2>2. WorkerType'
    BY <1>22, QueueAssumption DEF Unstage, TypeOK, WorkerType, Goto, Places, Owning
  <2>. QED
    BY <2>1, <2>2, <1>22, Unchanged DEF TypeOK, Unstage
<1>23. ASSUME NEW r \in Runs, PickUpNext(r) PROVE TypeOK'
  <2>1. /\ job' \in [Runs -> Records]
        /\ disk' \in [Runs -> Records]
        /\ worker' \in [Runs -> Places]
    <3>1. [worker EXCEPT ![r] = "done"] \in [Runs -> Places]
      BY DEF TypeOK, WorkerType, Places
    <3>. QED
      BY <1>23, <3>1, StartNextJobType DEF PickUpNext
  <2>0. QueueType'
    BY <1>23, <2>1 DEF PickUpNext, TypeOK, QueueType
  <2>2. WorkerType'
    BY <1>23, <2>1 DEF PickUpNext, TypeOK, WorkerType
  <2>. QED
    BY <2>0, <2>2, <1>23, Unchanged DEF TypeOK, PickUpNext
<1>24. ASSUME NEW r \in Runs, TimerFires(r) PROVE TypeOK'
  <2>1. ProcType'
    BY <1>24 DEF TimerFires, TypeOK, ProcType, Terminate
  <2>. QED
    BY <2>1, <1>24, Unchanged DEF TypeOK, TimerFires
<1>25. ASSUME NEW r \in Runs, NEW c \in Codes, ChildEnds(r, c) PROVE TypeOK'
  <2>1. ProcType'
    BY <1>25 DEF ChildEnds, TypeOK, ProcType
  <2>. QED
    BY <2>1, <1>25, Unchanged DEF TypeOK, ChildEnds
<1>26. CASE ShutdownFlags
  <2>1. ShutType'
    BY <1>26, QueueAssumption DEF ShutdownFlags, TypeOK, ShutType
  <2>. QED
    BY <2>1, <1>26, Unchanged DEF TypeOK, ShutdownFlags
<1>27. CASE ShutdownSweeps
  <2>1. QueueType'
    <3>1. job' \in [Runs -> Records]
      BY <1>27 DEF ShutdownSweeps, TypeOK, QueueType, Record, Records, Statuses, Terminal, Governance, Errors, Codes, NoCode, Queued
    <3>2. disk' \in [Runs -> Records]
      BY <1>27, <3>1, WriteStatusType DEF ShutdownSweeps, TypeOK, QueueType
    <3>. QED
      BY <1>27, <3>1, <3>2 DEF ShutdownSweeps, TypeOK, QueueType
  <2>2. ProcType'
    BY <1>27 DEF ShutdownSweeps, TypeOK, ProcType
  <2>3. ShutType'
    BY <1>27 DEF ShutdownSweeps, TypeOK, ProcType, ShutType
  <2>. QED
    BY <2>1, <2>2, <2>3, <1>27, Unchanged DEF TypeOK, ShutdownSweeps
<1>28. ASSUME NEW r \in Runs, ShutdownTerminates(r) PROVE TypeOK'
  <2>1. ProcType'
    BY <1>28 DEF ShutdownTerminates, TypeOK, ProcType, Terminate
  <2>. QED
    BY <2>1, <1>28, Unchanged DEF TypeOK, ShutdownTerminates
<1>29. ASSUME NEW r \in Runs, ShutdownReaps(r) PROVE TypeOK'
  <2>1. ShutType'
    BY <1>29, QueueAssumption DEF ShutdownReaps, TypeOK, ShutType
  <2>. QED
    BY <2>1, <1>29, Unchanged DEF TypeOK, ShutdownReaps
<1>30. CASE ShutdownJoins
  <2>1. ShutType'
    BY <1>30, QueueAssumption DEF ShutdownJoins, TypeOK, ShutType
  <2>. QED
    BY <2>1, <1>30, Unchanged DEF TypeOK, ShutdownJoins
<1>31. CASE Restart
  <2>1. QueueType'
    <3>1. job' \in [Runs -> Records]
      BY <1>31 DEF Restart, TypeOK, QueueType, Record, Records, Statuses, Terminal, Governance, Errors, Codes, NoCode, Interrupted
    <3>2. disk' \in [Runs -> Records]
      BY <1>31, <3>1, WriteStatusType DEF Restart, TypeOK, QueueType
    <3>. QED
      BY <1>31, <3>1, <3>2 DEF Restart, TypeOK, QueueType
  <2>2. ProcType'
    BY <1>31 DEF Restart, TypeOK, ProcType
  <2>3. WorkerType'
    BY <1>31, QueueAssumption DEF Restart, TypeOK, WorkerType, Places, Errors, Codes, NoCode
  <2>4. ContextType'
    BY <1>31 DEF Restart, TypeOK, ContextType, AutoClear, ctxVars
  <2>5. HttpType'
    BY <1>31, QueueAssumption DEF Restart, TypeOK, HttpType, Idle
  <2>6. ShutType'
    <3>1. restarts' \in 0..MaxRestarts
      BY <1>31, QueueAssumption DEF Restart, TypeOK, ShutType
    <3>. QED
      BY <1>31, <3>1 DEF Restart, ShutType
  <2>. QED
    BY <2>1, <2>2, <2>3, <2>4, <2>5, <2>6, <1>31, Unchanged DEF TypeOK, Restart
<1>32. ASSUME Exited PROVE TypeOK'
  BY <1>32, Unchanged DEF Exited, vars, TypeOK
<1>33. ASSUME NEW r \in Runs, ChildExits(r) \/ ChildKilled(r) PROVE TypeOK'
  BY <1>33, <1>25 DEF ChildExits, ChildKilled, Codes
<1>34. ASSUME NEW r \in Runs, Worker(r) PROVE TypeOK'
  BY <1>34, <1>37, <1>10, <1>11, <1>12, <1>13, <1>14, <1>15, <1>16, <1>17, <1>18, <1>19, <1>20, <1>21,
     <1>22, <1>23 DEF Worker, Progress, Fault
<1>35. ASSUME Http PROVE TypeOK'
  BY <1>35, <1>4, <1>5, <1>6, <1>7, <1>8, <1>9 DEF Http
<1>36. ASSUME Shutdown PROVE TypeOK'
  BY <1>36, <1>26, <1>27, <1>28, <1>29, <1>30 DEF Shutdown
<1>. QED
  BY <1>1, <1>2, <1>3, <1>24, <1>31, <1>32, <1>33, <1>34, <1>35, <1>36 DEF Next

\* The state of the server, its threads, its processes and its disk stays
\* well-typed: every status written is one the code knows.
THEOREM TypeCorrect == Spec => []TypeOK
<1>1. TypeOK /\ UNCHANGED vars => TypeOK'
  BY Unchanged DEF vars, TypeOK
<1>2. TypeOK /\ [Next]_vars => TypeOK'
  BY <1>1, TypeStep
<1>. QED
  BY <1>2, InitType, PTL DEF Spec

-----------------------------------------------------------------------------
(* The inductive invariant RecordThreadProcess.                            *)

\* A step that starts and settles no run: no worker begins or ends owning its
\* run, and a process is there only where a worker holds it.
Quiet ==
  /\ UNCHANGED <<jobs, job, disk>>
  /\ \A s \in Runs :
       /\ worker'[s] \in Owning <=> worker[s] \in Owning
       /\ worker[s] = "none" => worker'[s] = "none"
       /\ worker[s] \notin Owning /\ child[s] = "none" => child'[s] = "none"
       /\ child'[s] \in Live /\ worker'[s] # "none" => worker'[s] \in Holding

LEMMA QuietStep ==
  ASSUME RecordThreadProcess, Quiet
  PROVE  RecordThreadProcess'
<1>1. ("none" \notin Owning) /\ Holding \subseteq Owning
  BY DEF Owning, Holding
<1>2. NewIsClean' /\ QueuedIsClean'
  BY <1>1 DEF RecordThreadProcess, NewIsClean, QueuedIsClean, Quiet, InJobs, Queued
<1>3. SingleRunning' /\ WorkerOwnsRun'
  BY DEF RecordThreadProcess, SingleRunning, WorkerOwnsRun, Quiet, Running
<1>4. ProcessHeld' /\ DiskCurrent'
  BY DEF RecordThreadProcess, ProcessHeld, DiskCurrent, Quiet, Owned
<1>. QED
  BY <1>2, <1>3, <1>4 DEF RecordThreadProcess

LEMMA QuietSteps ==
  ASSUME TypeOK, RecordThreadProcess
  PROVE  /\ Http /\ ~ Kick => Quiet
         /\ Shutdown /\ ~ ShutdownSweeps => Quiet
         /\ \A r \in Runs :
              /\ CancelRunning(r) \/ TimerFires(r) \/ ChildExits(r) \/ ChildKilled(r) => Quiet
              /\ Worker(r) /\ ~ RecordOutcome(r) /\ ~ PickUpNext(r) => Quiet
<1> USE DEF TypeOK, ProcType, WorkerType, RecordThreadProcess, ProcessHeld, Owned, Owning, Holding, Live
<1>1. ASSUME NEW r \in Runs, CancelRunning(r) PROVE Quiet
  BY <1>1 DEF CancelRunning, queueVars, procVars, Quiet
<1>2. ASSUME PollFinds PROVE Quiet
  BY <1>2 DEF PollFinds, queueVars, procVars, Quiet
<1>3. ASSUME PollGivesUp PROVE Quiet
  BY <1>3 DEF PollGivesUp, queueVars, procVars, Quiet
<1>4. ASSUME CancelSignals PROVE Quiet
  BY <1>4 DEF CancelSignals, queueVars, Quiet
<1>5. ASSUME CancelTerminates PROVE Quiet
  BY <1>5 DEF CancelTerminates, Terminate, queueVars, Quiet
<1>6. ASSUME CancelAnswers PROVE Quiet
  BY <1>6 DEF CancelAnswers, queueVars, procVars, Quiet
<1>7. ASSUME NEW r \in Runs, Register(r) PROVE Quiet
  BY <1>7 DEF Register, Goto, queueVars, Quiet
<1>8. ASSUME NEW r \in Runs, WorkerSeesStop(r) PROVE Quiet
  BY <1>8 DEF WorkerSeesStop, Raises, Goto, queueVars, Quiet
<1>9. ASSUME NEW r \in Runs, PlaceFiles(r) PROVE Quiet
  BY <1>9 DEF PlaceFiles, Goto, queueVars, procVars, Quiet
<1>10. ASSUME NEW r \in Runs, SetupFails(r) PROVE Quiet
  BY <1>10 DEF SetupFails, Raises, Goto, queueVars, procVars, Quiet
<1>29. ASSUME NEW r \in Runs, PlanRefused(r) PROVE Quiet
  BY <1>29 DEF PlanRefused, Raises, Goto, queueVars, procVars, Quiet
<1>11. ASSUME NEW r \in Runs, Spawn(r) PROVE Quiet
  BY <1>11 DEF Spawn, Goto, queueVars, Quiet
<1>12. ASSUME NEW r \in Runs, StreamEnds(r) PROVE Quiet
  BY <1>12 DEF StreamEnds, Goto, queueVars, Quiet
<1>13. ASSUME NEW r \in Runs, StreamFails(r) PROVE Quiet
  BY <1>13 DEF StreamFails, Terminate, Goto, queueVars, Quiet
<1>14. ASSUME NEW r \in Runs, ReapKilled(r) PROVE Quiet
  BY <1>14 DEF ReapKilled, Raises, Goto, queueVars, Quiet
<1>15. ASSUME NEW r \in Runs, Classify(r) PROVE Quiet
  BY <1>15 DEF Classify, Goto, queueVars, procVars, Quiet
<1>16. ASSUME NEW r \in Runs, ClearContext(r) PROVE Quiet
  BY <1>16 DEF ClearContext, Goto, queueVars, procVars, Quiet
<1>17. ASSUME NEW r \in Runs, ClearCases(r) PROVE Quiet
  BY <1>17 DEF ClearCases, Goto, queueVars, procVars, Quiet
<1>18. ASSUME NEW r \in Runs, Unstage(r) PROVE Quiet
  BY <1>18 DEF Unstage, Goto, procVars, Quiet
<1>19. ASSUME NEW r \in Runs, TimerFires(r) PROVE Quiet
  BY <1>19 DEF TimerFires, Terminate, queueVars, Quiet
<1>20. ASSUME NEW r \in Runs, NEW c \in Codes, ChildEnds(r, c) PROVE Quiet
  BY <1>20 DEF ChildEnds, queueVars, Quiet
<1>21. ASSUME ShutdownFlags PROVE Quiet
  BY <1>21 DEF ShutdownFlags, queueVars, procVars, Quiet
<1>22. ASSUME NEW r \in Runs, ShutdownTerminates(r) PROVE Quiet
  BY <1>22 DEF ShutdownTerminates, Terminate, queueVars, Quiet
<1>23. ASSUME NEW r \in Runs, ShutdownReaps(r) PROVE Quiet
  BY <1>23 DEF ShutdownReaps, queueVars, procVars, Quiet
<1>24. ASSUME ShutdownJoins PROVE Quiet
  BY <1>24 DEF ShutdownJoins, queueVars, procVars, Quiet
<1>25. ASSUME NEW r \in Runs, ChildExits(r) \/ ChildKilled(r) PROVE Quiet
  BY <1>25, <1>20 DEF ChildExits, ChildKilled, Codes
<1>26. Http /\ ~ Kick => Quiet
  BY <1>2, <1>3, <1>4, <1>5, <1>6 DEF Http
<1>27. Shutdown /\ ~ ShutdownSweeps => Quiet
  BY <1>21, <1>22, <1>23, <1>24 DEF Shutdown
<1>28. ASSUME NEW r \in Runs, Worker(r), ~ RecordOutcome(r), ~ PickUpNext(r) PROVE Quiet
  BY <1>28, <1>29, <1>7, <1>8, <1>9, <1>10, <1>11, <1>12, <1>13, <1>14, <1>15, <1>16, <1>17, <1>18
     DEF Worker, Progress, Fault
<1>. QED
  BY <1>1, <1>19, <1>25, <1>26, <1>27, <1>28

\* Waking the queue starts the only running job, with nothing left of it.
LEMMA StartNextJobStep ==
  ASSUME TypeOK, TypeOK', RecordThreadProcess, NEW w \in [Runs -> Places],
         \A s \in Runs : w[s] = worker[s] \/ (worker[s] = "next" /\ w[s] = "done"),
         StartNextJob(w), UNCHANGED <<jobs, child>>
  PROVE  RecordThreadProcess'
<1> USE DEF RecordThreadProcess
<1>1. CASE worker' = w /\ UNCHANGED <<job, disk>>
  <2>1. Quiet
    BY <1>1 DEF Quiet, Owning, Holding, ProcessHeld, Owned
  <2>. QED
    BY <2>1, QuietStep
<1>2. ASSUME NEW r \in Runs, NextQueued(r), \A s \in Runs : ~ Running(s),
             job' = [job EXCEPT ![r].status = "running"], WriteStatus({r}),
             worker' = [w EXCEPT ![r] = "starting"]
      PROVE  RecordThreadProcess'
  <2>1. Queued(r) /\ InJobs(r) /\ worker[r] = "none" /\ child[r] = "none"
    BY <1>2 DEF NextQueued, QueuedIsClean, InJobs
  <2>2. /\ \A s \in Runs : job'[s].status = IF s = r THEN "running" ELSE job[s].status
        /\ \A s \in Runs \ {r} : job'[s] = job[s]
        /\ \A s \in Runs \ {r} : disk'[s] = disk[s]
        /\ \A s \in Runs : worker'[s] = IF s = r THEN "starting" ELSE w[s]
    BY <1>2 DEF WriteStatus, TypeOK, QueueType, Records
  <2>3. NewIsClean'
    BY <2>1, <2>2 DEF NewIsClean, InJobs
  <2>4. QueuedIsClean'
    BY <2>2 DEF QueuedIsClean, Queued
  <2>5. SingleRunning'
    BY <1>2, <2>2 DEF SingleRunning, Running
  <2>6. WorkerOwnsRun'
    BY <1>2, <2>2 DEF WorkerOwnsRun, Running, Owning
  <2>7. ProcessHeld'
    BY <2>1, <2>2 DEF ProcessHeld, Owned, Holding, Live
  <2>8. DiskCurrent'
    BY <1>2, <2>2, WriteStatusCurrent DEF DiskCurrent, TypeOK, QueueType
  <2>. QED
    BY <2>3, <2>4, <2>5, <2>6, <2>7, <2>8
<1>. QED
  BY <1>1, <1>2 DEF StartNextJob

\* The steps that settle runs or submit one: what they leave is not running.
LEMMA SubmitStep ==
  ASSUME TypeOK, TypeOK', RecordThreadProcess,
         NEW r \in Runs, NEW k \in Intakes, Submit(r, k)
  PROVE  RecordThreadProcess'
<1> USE DEF RecordThreadProcess
<1>1. ~ InJobs(r) /\ worker[r] = "none" /\ child[r] = "none" /\ job[r].status = "absent"
  BY DEF Submit, InJobs, NewIsClean
<1>2. /\ \A s \in Runs : job'[s] = IF s = r THEN Record("queued", NoCode, "none") ELSE job[s]
      /\ \A s \in Runs \ {r} : disk'[s] = disk[s]
      /\ UNCHANGED <<worker, child>>
  BY DEF Submit, WriteStatus, TypeOK, QueueType, procVars
<1>3. Record("queued", NoCode, "none").status = "queued"
  BY DEF Record
<1>4. InJobs(r)' /\ \A s \in Runs : InJobs(s) => InJobs(s)'
  BY DEF Submit, InJobs, TypeOK, QueueType
<1>5. NewIsClean'
  BY <1>2, <1>4 DEF NewIsClean
<1>6. QueuedIsClean'
  BY <1>1, <1>2 DEF QueuedIsClean, Queued
<1>7. SingleRunning' /\ WorkerOwnsRun'
  BY <1>1, <1>2, <1>3 DEF SingleRunning, WorkerOwnsRun, Running, Owning
<1>8. ProcessHeld'
  BY <1>2 DEF ProcessHeld, Owned
<1>9. DiskCurrent'
  BY <1>2, WriteStatusCurrent DEF Submit, DiskCurrent, TypeOK, QueueType
<1>. QED
  BY <1>5, <1>6, <1>7, <1>8, <1>9

\* Runs of S settle: those still queued, or the one whose worker leaves.
LEMMA SettleStep ==
  ASSUME TypeOK, TypeOK', RecordThreadProcess, NEW S \in SUBSET Runs,
         WriteStatus(S), UNCHANGED <<jobs, child>>,
         \A s \in S : InJobs(s) /\ job'[s].status \in Terminal /\ child[s] \notin Live
                      /\ worker'[s] \notin Owning,
         \A s \in Runs \ S : job'[s] = job[s] /\ worker'[s] = worker[s]
  PROVE  RecordThreadProcess'
<1> USE DEF RecordThreadProcess
<1>1. ("queued" \notin Terminal) /\ ("running" \notin Terminal)
  BY DEF Terminal, Governance
<1>2. \A s \in Runs \ S : disk'[s] = disk[s]
  BY DEF WriteStatus
<1>3. NewIsClean'
  BY <1>2 DEF NewIsClean, InJobs
<1>4. QueuedIsClean'
  BY <1>1 DEF QueuedIsClean, Queued
<1>5. SingleRunning'
  BY <1>1 DEF SingleRunning, Running
<1>6. WorkerOwnsRun'
  BY <1>1 DEF WorkerOwnsRun, Running
<1>7. ProcessHeld'
  BY DEF ProcessHeld, Owned
<1>8. DiskCurrent'
  BY WriteStatusCurrent DEF DiskCurrent, TypeOK, QueueType
<1>. QED
  BY <1>3, <1>4, <1>5, <1>6, <1>7, <1>8

\* A restart leaves no queued and no running job, and no worker.
LEMMA RestartStep ==
  ASSUME TypeOK, TypeOK', RecordThreadProcess, Restart
  PROVE  RecordThreadProcess'
<1> USE DEF RecordThreadProcess
<1> DEFINE S == {s \in Runs : disk[s].status \in {"queued", "running"}}
<1>1. /\ \A s \in S : job'[s].status = "interrupted"
      /\ \A s \in Runs \ S : job'[s] = disk[s]
      /\ \A s \in Runs \ S : disk'[s] = disk[s]
      /\ \A s \in Runs : worker'[s] = "none"
      /\ UNCHANGED <<jobs, child>>
  BY DEF Restart, Interrupted, Record, WriteStatus, TypeOK, QueueType
<1>2. \A s \in Runs : ~ Queued(s)' /\ ~ Running(s)'
  BY <1>1 DEF Queued, Running
<1>3. NewIsClean'
  BY <1>1 DEF NewIsClean, InJobs
<1>4. QueuedIsClean' /\ SingleRunning' /\ WorkerOwnsRun' /\ ProcessHeld'
  BY <1>1, <1>2 DEF QueuedIsClean, SingleRunning, WorkerOwnsRun, ProcessHeld, Owned, Owning
<1>5. DiskCurrent'
  <2> SUFFICES ASSUME ~ DiskMayFail PROVE disk' = job'
    BY DEF DiskCurrent
  <2>1. disk = job /\ \A s \in Runs \ S : job'[s] = job[s]
    BY <1>1 DEF DiskCurrent
  <2>. QED
    BY <2>1, WriteStatusCurrent DEF Restart, TypeOK, QueueType
<1>. QED
  BY <1>3, <1>4, <1>5

LEMMA InvStep ==
  ASSUME TypeOK, TypeOK', RecordThreadProcess, Next
  PROVE  RecordThreadProcess'
<1>1. CASE Kick
  BY <1>1, StartNextJobStep DEF Kick, procVars, TypeOK, WorkerType
<1>2. ASSUME NEW r \in Runs, PickUpNext(r) PROVE RecordThreadProcess'
  <2>1. [worker EXCEPT ![r] = "done"] \in [Runs -> Places]
    BY DEF TypeOK, WorkerType, Places
  <2>. QED
    BY <1>2, <2>1, StartNextJobStep DEF PickUpNext, procVars, TypeOK, WorkerType
<1>3. ASSUME NEW r \in Runs, NEW k \in Intakes, Submit(r, k) PROVE RecordThreadProcess'
  BY <1>3, SubmitStep
<1>4. ASSUME NEW r \in Runs, CancelQueued(r) PROVE RecordThreadProcess'
  <2>1. InJobs(r) /\ worker[r] = "none" /\ child[r] = "none"
    BY <1>4 DEF CancelQueued, RecordThreadProcess, NewIsClean, QueuedIsClean, Queued
  <2>2. job'[r].status \in Terminal /\ \A s \in Runs \ {r} : job'[s] = job[s]
    BY <1>4 DEF CancelQueued, Record, Terminal, TypeOK, QueueType
  <2>. QED
    BY <1>4, <2>1, <2>2, SettleStep DEF CancelQueued, procVars, Live, Owning
<1>5. ASSUME NEW r \in Runs, RecordOutcome(r) PROVE RecordThreadProcess'
  <2>1. InJobs(r) /\ child[r] \notin Live
    BY <1>5 DEF RecordOutcome, RecordThreadProcess, NewIsClean, ProcessHeld, Owned, Holding
  <2>2. job'[r].status \in Terminal
    BY <1>5, StatusIsTerminal DEF RecordOutcome, SettledStatus, Record, Terminal, TypeOK, QueueType
  <2>3. worker'[r] \notin Owning /\ \A s \in Runs \ {r} : job'[s] = job[s] /\ worker'[s] = worker[s]
    BY <1>5 DEF RecordOutcome, Goto, Owning, TypeOK, QueueType, WorkerType
  <2>. QED
    BY <1>5, <2>1, <2>2, <2>3, SettleStep DEF RecordOutcome
<1>6. CASE ShutdownSweeps
  <2> DEFINE S == {s \in Runs : Queued(s)}
  <2>1. \A s \in S : InJobs(s) /\ worker[s] = "none" /\ child[s] = "none"
    BY DEF RecordThreadProcess, NewIsClean, QueuedIsClean, Queued
  <2>2. /\ \A s \in S : job'[s].status \in Terminal
        /\ \A s \in Runs \ S : job'[s] = job[s]
    BY <1>6 DEF ShutdownSweeps, Record, Terminal, TypeOK, QueueType
  <2>. QED
    BY <1>6, <2>1, <2>2, SettleStep DEF ShutdownSweeps, Live, Owning
<1>7. CASE Restart
  BY <1>7, RestartStep
<1>8. CASE Exited
  BY <1>8 DEF Exited, vars, queueVars, procVars, RecordThreadProcess, NewIsClean, QueuedIsClean,
     SingleRunning, WorkerOwnsRun, ProcessHeld, DiskCurrent, InJobs, Queued, Running, Owned
<1>9. Quiet => RecordThreadProcess'
  BY QuietStep
<1>10. ASSUME NEW r \in Runs, Worker(r) PROVE RecordThreadProcess'
  BY <1>10, <1>2, <1>5, <1>9, QuietSteps
<1>11. ASSUME Http \/ Shutdown PROVE RecordThreadProcess'
  BY <1>11, <1>1, <1>6, <1>9, QuietSteps
<1>12. ASSUME NEW r \in Runs, CancelRunning(r) \/ TimerFires(r) \/ ChildExits(r) \/ ChildKilled(r)
       PROVE  RecordThreadProcess'
  BY <1>12, <1>9, QuietSteps
<1>. QED
  BY <1>3, <1>4, <1>7, <1>8, <1>10, <1>11, <1>12 DEF Next

\* A run is "running" in JOBS exactly while its worker is at work on it, there
\* is one such run at a time, and no other run's process is there.
THEOREM RecordThreadProcessHolds == Spec => []RecordThreadProcess
<1>1. Init => RecordThreadProcess
  BY DEF Init, Record, RecordThreadProcess, NewIsClean, QueuedIsClean, SingleRunning,
         WorkerOwnsRun, ProcessHeld, DiskCurrent, Queued, Running, Owned, Owning, Live
<1>2. TypeOK /\ TypeOK' /\ RecordThreadProcess /\ [Next]_vars => RecordThreadProcess'
  <2>1. RecordThreadProcess /\ UNCHANGED vars => RecordThreadProcess'
    BY DEF vars, queueVars, procVars, RecordThreadProcess, NewIsClean, QueuedIsClean,
       SingleRunning, WorkerOwnsRun, ProcessHeld, DiskCurrent, InJobs, Queued, Running, Owned
  <2>. QED
    BY <2>1, InvStep
<1>. QED
  BY <1>1, <1>2, TypeCorrect, PTL DEF Spec

-----------------------------------------------------------------------------
(* What follows from it.                                                   *)

\* At no moment do two pipeline processes of one server process run.
THEOREM OnePipelineHolds == Spec => []OnePipeline
<1>1. RecordThreadProcess => OnePipeline
  BY DEF RecordThreadProcess, SingleRunning, WorkerOwnsRun, ProcessHeld, OnePipeline, Owning, Holding
<1>. QED
  BY <1>1, RecordThreadProcessHolds, PTL

\* A run is reported as ended only after its process is gone.
THEOREM EndedMeansGoneHolds == Spec => []EndedMeansGone
<1>1. RecordThreadProcess => EndedMeansGone
  BY DEF RecordThreadProcess, WorkerOwnsRun, ProcessHeld, EndedMeansGone, Owning, Holding
<1>. QED
  BY <1>1, RecordThreadProcessHolds, PTL

\* Only the steps that are not quiet change a record, and they start no process.
LEMMA LoudSteps ==
  ASSUME TypeOK, RecordThreadProcess, Next, ~ Quiet
  PROVE  /\ UNCHANGED child \/ UNCHANGED vars
         /\ \/ Kick
            \/ ShutdownSweeps
            \/ Restart
            \/ UNCHANGED vars
            \/ \E r \in Runs : \/ \E k \in Intakes : Submit(r, k)
                               \/ CancelQueued(r) \/ RecordOutcome(r) \/ PickUpNext(r)
<1>1. \/ Kick
      \/ ShutdownSweeps
      \/ Restart
      \/ UNCHANGED vars
      \/ \E r \in Runs : \/ \E k \in Intakes : Submit(r, k)
                         \/ CancelQueued(r) \/ RecordOutcome(r) \/ PickUpNext(r)
  <2>1. CASE Http \/ Shutdown \/ Restart \/ Exited
    BY <2>1, QuietSteps DEF Exited
  <2>2. ASSUME NEW r \in Runs,
               \/ \E k \in Intakes : Submit(r, k)
               \/ CancelQueued(r) \/ CancelRunning(r)
               \/ Worker(r)
               \/ TimerFires(r) \/ ChildExits(r) \/ ChildKilled(r)
        PROVE  \/ \E k \in Intakes : Submit(r, k)
               \/ CancelQueued(r) \/ RecordOutcome(r) \/ PickUpNext(r)
    BY <2>2, QuietSteps
  <2>. QED
    BY <2>1, <2>2 DEF Next
<1>2. ASSUME NEW r \in Runs, NEW k \in Intakes, Submit(r, k) PROVE UNCHANGED child
  BY <1>2 DEF Submit, procVars
<1>3. ASSUME NEW r \in Runs, CancelQueued(r) \/ RecordOutcome(r) \/ PickUpNext(r)
      PROVE  UNCHANGED child
  BY <1>3 DEF CancelQueued, RecordOutcome, PickUpNext, procVars
<1>4. CASE Kick \/ ShutdownSweeps \/ Restart
  BY <1>4 DEF Kick, ShutdownSweeps, Restart, procVars
<1>. QED
  BY <1>1, <1>2, <1>3, <1>4

\* No process is started for a run that has ended without one.
THEOREM SettledNeverStartsHolds == Spec => SettledNeverStarts
<1>1. ASSUME TypeOK, RecordThreadProcess, [Next]_vars, NEW r \in Runs,
             Settled(r), child[r] = "none"
      PROVE  child'[r] = "none"
  <2>1. worker[r] \notin Owning
    BY <1>1 DEF Settled, Terminal, Governance, RecordThreadProcess, WorkerOwnsRun, Running
  <2>2. CASE Quiet
    BY <1>1, <2>1, <2>2 DEF Quiet
  <2>3. CASE UNCHANGED vars
    BY <1>1, <2>3 DEF vars, procVars
  <2>4. CASE Next /\ ~ Quiet
    <3>1. UNCHANGED child \/ UNCHANGED vars
      BY <1>1, <2>4, LoudSteps
    <3>. QED
      BY <1>1, <3>1, <2>3
  <2>. QED
    BY <1>1, <2>2, <2>3, <2>4
<1>2. TypeOK /\ RecordThreadProcess /\ [Next]_vars
        => [\A r \in Runs : Settled(r) /\ child[r] = "none" => child'[r] = "none"]_vars
  BY <1>1
<1>. QED
  BY <1>2, TypeCorrect, RecordThreadProcessHolds, PTL DEF Spec, SettledNeverStarts

\* While no status write is lost, the record of an ended run never changes
\* again: no later handler, and no restart, rewrites how it ended.
THEOREM EndedIsFinalHolds == ASSUME ~ DiskMayFail PROVE Spec => EndedIsFinal
<1>1. ASSUME TypeOK, RecordThreadProcess, [Next]_vars, NEW r \in Runs, Settled(r)
      PROVE  job'[r] = job[r]
  <2>1. ~ Queued(r) /\ ~ Running(r) /\ job[r].status # "absent"
    BY <1>1 DEF Settled, Terminal, Governance, Queued, Running
  <2>2. CASE Quiet
    BY <2>2 DEF Quiet
  <2>3. CASE UNCHANGED vars
    BY <2>3 DEF vars, queueVars
  <2>4. ASSUME NEW w, StartNextJob(w) PROVE job'[r] = job[r]
    BY <1>1, <2>1, <2>4 DEF StartNextJob, NextQueued, Queued, TypeOK, QueueType
  <2>5. CASE Kick \/ \E s \in Runs : PickUpNext(s)
    BY <2>4, <2>5 DEF Kick, PickUpNext
  <2>6. ASSUME NEW s \in Runs, NEW k \in Intakes, Submit(s, k) PROVE job'[r] = job[r]
    <3>1. job[s].status = "absent"
      BY <1>1, <2>6 DEF Submit, RecordThreadProcess, NewIsClean, InJobs
    <3>. QED
      BY <1>1, <2>1, <2>6, <3>1 DEF Submit, TypeOK, QueueType
  <2>7. ASSUME NEW s \in Runs, CancelQueued(s) PROVE job'[r] = job[r]
    BY <1>1, <2>1, <2>7 DEF CancelQueued, TypeOK, QueueType
  <2>8. ASSUME NEW s \in Runs, RecordOutcome(s) PROVE job'[r] = job[r]
    <3>1. Running(s)
      BY <1>1, <2>8 DEF RecordOutcome, RecordThreadProcess, WorkerOwnsRun, Owning
    <3>. QED
      BY <1>1, <2>1, <2>8, <3>1 DEF RecordOutcome, TypeOK, QueueType
  <2>9. CASE ShutdownSweeps
    BY <2>1, <2>9 DEF ShutdownSweeps
  <2>10. CASE Restart
    <3>1. disk[r] = job[r]
      BY <1>1 DEF RecordThreadProcess, DiskCurrent
    <3>. QED
      BY <2>1, <2>10, <3>1 DEF Restart, Interrupted, Queued, Running
  <2>11. CASE Next /\ ~ Quiet
    BY <1>1, <2>3, <2>5, <2>6, <2>7, <2>8, <2>9, <2>10, <2>11, LoudSteps
  <2>. QED
    BY <1>1, <2>2, <2>3, <2>11
<1>2. TypeOK /\ RecordThreadProcess /\ [Next]_vars
        => [\A r \in Runs : Settled(r) => job'[r] = job[r]]_vars
  BY <1>1
<1>. QED
  BY <1>2, TypeCorrect, RecordThreadProcessHolds, PTL DEF Spec, EndedIsFinal

-----------------------------------------------------------------------------
(* The queue implements SerialQueue, while no status write is lost.        *)

\* The statuses a phase stands for.
LEMMA Phases ==
  ASSUME NEW r \in Runs, job \in [Runs -> Records]
  PROVE  /\ PhaseOf(r) = "queued" <=> Queued(r)
         /\ PhaseOf(r) = "running" <=> Running(r)
         /\ PhaseOf(r) = "absent" <=> job[r].status = "absent"
         /\ PhaseOf(r) = "ended" <=> Settled(r)
BY DEF PhaseOf, Settled, Queued, Running, Records, Statuses, Terminal, Governance

\* A step that does not change the records, or the order, is invisible.
LEMMA StutterStep ==
  ASSUME UNCHANGED <<jobs, job>>
  PROVE  UNCHANGED Serial!queueState
BY DEF Serial!queueState, PhaseOf, Settled

\* A step that settles the queued or running jobs of S is an End(S).
LEMMA SettleIsEnd ==
  ASSUME job \in [Runs -> Records], job' \in [Runs -> Records], UNCHANGED jobs,
         NEW S \in SUBSET Runs,
         \A s \in S : (Queued(s) \/ Running(s)) /\ Settled(s)',
         \A s \in Runs \ S : job'[s] = job[s]
  PROVE  [Serial!Next]_(Serial!queueState)
<1>1. CASE S = {}
  <2>1. job' = job
    BY <1>1
  <2>. QED
    BY <2>1, StutterStep
<1>2. CASE S # {}
  <2>1. S \subseteq Serial!Waiting \cup Serial!Serving
    BY Phases DEF Serial!Waiting, Serial!Serving
  <2>2. \A r \in Runs : PhaseOf(r)' = IF r \in S THEN "ended" ELSE PhaseOf(r)
    BY DEF PhaseOf, Settled
  <2>3. Serial!End(S)
    BY <1>2, <2>1, <2>2 DEF Serial!End
  <2>. QED
    BY <2>3 DEF Serial!Next
<1>. QED
  BY <1>1, <1>2

\* Waking the queue is a Start, or invisible.
LEMMA WakeIsStart ==
  ASSUME job \in [Runs -> Records], UNCHANGED jobs, NEW w, StartNextJob(w)
  PROVE  [Serial!Next]_(Serial!queueState)
<1>1. CASE UNCHANGED job
  BY <1>1, StutterStep
<1>2. ASSUME NEW r \in Runs, NextQueued(r), \A s \in Runs : ~ Running(s),
             job' = [job EXCEPT ![r].status = "running"]
      PROVE  Serial!Start(r)
  <2>1. Serial!Serving = {}
    BY <1>2, Phases DEF Serial!Serving
  <2>2. /\ r \in Serial!Waiting
        /\ \E i \in DOMAIN jobs : /\ jobs[i] = r
                                  /\ \A k \in 1..(i - 1) : jobs[k] \notin Serial!Waiting
    BY <1>2, Phases DEF NextQueued, Serial!Waiting
  <2>3. \A s \in Runs : PhaseOf(s)' = IF s = r THEN "running" ELSE PhaseOf(s)
    BY <1>2 DEF PhaseOf, Settled, Terminal, Governance, Records
  <2>. QED
    BY <2>1, <2>2, <2>3 DEF Serial!Start
<1>3. CASE \E r \in Runs : Serial!Start(r)
  BY <1>3 DEF Serial!Next
<1>. QED
  BY <1>1, <1>2, <1>3 DEF StartNextJob

\* Every step of server, workers, pipelines, shutdown and restart is a step of
\* a first-come first-served queue with a single place, or invisible to it.
THEOREM Refinement == ASSUME ~ DiskMayFail PROVE Spec => ImplementsSerialQueue
<1>1. Init => Serial!Init
  BY DEF Init, Serial!Init, PhaseOf, Settled, Record, Terminal, Governance
<1>2. ASSUME TypeOK, TypeOK', RecordThreadProcess, [Next]_vars
      PROVE  [Serial!Next]_(Serial!queueState)
  <2>0. job \in [Runs -> Records] /\ job' \in [Runs -> Records]
    BY <1>2 DEF TypeOK, QueueType
  <2>1. CASE Quiet \/ UNCHANGED vars
    BY <2>1, StutterStep DEF Quiet, vars, queueVars
  <2>2. CASE Kick \/ \E r \in Runs : PickUpNext(r)
    BY <2>0, <2>2, WakeIsStart DEF Kick, PickUpNext
  <2>3. ASSUME NEW r \in Runs, NEW k \in Intakes, Submit(r, k)
        PROVE  Serial!Accept(r)
    <3>1. job[r].status = "absent"
      BY <1>2, <2>3 DEF Submit, RecordThreadProcess, NewIsClean, InJobs
    <3>2. \A s \in Runs : PhaseOf(s)' = IF s = r THEN "queued" ELSE PhaseOf(s)
      BY <2>0, <2>3 DEF Submit, PhaseOf, Settled, Terminal, Governance, Record
    <3>3. jobs' = Append(jobs, r)
      BY <2>3 DEF Submit
    <3>. QED
      BY <2>0, <3>1, <3>2, <3>3, Phases DEF Serial!Accept
  <2>4. ASSUME NEW r \in Runs, CancelQueued(r) PROVE [Serial!Next]_(Serial!queueState)
    <3>1. Queued(r) /\ Settled(r)' /\ \A s \in Runs \ {r} : job'[s] = job[s]
      BY <2>0, <2>4 DEF CancelQueued, Settled, Record, Terminal
    <3>. QED
      BY <2>0, <2>4, <3>1, SettleIsEnd DEF CancelQueued
  <2>5. ASSUME NEW r \in Runs, RecordOutcome(r) PROVE [Serial!Next]_(Serial!queueState)
    <3>1. Running(r)
      BY <1>2, <2>5 DEF RecordOutcome, RecordThreadProcess, WorkerOwnsRun, Owning
    <3>2. Settled(r)' /\ \A s \in Runs \ {r} : job'[s] = job[s]
      BY <2>0, <2>5, StatusIsTerminal
         DEF RecordOutcome, Settled, SettledStatus, Record, Terminal
    <3>. QED
      BY <2>0, <2>5, <3>1, <3>2, SettleIsEnd DEF RecordOutcome
  <2>6. CASE ShutdownSweeps
    <3> DEFINE S == {s \in Runs : Queued(s)}
    <3>1. /\ \A s \in S : Queued(s) /\ Settled(s)'
          /\ \A s \in Runs \ S : job'[s] = job[s]
      BY <2>6 DEF ShutdownSweeps, Settled, Record, Terminal
    <3>. QED
      BY <2>0, <2>6, <3>1, SettleIsEnd DEF ShutdownSweeps
  <2>7. CASE Restart
    <3> DEFINE S == {s \in Runs : job[s].status \in {"queued", "running"}}
    <3>1. disk = job
      BY <1>2 DEF RecordThreadProcess, DiskCurrent
    <3>2. /\ \A s \in S : (Queued(s) \/ Running(s)) /\ Settled(s)'
          /\ \A s \in Runs \ S : job'[s] = job[s]
      BY <2>7, <3>1 DEF Restart, Interrupted, Queued, Running, Settled, Record, Terminal
    <3>. QED
      BY <2>0, <2>7, <3>2, SettleIsEnd DEF Restart
  <2>8. CASE Next /\ ~ Quiet
    <3>1. (\E r \in Runs : Serial!Accept(r)) => Serial!Next
      BY DEF Serial!Next
    <3>. QED
      BY <1>2, <2>1, <2>2, <2>3, <2>4, <2>5, <2>6, <2>7, <2>8, <3>1, LoudSteps
  <2>. QED
    BY <1>2, <2>1, <2>8
<1>. QED
  BY <1>1, <1>2, TypeCorrect, RecordThreadProcessHolds, PTL
     DEF Spec, ImplementsSerialQueue, Serial!Spec

=============================================================================
