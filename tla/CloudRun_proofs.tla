-------------------------- MODULE CloudRun_proofs ---------------------------
(***************************************************************************)
(* One attempt per experiment directory, and a valid benchmark is over,    *)
(* for any number of deploys, instances and collections and any number of  *)
(* deaths and reruns.                                                      *)
(***************************************************************************)
EXTENDS CloudRun, TLAPS

\* The remote process tells whether its directory is claimed and how many
\* workloads were started in it.
JobTellsRuns ==
  \A i \in Instances :
    /\ ~claimed[i] => job[i] = None
    /\ job[i] \in {None, "setup"} => runs[i] = 0
    /\ job[i] \in {"running", "ok"} => runs[i] = 1
    /\ runs[i] <= 1

\* What a deploy has collected and what its watchdog has verified stay true,
\* and a status is valid on both only.
EarnedByDeploy ==
  \A d \in Deploys :
    /\ collected[d] => job[On(d)] = "ok"
    /\ d \in verified => instance[On(d)] = "gone"
    /\ \A s \in status[d] : s.valid => collected[d] /\ d \in verified

IInv == TypeOK /\ JobTellsRuns /\ EarnedByDeploy

USE DEF Early, Soft, Reserve, Over, None, Inputs, command, Caught

LEMMA InitIInv == Init => IInv
  BY BoundsAssumption DEF Init, IInv, TypeOK, JobTellsRuns, EarnedByDeploy, Status

\* Every variable keeps its type.
LEMMA TypeStep == TypeOK /\ [Next]_vars => TypeOK'
<1> SUFFICES ASSUME TypeOK, [Next]_vars PROVE TypeOK'
  OBVIOUS
<1> USE BoundsAssumption DEF TypeOK, Status
<1>1. CASE \E d \in Deploys : Controller(d) \/ ControllerDies(d)
  <2> PICK d \in Deploys : Controller(d) \/ ControllerDies(d)
    BY <1>1
  <2>1. CASE Begin(d) \/ MakeCollection(d) \/ StartWatchdog(d) \/ AwaitArmed(d) \/ Fail(d)
    <3>1. CASE Begin(d)
      BY <3>1 DEF Begin, Goto, remote
    <3>2. CASE MakeCollection(d)
      BY <3>2 DEF MakeCollection, Goto, remote, Place
    <3>3. CASE StartWatchdog(d)
      BY <3>3 DEF StartWatchdog, Goto, remote
    <3>4. CASE AwaitArmed(d)
      BY <3>4 DEF AwaitArmed, Goto, remote
    <3>5. CASE Fail(d)
      BY <3>5 DEF Fail, Goto, remote
    <3> QED
      BY <2>1, <3>1, <3>2, <3>3, <3>4, <3>5
  <2>2. CASE Reach(d) \/ MakeDirectory(d) \/ Upload(d) \/ StartRemote(d)
    <3>1. On(d) \in Instances
      BY DEF On
    <3>2. CASE Reach(d)
      BY <3>2 DEF Reach, Goto, remote
    <3>3. CASE MakeDirectory(d)
      BY <3>1, <3>3 DEF MakeDirectory, Goto
    <3>4. CASE Upload(d)
      BY <3>4 DEF Upload, Goto, remote
    <3>5. CASE StartRemote(d)
      BY <3>1, <3>5 DEF StartRemote, Claim, Goto
    <3> QED
      BY <2>2, <3>2, <3>3, <3>4, <3>5
  <2>3. CASE RemoteReturned(d) \/ Collect(d) \/ RequestEnd(d)
    BY <2>3 DEF RemoteReturned, Collect, RequestEnd, Goto, remote
  <2>4. CASE WriteStatus(d)
    BY <2>4 DEF WriteStatus, Verdict, Goto, remote
  <2>5. CASE Refuse(d) \/ WatchRaises(d) \/ ControllerDies(d)
    <3>1. On(d) \in Instances
      BY DEF On
    <3>2. CASE Refuse(d)
      BY <3>1, <3>2 DEF Refuse, Stop, Goto, remote
    <3>3. CASE WatchRaises(d)
      BY <3>3 DEF WatchRaises, Goto, remote
    <3>4. CASE ControllerDies(d)
      BY <3>4 DEF ControllerDies, Goto, remote
    <3> QED
      BY <2>5, <3>2, <3>3, <3>4
  <2> QED
    BY <2>1, <2>2, <2>3, <2>4, <2>5 DEF Controller
<1>2. CASE \E d \in Deploys : Arm(d) \/ Poll(d) \/ WatchdogDies(d)
  <2> PICK d \in Deploys : Arm(d) \/ Poll(d) \/ WatchdogDies(d)
    BY <1>2
  <2>1. On(d) \in Instances
    BY DEF On
  <2>2. CASE Arm(d)
    BY <2>2 DEF Arm, remote
  <2>3. CASE Poll(d)
    <3>1. instance' \in [Instances -> {"active", "stopping", "gone"}]
      BY <2>1, <2>3 DEF Poll, Stop
    <3>2. watch' \in [Deploys -> {None, "starting", "watching", "done", "dead"}]
      BY <2>3 DEF Poll
    <3>3. verified' \subseteq Deploys
      BY <2>3 DEF Poll
    <3> QED
      BY <2>3, <3>1, <3>2, <3>3 DEF Poll, remote
  <2>4. CASE WatchdogDies(d)
    BY <2>4 DEF WatchdogDies, remote
  <2> QED
    BY <2>2, <2>3, <2>4
<1>3. CASE \E i \in Instances : Rerun(i) \/ RunWorkload(i) \/ EndRemote(i) \/ Vanish(i)
  <2> PICK i \in Instances : Rerun(i) \/ RunWorkload(i) \/ EndRemote(i) \/ Vanish(i)
    BY <1>3
  <2>1. CASE Rerun(i)
    BY <2>1 DEF Rerun, Claim
  <2>2. CASE RunWorkload(i)
    BY <2>2 DEF RunWorkload
  <2>3. CASE EndRemote(i)
    BY <2>3 DEF EndRemote
  <2>4. CASE Vanish(i)
    BY <2>4 DEF Vanish, remote
  <2> QED
    BY <2>1, <2>2, <2>3, <2>4
<1>4. CASE Tick
  BY <1>4 DEF Tick, remote
<1>5. CASE UNCHANGED vars
  BY <1>5 DEF vars, remote
<1> QED
  BY <1>1, <1>2, <1>3, <1>4, <1>5 DEF Next

\* A job moves forward only: the claim is exclusive and permanent.
LEMMA JobStep == TypeOK /\ JobTellsRuns /\ [Next]_vars => JobTellsRuns'
<1> SUFFICES ASSUME TypeOK, JobTellsRuns, [Next]_vars PROVE JobTellsRuns'
  OBVIOUS
<1> USE DEF TypeOK, JobTellsRuns
<1>1. CASE \E d \in Deploys : StartRemote(d)
  BY <1>1 DEF StartRemote, Claim, On
<1>2. CASE \E i \in Instances : Rerun(i) \/ RunWorkload(i) \/ EndRemote(i)
  BY <1>2 DEF Rerun, RunWorkload, EndRemote, Claim
<1>3. CASE UNCHANGED <<claimed, job, runs>>
  BY <1>3
<1>4. ASSUME NEW d \in Deploys, Controller(d), ~StartRemote(d)
      PROVE  UNCHANGED <<claimed, job, runs>>
  BY <1>4 DEF Controller, Begin, MakeCollection, StartWatchdog, AwaitArmed, Fail, Reach,
     MakeDirectory, Upload, RemoteReturned, Collect, RequestEnd, WriteStatus, Refuse,
     WatchRaises, remote
<1>5. ASSUME NEW d \in Deploys, ControllerDies(d) \/ Arm(d) \/ Poll(d) \/ WatchdogDies(d)
      PROVE  UNCHANGED <<claimed, job, runs>>
  BY <1>5 DEF ControllerDies, Arm, Poll, WatchdogDies, remote
<1>6. CASE (\E i \in Instances : Vanish(i)) \/ Tick \/ UNCHANGED vars
  BY <1>6 DEF Vanish, Tick, vars, remote
<1> QED
  BY <1>1, <1>2, <1>3, <1>4, <1>5, <1>6 DEF Next

\* A job that ended well stays so, and an instance that is gone stays gone.
LEMMA FinalStep ==
  ASSUME TypeOK, JobTellsRuns, [Next]_vars
  PROVE  /\ target' = target /\ input' = input
         /\ \A i \in Instances : job[i] = "ok" => job'[i] = "ok"
         /\ \A i \in Instances : instance[i] = "gone" => instance'[i] = "gone"
<1> USE DEF TypeOK, JobTellsRuns
<1>1. CASE \E d \in Deploys : Controller(d) \/ ControllerDies(d)
  BY <1>1 DEF Controller, Begin, MakeCollection, StartWatchdog, AwaitArmed, Fail, Reach,
     MakeDirectory, Upload, StartRemote, RemoteReturned, Collect, RequestEnd, WriteStatus,
     Refuse, WatchRaises, Stop, Claim, ControllerDies, On, remote
<1>2. CASE \E d \in Deploys : Arm(d) \/ Poll(d) \/ WatchdogDies(d)
  BY <1>2 DEF Arm, Poll, WatchdogDies, Stop, remote, On
<1>3. CASE \E i \in Instances : Rerun(i) \/ RunWorkload(i) \/ EndRemote(i) \/ Vanish(i)
  BY <1>3 DEF Rerun, RunWorkload, EndRemote, Vanish, Claim, remote
<1>4. CASE Tick \/ UNCHANGED vars
  BY <1>4 DEF Tick, vars, remote
<1> QED
  BY <1>1, <1>2, <1>3, <1>4 DEF Next

\* Evidence, verification and status are earned by the deploy itself.
LEMMA EarnedStep == IInv /\ [Next]_vars => EarnedByDeploy'
<1> SUFFICES ASSUME IInv, [Next]_vars, NEW e \in Deploys
             PROVE  /\ collected'[e] => job'[On(e)'] = "ok"
                    /\ e \in verified' => instance'[On(e)'] = "gone"
                    /\ \A s \in status'[e] : s.valid => collected'[e] /\ e \in verified'
  BY DEF EarnedByDeploy
<1> USE DEF IInv, TypeOK, EarnedByDeploy, On
<1>1. /\ On(e)' = On(e) /\ On(e) \in Instances
      /\ job[On(e)] = "ok" => job'[On(e)] = "ok"
      /\ instance[On(e)] = "gone" => instance'[On(e)] = "gone"
  BY FinalStep
<1>2. CASE UNCHANGED <<collected, verified, status>>
  BY <1>1, <1>2
<1>3. ASSUME NEW d \in Deploys, Collect(d)
      PROVE  /\ collected'[e] => collected[e] \/ (e = d /\ job[On(e)] = "ok")
             /\ collected[e] => collected'[e]
             /\ verified' = verified /\ status' = status
  BY <1>3 DEF Collect
<1>4. ASSUME NEW d \in Deploys, WriteStatus(d)
      PROVE  /\ \A s \in status'[e] : s.valid => collected[e] /\ e \in verified
             /\ collected' = collected /\ verified' = verified
  <2>1. status'[e] = status[e] \/ (e = d /\ status'[e] = {Verdict(d)})
    BY <1>4 DEF WriteStatus
  <2>2. /\ Verdict(d).valid => collected[d] /\ d \in verified
        /\ collected' = collected /\ verified' = verified
    BY <1>4 DEF WriteStatus, Verdict
  <2> QED
    BY <2>1, <2>2
<1>5. ASSUME NEW d \in Deploys, Poll(d)
      PROVE  /\ e \in verified' => e \in verified \/ instance[On(e)] = "gone"
             /\ verified \subseteq verified'
             /\ collected' = collected /\ status' = status
  BY <1>5 DEF Poll
<1>6. ASSUME NEW d \in Deploys, Controller(d), ~Collect(d), ~WriteStatus(d)
      PROVE  UNCHANGED <<collected, verified, status>>
  BY <1>6 DEF Controller, Begin, MakeCollection, StartWatchdog, AwaitArmed, Fail, Reach,
     MakeDirectory, Upload, StartRemote, RemoteReturned, RequestEnd, Refuse, WatchRaises, remote
<1>7. ASSUME NEW d \in Deploys, ControllerDies(d) \/ Arm(d) \/ WatchdogDies(d)
      PROVE  UNCHANGED <<collected, verified, status>>
  BY <1>7 DEF ControllerDies, Arm, WatchdogDies
<1>8. ASSUME NEW i \in Instances, Rerun(i) \/ RunWorkload(i) \/ EndRemote(i) \/ Vanish(i)
      PROVE  UNCHANGED <<collected, verified, status>>
  BY <1>8 DEF Rerun, RunWorkload, EndRemote, Vanish
<1>9. CASE Tick \/ UNCHANGED vars
  BY <1>2, <1>9 DEF Tick, vars
<1>10. CASE \E d \in Deploys : Collect(d)
  BY <1>1, <1>3, <1>10
<1>11. CASE \E d \in Deploys : WriteStatus(d)
  BY <1>1, <1>4, <1>11
<1>12. CASE \E d \in Deploys : Poll(d)
  BY <1>1, <1>5, <1>12
<1> QED
  BY <1>2, <1>6, <1>7, <1>8, <1>9, <1>10, <1>11, <1>12 DEF Next

LEMMA InvariantHolds == Spec => []IInv
<1>1. IInv /\ [Next]_vars => IInv'
  BY TypeStep, JobStep, EarnedStep DEF IInv
<1> QED
  BY InitIInv, <1>1, PTL DEF Spec

\* An experiment directory sees at most one workload.
THEOREM OneAttemptHolds == Spec => []OneAttempt
<1>1. IInv => OneAttempt
  BY DEF IInv, JobTellsRuns, OneAttempt
<1> QED
  BY InvariantHolds, <1>1, PTL

\* A benchmark reported valid has ended well, once, and its instance is gone.
THEOREM ValidMeansOverHolds == Spec => []ValidMeansOver
<1>1. IInv => ValidMeansOver
  BY DEF IInv, TypeOK, JobTellsRuns, EarnedByDeploy, ValidMeansOver, On
<1> QED
  BY InvariantHolds, <1>1, PTL

-----------------------------------------------------------------------------
(* What PaidInstanceEnds rests on: somebody is left to end the instance.   *)

\* Where the watchdog stands as its controller goes on, and what is asked of it by
\* the time the controller has returned.
WatchFollows ==
  \A d \in Deploys :
    /\ at[d] \in {None, "collection", "watchdog"} => watch[d] = None
    /\ at[d] \notin {None, "collection", "watchdog", "emergency", "returned", "dead"} =>
         watch[d] # None
    /\ at[d] = "linger" => d \in requested
    /\ watch[d] = "done" => d \in verified
    /\ at[d] = "returned" =>
         \/ instance[On(d)] = "gone"
         \/ watch[d] # None /\ d \in requested
         \/ input[d] \in {"id", "clock"}

LEMMA WatchStep == IInv /\ WatchFollows /\ [Next]_vars => WatchFollows'
<1> SUFFICES ASSUME IInv, WatchFollows, [Next]_vars, NEW e \in Deploys
             PROVE  /\ at'[e] \in {None, "collection", "watchdog"} => watch'[e] = None
                    /\ at'[e] \notin {None, "collection", "watchdog", "emergency", "returned", "dead"} =>
                         watch'[e] # None
                    /\ at'[e] = "linger" => e \in requested'
                    /\ watch'[e] = "done" => e \in verified'
                    /\ at'[e] = "returned" =>
                         \/ instance'[On(e)'] = "gone"
                         \/ watch'[e] # None /\ e \in requested'
                         \/ input'[e] \in {"id", "clock"}
  BY DEF WatchFollows
<1> USE DEF TypeOK, On
<1>1. /\ TypeOK /\ On(e)' = On(e) /\ input' = input
      /\ instance[On(e)] = "gone" => instance'[On(e)] = "gone"
  BY FinalStep DEF IInv
<1>2. /\ at[e] \in {None, "collection", "watchdog"} => watch[e] = None
      /\ at[e] \notin {None, "collection", "watchdog", "emergency", "returned", "dead"} =>
           watch[e] # None
      /\ at[e] = "linger" => e \in requested
      /\ watch[e] = "done" => e \in verified
      /\ at[e] = "returned" =>
           \/ instance[On(e)] = "gone"
           \/ watch[e] # None /\ e \in requested
           \/ input[e] \in {"id", "clock"}
  BY DEF WatchFollows
<1>3. CASE UNCHANGED <<at, watch, requested, verified>>
  BY <1>1, <1>2, <1>3
<1>4. ASSUME NEW d \in Deploys, Controller(d) \/ ControllerDies(d)
      PROVE  /\ \A x \in Deploys \ {d} : at'[x] = at[x] /\ watch'[x] = watch[x]
             /\ verified' = verified /\ requested \subseteq requested'
  BY <1>1, <1>4 DEF Controller, Begin, MakeCollection, StartWatchdog, AwaitArmed, Fail, Reach,
     MakeDirectory, Upload, StartRemote, RemoteReturned, Collect, RequestEnd, WriteStatus,
     Refuse, WatchRaises, ControllerDies, Goto
<1>5. ASSUME Controller(e) \/ ControllerDies(e)
      PROVE  \/ /\ watch'[e] = watch[e] /\ requested' = requested
                /\ \/ at[e] \in {None, "collection"} /\ at'[e] \in {"collection", "watchdog", "emergency"}
                   \/ at'[e] \notin {None, "collection", "watchdog", "linger", "returned"} /\ watch[e] # None
                   \/ at'[e] = "dead"
             \/ watch'[e] = "starting" /\ at'[e] = "arming"
             \/ watch'[e] = watch[e] /\ e \in requested' /\ at'[e] = "linger" /\ watch[e] # None
             \/ /\ watch'[e] = watch[e] /\ requested' = requested /\ at'[e] = "returned"
                /\ watch[e] # None /\ e \in requested
             \/ /\ watch'[e] = watch[e] /\ requested' = requested
                /\ at[e] = "emergency" /\ at'[e] \in {"emergency", "returned"}
                /\ at'[e] = "returned" => instance[On(e)] = "gone" \/ input[e] = "clock"
             \/ /\ watch'[e] = watch[e] /\ requested' = requested
                /\ at'[e] = "returned" /\ input[e] = "id"
  <2>1. CASE Begin(e) \/ MakeCollection(e)
    BY <1>1, <1>2, <2>1 DEF Begin, MakeCollection, Goto
  <2>2. CASE AwaitArmed(e) \/ Fail(e)
    BY <1>1, <1>2, <2>2 DEF AwaitArmed, Fail, Goto
  <2>3. CASE Reach(e) \/ MakeDirectory(e) \/ Upload(e)
    BY <1>1, <1>2, <2>3 DEF Reach, MakeDirectory, Upload, Goto
  <2>4. CASE StartRemote(e) \/ RemoteReturned(e) \/ Collect(e)
    BY <1>1, <1>2, <2>4 DEF StartRemote, RemoteReturned, Collect, Goto
  <2>5. CASE StartWatchdog(e)
    BY <1>1, <2>5 DEF StartWatchdog, Goto
  <2>6. CASE RequestEnd(e) \/ WriteStatus(e)
    BY <1>1, <1>2, <2>6 DEF RequestEnd, WriteStatus, Goto
  <2>7. CASE Refuse(e) \/ WatchRaises(e) \/ ControllerDies(e)
    BY <1>1, <2>7 DEF Refuse, WatchRaises, ControllerDies, Goto
  <2> QED
    BY <1>5, <2>1, <2>2, <2>3, <2>4, <2>5, <2>6, <2>7 DEF Controller
<1>6. ASSUME NEW d \in Deploys, Arm(d) \/ Poll(d) \/ WatchdogDies(d)
      PROVE  /\ at' = at /\ requested' = requested /\ verified \subseteq verified'
             /\ watch'[e] = watch[e] \/ watch[e] \in {"starting", "watching"}
             /\ watch'[e] # watch[e] => watch'[e] \in {"watching", "done", "dead"}
             /\ watch'[e] = "done" => e \in verified'
  BY <1>1, <1>2, <1>6 DEF Arm, Poll, WatchdogDies
<1>7. ASSUME NEW d \in Deploys, Controller(d) \/ ControllerDies(d), d # e
      PROVE  at'[e] = at[e] /\ watch'[e] = watch[e] /\ verified' = verified /\ requested \subseteq requested'
  BY <1>4, <1>7
<1>8. CASE Controller(e) \/ ControllerDies(e)
  <2>1. verified' = verified /\ requested \subseteq requested'
    BY <1>4, <1>8
  <2> QED
    BY <1>1, <1>2, <1>5, <1>8, <2>1
<1>9. CASE \E d \in Deploys \ {e} : Controller(d) \/ ControllerDies(d)
  <2> PICK d \in Deploys \ {e} : Controller(d) \/ ControllerDies(d)
    BY <1>9
  <2>1. at'[e] = at[e] /\ watch'[e] = watch[e] /\ verified' = verified /\ requested \subseteq requested'
    BY <1>7
  <2> QED
    BY <1>1, <1>2, <2>1
<1>10. CASE \E d \in Deploys : Arm(d) \/ Poll(d) \/ WatchdogDies(d)
  BY <1>1, <1>2, <1>6, <1>10
<1>11. CASE (\E i \in Instances : Rerun(i) \/ RunWorkload(i) \/ EndRemote(i) \/ Vanish(i)) \/ Tick \/ UNCHANGED vars
  <2>1. UNCHANGED <<at, watch, requested, verified>>
    BY <1>11 DEF Rerun, RunWorkload, EndRemote, Vanish, Tick, vars
  <2> QED
    BY <1>3, <2>1
<1> QED
  BY <1>8, <1>9, <1>10, <1>11 DEF Next

\* Of a deploy that began, the instance is gone, or its controller is still at it, or
\* a watchdog is: one that was asked to end it when the controller has returned, one
\* that will at the deadline when the controller died.  Otherwise the watchdog died,
\* or the controller did before there was one, or the ID, the time or the rate it was
\* given kept main() from an emergency watch.
SomeoneEndsIt ==
  \A d \in Deploys : at[d] # None =>
    \/ instance[On(d)] = "gone"
    \/ at[d] \notin {"returned", "dead"}
    \/ at[d] = "returned" /\ d \in requested /\ watch[d] \in {"starting", "watching", "dead"}
    \/ at[d] = "dead" /\ watch[d] \in {None, "starting", "watching", "dead"}
    \/ at[d] = "returned" /\ input[d] \in {"id", "clock"}

\* No deploy leaves a paid instance with nobody left to try to end it but through a
\* death of its watchdog, a death of its controller before the watchdog was started, or
\* an ID, a time or a rate with which no emergency watch runs.  With a credential that
\* the provider refuses those who are left try in vain.
THEOREM SomeoneEndsItHolds == Spec => []SomeoneEndsIt
<1>1. Init => WatchFollows
  BY DEF Init, WatchFollows
<1>2. IInv /\ WatchFollows /\ [Next]_vars => WatchFollows'
  BY WatchStep
<1>3. IInv /\ WatchFollows => SomeoneEndsIt
  BY DEF IInv, TypeOK, WatchFollows, EarnedByDeploy, SomeoneEndsIt
<1> QED
  BY InvariantHolds, <1>1, <1>2, <1>3, PTL DEF Spec

\* Every variable keeps its type, also where deploys share an instance.
THEOREM CloudTypeCorrect == Spec => []TypeOK
<1>1. IInv => TypeOK
  BY DEF IInv
<1> QED
  BY InvariantHolds, <1>1, PTL
=============================================================================
