------------------------------ MODULE CloudRun ------------------------------
(***************************************************************************)
(* A paid cloud instance, from the operator's deploy command to its        *)
(* verified end: tools/deploy_cloud_run.py (the controller),               *)
(* tools/cloud_run_watchdog.py (a detached process that must end the       *)
(* instance) and tools/cloud_run_remote.py (the run on the instance).      *)
(*                                                                         *)
(* The operator provisions the instance by hand and may type the deploy    *)
(* command several times, on one instance or on several, with one          *)
(* collection directory or with several, one after another or at once.     *)
(* Calls to the provider fail and their answers get lost; SSH drops; the   *)
(* controller and the watchdog may die, of a kill or of a local write that *)
(* fails.  The provider's list is taken to be truthful: an instance it     *)
(* does not name is gone (LambdaTermination.instance reads it so).  An     *)
(* instance ID of the provider's form is taken to be that of the instance; *)
(* what else the operator types may be wrong (Inputs).                     *)
(***************************************************************************)
EXTENDS Naturals, FiniteSets

CONSTANTS
  Deploys,     \* invocations of the deploy command, all of one sealed bundle
  Instances,   \* the provider's instances, provisioned by hand
  Places,      \* values of --collection
  MaxDeaths,   \* bound: controllers and watchdogs that die
  MaxReruns    \* bound: remote commands started by hand over SSH

ASSUME BoundsAssumption == MaxDeaths \in Nat /\ MaxReruns \in Nat

\* The budget of budget_deadlines: before the soft limit, after it, within the
\* 120 seconds that precede the termination deadline, after the deadline.
Early == 0
Soft == 1
Reserve == 2
Over == 3

None == "none"

\* What the operator typed: nothing that stands in the way of a termination; an
\* --instance-id that is not of the provider's form; a --running-since or an
\* --hourly-rate with which watch() raises; a credential that is missing or that
\* the provider refuses (or no curl), with which no request ever succeeds.
Inputs == {"good", "id", "clock", "key"}

VARIABLES
  clock,       \* where the time stands in the budget
  instance,    \* what the provider reports of an instance
  directory,   \* has the experiment's directory been made on the instance?
  claimed,     \* does RUN_CLAIMED exist in it?
  job,         \* the remote process
  runs,        \* workloads ever started in the directory
  taken,       \* the collections whose experiment directory exists
  at,          \* the controller's program counter
  target,      \* the instance and the collection a deploy was given
  input,       \* the rest of what it was given
  collected,   \* success: evidence fetched and verified
  requested,   \* deploys whose TERMINATE_REQUEST exists
  verified,    \* deploys whose TERMINATION_VERIFIED.json exists
  watch,       \* the detached watchdog of a deploy
  status,      \* EXPERIMENT_STATUS.json, {} before it is written
  deaths, reruns

remote == <<directory, claimed, job, runs, reruns>>
command == <<target, input>>
vars == <<clock, instance, remote, taken, at, command, collected, requested,
          verified, watch, status, deaths>>

On(d) == target[d][1]
Place(d) == target[d][2]

Status == [valid : BOOLEAN, terminated : BOOLEAN, continues : BOOLEAN]

\* Every variable keeps its type.
TypeOK ==
  /\ clock \in Early .. Over
  /\ instance \in [Instances -> {"active", "stopping", "gone"}]
  /\ directory \in [Instances -> BOOLEAN]
  /\ claimed \in [Instances -> BOOLEAN]
  /\ job \in [Instances -> {None, "setup", "running", "ok", "failed"}]
  /\ runs \in [Instances -> Nat]
  /\ taken \subseteq Places
  /\ at \in [Deploys -> {None, "collection", "watchdog", "arming", "check", "connect",
                         "directory", "upload", "start", "wait", "collect", "request",
                         "linger", "emergency", "returned", "dead"}]
  /\ target \in [Deploys -> Instances \X Places]
  /\ input \in [Deploys -> Inputs]
  /\ collected \in [Deploys -> BOOLEAN]
  /\ requested \subseteq Deploys
  /\ verified \subseteq Deploys
  /\ watch \in [Deploys -> {None, "starting", "watching", "done", "dead"}]
  /\ status \in [Deploys -> SUBSET Status]
  /\ deaths \in 0 .. MaxDeaths
  /\ reruns \in 0 .. MaxReruns

Init ==
  /\ clock = Early
  /\ instance = [i \in Instances |-> "active"]
  /\ directory = [i \in Instances |-> FALSE]
  /\ claimed = [i \in Instances |-> FALSE]
  /\ job = [i \in Instances |-> None]
  /\ runs = [i \in Instances |-> 0]
  /\ taken = {}
  /\ at = [d \in Deploys |-> None]
  /\ target \in [Deploys -> Instances \X Places]
  /\ input \in [Deploys -> Inputs]
  /\ collected = [d \in Deploys |-> FALSE]
  /\ requested = {}
  /\ verified = {}
  /\ watch = [d \in Deploys |-> None]
  /\ status = [d \in Deploys |-> {}]
  /\ deaths = 0
  /\ reruns = 0

-----------------------------------------------------------------------------
(* The controller, execute() and main()                                    *)

Goto(d, place) == at' = [at EXCEPT ![d] = place]

\* Does a request to the provider, made with the deploy's credential, ever succeed?
Reaches(d) == input[d] # "key"

\* What main() does about an exception of execute(): an emergency watch, but not for
\* an instance ID that is not of the provider's form.
Caught(d) == Goto(d, IF input[d] = "id" THEN "returned" ELSE "emergency")

\* The checks before any file is written.  The ID, the time and the rate are among
\* them; a credential is looked at but not tried; the SSH key, the bundle and the
\* time that has passed may be refused whatever was typed.
Begin(d) ==
  /\ at[d] = None
  /\ \/ /\ input[d] \in {"good", "key"}
        /\ clock = Early
        /\ Goto(d, "collection")
     \/ Caught(d)
  /\ UNCHANGED <<clock, instance, remote, taken, command, collected, requested,
                 verified, watch, status, deaths>>

\* mkdir(exist_ok=False): a second deploy of the experiment is refused.
MakeCollection(d) ==
  /\ at[d] = "collection"
  /\ IF Place(d) \in taken
       THEN Caught(d) /\ UNCHANGED taken
       ELSE Goto(d, "watchdog") /\ taken' = taken \cup {Place(d)}
  /\ UNCHANGED <<clock, instance, remote, command, collected, requested,
                 verified, watch, status, deaths>>

StartWatchdog(d) ==
  /\ at[d] = "watchdog"
  /\ watch' = [watch EXCEPT ![d] = "starting"]
  /\ Goto(d, "arming")
  /\ UNCHANGED <<clock, instance, remote, taken, command, collected, requested,
                 verified, status, deaths>>

\* Ten seconds for WATCHDOG_ARMED.json; a watchdog that died or is late is
\* outside the try block, so main() takes over.
AwaitArmed(d) ==
  /\ at[d] = "arming"
  /\ \/ watch[d] = "watching" /\ Goto(d, "check")
     \/ watch[d] # "watching" /\ Caught(d)
  /\ UNCHANGED <<clock, instance, remote, taken, command, collected, requested,
                 verified, watch, status, deaths>>

\* A step of the try block that raises: deployment_failure.json, then finally.
Fail(d) ==
  /\ at[d] \in {"check", "connect", "directory", "upload", "start", "wait", "collect"}
  /\ Goto(d, "request")
  /\ UNCHANGED <<clock, instance, remote, taken, command, collected, requested,
                 verified, watch, status, deaths>>

\* The provider's answer, then SSH, the interpreter and the GPU.
Reach(d) ==
  /\ \/ at[d] = "check" /\ Reaches(d) /\ Goto(d, "connect")
     \/ at[d] = "connect" /\ Goto(d, "directory")
  /\ instance[On(d)] = "active"
  /\ UNCHANGED <<clock, instance, remote, taken, command, collected, requested,
                 verified, watch, status, deaths>>

\* mkdir of the experiment's directory, without -p.
MakeDirectory(d) ==
  /\ at[d] = "directory"
  /\ instance[On(d)] = "active"
  /\ ~directory[On(d)]
  /\ directory' = [directory EXCEPT ![On(d)] = TRUE]
  /\ Goto(d, "upload")
  /\ UNCHANGED <<clock, instance, claimed, job, runs, reruns, taken, command, collected,
                 requested, verified, watch, status, deaths>>

Upload(d) ==
  /\ at[d] = "upload"
  /\ instance[On(d)] = "active"
  /\ clock < Reserve
  /\ Goto(d, "start")
  /\ UNCHANGED <<clock, instance, remote, taken, command, collected, requested,
                 verified, watch, status, deaths>>

\* The claim as it would be without the exclusive create.
ClaimAgain(i) ==
  /\ claimed' = [claimed EXCEPT ![i] = TRUE]
  /\ job' = [job EXCEPT ![i] = "setup"]

\* cloud_run_remote.main up to RUN_CLAIMED, an exclusive create.
Claim(i) ==
  /\ ~claimed[i]
  /\ claimed' = [claimed EXCEPT ![i] = TRUE]
  /\ job' = [job EXCEPT ![i] = "setup"]

StartRemote(d) ==
  /\ at[d] = "start"
  /\ instance[On(d)] = "active"
  /\ watch[d] # "dead"
  /\ clock < Reserve
  /\ Claim(On(d))
  /\ Goto(d, "wait")
  /\ UNCHANGED <<clock, instance, directory, runs, reruns, taken, command, collected,
                 requested, verified, watch, status, deaths>>

\* The remote command returned 0.
RemoteReturned(d) ==
  /\ at[d] = "wait"
  /\ instance[On(d)] = "active"
  /\ job[On(d)] = "ok"
  /\ Goto(d, "collect")
  /\ UNCHANGED <<clock, instance, remote, taken, command, collected, requested,
                 verified, watch, status, deaths>>

\* scp, the hashes, result.json with exit_code 0 and completed_runs 1.
Collect(d) ==
  /\ at[d] = "collect"
  /\ instance[On(d)] = "active"
  /\ job[On(d)] = "ok"
  /\ collected' = [collected EXCEPT ![d] = TRUE]
  /\ Goto(d, "request")
  /\ UNCHANGED <<clock, instance, remote, taken, command, requested,
                 verified, watch, status, deaths>>

\* finally: TERMINATE_REQUEST, whatever happened.
RequestEnd(d) ==
  /\ at[d] = "request"
  /\ requested' = requested \cup {d}
  /\ Goto(d, "linger")
  /\ UNCHANGED <<clock, instance, remote, taken, command, collected,
                 verified, watch, status, deaths>>

\* The verdict as it would be if it did not wait for the provider.
VerdictUnverified(d) ==
  [valid |-> collected[d],
   terminated |-> d \in verified,
   continues |-> d \notin verified]

\* Up to 60 looks at TERMINATION_VERIFIED.json, then the status file.
Verdict(d) ==
  [valid |-> collected[d] /\ d \in verified,
   terminated |-> d \in verified,
   continues |-> d \notin verified]

WriteStatus(d) ==
  /\ at[d] = "linger"
  /\ status' = [status EXCEPT ![d] = {Verdict(d)}]
  /\ Goto(d, "returned")
  /\ UNCHANGED <<clock, instance, remote, taken, command, collected, requested,
                 verified, watch, deaths>>

-----------------------------------------------------------------------------
(* The watchdog, watch(): detached, or run by main() in an emergency       *)

\* WATCHDOG_ARMED.json is the first thing it writes.
Arm(d) ==
  /\ watch[d] = "starting"
  /\ watch' = [watch EXCEPT ![d] = "watching"]
  /\ UNCHANGED <<clock, instance, remote, taken, at, command, collected, requested,
                 verified, status, deaths>>

\* When does an iteration of the loop call the provider?
Due(d) == clock = Over \/ d \in requested

\* One iteration that reaches the provider: an instance it no longer lists is
\* verified, any other is asked to stop.  The answer to the request is discarded.
Stop(i) == instance' = [instance EXCEPT ![i] = IF @ = "active" THEN "stopping" ELSE @]

Poll(d) ==
  /\ watch[d] = "watching"
  /\ Due(d)
  /\ Reaches(d)
  /\ IF instance[On(d)] = "gone"
       THEN /\ watch' = [watch EXCEPT ![d] = "done"]
            /\ verified' = verified \cup {d}
            /\ UNCHANGED instance
       ELSE Stop(On(d)) /\ UNCHANGED <<watch, verified>>
  /\ UNCHANGED <<clock, remote, taken, at, command, collected, requested, status, deaths>>

\* A refusal as it would be if main() only reported it.
RefuseOnly(d) ==
  /\ at[d] = "emergency"
  /\ Goto(d, "returned")
  /\ UNCHANGED <<clock, instance, remote, taken, command, collected, requested, verified,
                 watch, status, deaths>>

\* The same loop inside main(), in a directory of its own with the request in place.
Refuse(d) ==
  /\ at[d] = "emergency"
  /\ input[d] # "clock"
  /\ Reaches(d)
  /\ IF instance[On(d)] = "gone"
       THEN Goto(d, "returned") /\ UNCHANGED instance
       ELSE Stop(On(d)) /\ UNCHANGED at
  /\ UNCHANGED <<clock, remote, taken, command, collected, requested, verified,
                 watch, status, deaths>>

\* The time or the rate is refused before the loop: main() reports it, asks the
\* operator to terminate the instance, and returns.
WatchRaises(d) ==
  /\ at[d] = "emergency"
  /\ input[d] = "clock"
  /\ Goto(d, "returned")
  /\ UNCHANGED <<clock, instance, remote, taken, command, collected, requested, verified,
                 watch, status, deaths>>

\* A kill, or a local write that raises outside the loop's try block.
WatchdogDies(d) ==
  /\ deaths < MaxDeaths
  /\ watch[d] \in {"starting", "watching"}
  /\ watch' = [watch EXCEPT ![d] = "dead"]
  /\ deaths' = deaths + 1
  /\ UNCHANGED <<clock, instance, remote, taken, at, command, collected, requested,
                 verified, status>>

ControllerDies(d) ==
  /\ deaths < MaxDeaths
  /\ at[d] \notin {None, "returned", "dead"}
  /\ Goto(d, "dead")
  /\ deaths' = deaths + 1
  /\ UNCHANGED <<clock, instance, remote, taken, command, collected, requested,
                 verified, watch, status>>

-----------------------------------------------------------------------------
(* The instance                                                            *)

\* The remote command typed again in the experiment's directory.
Rerun(i) ==
  /\ reruns < MaxReruns
  /\ instance[i] = "active"
  /\ directory[i]
  /\ Claim(i)
  /\ reruns' = reruns + 1
  /\ UNCHANGED <<clock, instance, directory, runs, taken, at, command, collected,
                 requested, verified, watch, status, deaths>>

\* Disk, GPU, hashes, interpreter, wheels and models passed: the one workload.
RunWorkload(i) ==
  /\ instance[i] # "gone"
  /\ job[i] = "setup"
  /\ job' = [job EXCEPT ![i] = "running"]
  /\ runs' = [runs EXCEPT ![i] = @ + 1]
  /\ UNCHANGED <<clock, instance, directory, claimed, reruns, taken, at, command, collected,
                 requested, verified, watch, status, deaths>>

\* The workload is scored and its evidence hashed, or a step failed.
EndRemote(i) ==
  /\ instance[i] # "gone"
  /\ \/ job[i] = "running" /\ job' = [job EXCEPT ![i] = "ok"]
     \/ job[i] \in {"setup", "running"} /\ job' = [job EXCEPT ![i] = "failed"]
  /\ UNCHANGED <<clock, instance, directory, claimed, runs, reruns, taken, at, command,
                 collected, requested, verified, watch, status, deaths>>

\* The provider carries a termination out.
Vanish(i) ==
  /\ instance[i] = "stopping"
  /\ instance' = [instance EXCEPT ![i] = "gone"]
  /\ UNCHANGED <<clock, remote, taken, at, command, collected, requested, verified,
                 watch, status, deaths>>

Tick ==
  /\ clock < Over
  /\ clock' = clock + 1
  /\ UNCHANGED <<instance, remote, taken, at, command, collected, requested, verified,
                 watch, status, deaths>>


Controller(d) ==
  \/ Begin(d) \/ MakeCollection(d) \/ StartWatchdog(d) \/ AwaitArmed(d) \/ Fail(d)
  \/ Reach(d) \/ MakeDirectory(d) \/ Upload(d) \/ StartRemote(d) \/ RemoteReturned(d)
  \/ Collect(d) \/ RequestEnd(d) \/ WriteStatus(d) \/ Refuse(d) \/ WatchRaises(d)

Next ==
  \/ \E d \in Deploys : Controller(d) \/ ControllerDies(d)
  \/ \E d \in Deploys : Arm(d) \/ Poll(d) \/ WatchdogDies(d)
  \/ \E i \in Instances : Rerun(i) \/ RunWorkload(i) \/ EndRemote(i) \/ Vanish(i)
  \/ Tick

Spec == Init /\ [][Next]_vars

\* The loops of the watchdog and of the emergency retry for ever: with a credential
\* that the provider accepts, a provider that answers now and then is reached; with
\* another no iteration has an effect, and fairness asks for none (Reaches).  The
\* provider carries terminations out and time passes.  The steps of a controller that
\* lives are taken.
FairSpec ==
  /\ Spec
  /\ WF_vars(Tick)
  /\ \A d \in Deploys : WF_vars(Controller(d) /\ at[d] # None) /\ WF_vars(Arm(d)) /\ WF_vars(Poll(d))
  /\ \A i \in Instances : WF_vars(Vanish(i))

-----------------------------------------------------------------------------
\* A deploy reported as a valid benchmark is over: the instance is gone, and the
\* experiment's directory on it saw one workload, which ended well (the
\* classification COMPLETED / COLLECTED / TERMINATED).
ValidMeansOver ==
  \A d \in Deploys :
    (\E s \in status[d] : s.valid) =>
      /\ instance[On(d)] = "gone"
      /\ runs[On(d)] = 1
      /\ job[On(d)] = "ok"

\* Exactly one attempt per experiment directory, whoever starts the remote
\* command again and after whatever failure (RUN_CLAIMED is permanent).
OneAttempt == \A i \in Instances : runs[i] <= 1

\* A deploy that began ends its instance, whether it succeeds, is refused or dies.
\* Left running are those of a deploy whose ID, time, rate or credential keeps every
\* watch from the provider, of a watchdog that dies, and of a controller that dies
\* before its watchdog was started or while it ends the instance itself.
PaidInstanceEnds ==
  \A d \in Deploys :
    (at[d] # None /\ input[d] = "good") ~>
      \/ instance[On(d)] = "gone"
      \/ watch[d] = "dead"
      \/ at[d] = "dead" /\ watch[d] = None

\* The comment of main(): even a local prerequisite discovered after provisioning
\* triggers termination, a paid instance is never left idle.  It is without deaths.
NeverLeftIdle == \A d \in Deploys : (at[d] # None) ~> (instance[On(d)] = "gone" \/ deaths > 0)

\* The status file says the watchdog goes on only when it does
\* (watchdog_continues_until_verified).
StatusTellsTruth ==
  [][\A d \in Deploys : WriteStatus(d) /\ (\E s \in status'[d] : s.continues) => watch[d] = "watching"]_vars
=============================================================================
