----------------------------- MODULE Scheduler -----------------------------
(***************************************************************************)
(* The bounded scheduler of scripts/execution_scheduler.py: one batch of   *)
(* tasks with dependency edges, run on lanes of one thread each by a       *)
(* coordinator that assigns work, notices cancellation and timeouts, waits *)
(* for running actions and commits results in logical order.               *)
(*                                                                         *)
(* A task is named by its sequence number.  The coordinator is sequential: *)
(* its loop is cut into one action per iteration of each inner loop, and   *)
(* the assignment once more between the submission to a lane and its entry *)
(* in _inflight, which is where lane threads, the clock, the cancel event  *)
(* and an exception in the coordinator can come between.  An exception     *)
(* inside an action that leaves it half done has an action of its own.     *)
(***************************************************************************)
EXTENDS Naturals, Sequences, FiniteSets

CONSTANTS
  N,             \* number of tasks of the batch
  Lanes,         \* execution lanes
  NoLane,        \* not a lane
  Batches,       \* the batches submitted, see BatchType
  MaxInterrupts  \* bound on exceptions raised into the coordinator

Tasks == 1..N

\* edge[p, t]: t depends on p; require_success of that edge.  on[t]: the lanes
\* _compatible with t while healthy.  timed: tasks with timeout_s.  max:
\* max_pending of the scheduler the batch is given to.
BatchType ==
  [edge  : [Tasks \X Tasks -> {"none", "completion", "success"}],
   on    : [Tasks -> SUBSET Lanes],
   timed : SUBSET Tasks,
   prio  : [Tasks -> Nat],
   max   : Nat \ {0}]

ASSUME SchedulerAssumption ==
  /\ N \in Nat \ {0}
  /\ NoLane \notin Lanes
  /\ MaxInterrupts \in Nat
  /\ \A b \in Batches : /\ b.edge \in [Tasks \X Tasks -> {"none", "completion", "success"}]
                        /\ b.on \in [Tasks -> SUBSET Lanes]
                        /\ b.timed \subseteq Tasks
                        /\ b.prio \in [Tasks -> Nat]
                        /\ b.max \in Nat \ {0}

VARIABLES
  batch,      \* the batch submitted
  pc,         \* where the coordinator is
  visit,      \* pending tasks still to visit in this pass over them
  cur,        \* the task in hand, 0 if none
  done,       \* finished tasks still to collect in this pass
  sawCancel,  \* the local `cancelled` of this iteration
  pending,    \* admitted, neither in _inflight nor settled
  running,    \* keys of _inflight
  outcome,    \* self.outcomes, "none" before there is one
  committed,  \* tasks publish_ready has passed
  accepted,   \* the tasks whose commit was called and returned, in that order
  override,   \* terminal_override
  busy,       \* lanes whose worker.busy is set
  healthy,    \* lanes whose worker.healthy is set
  lane,       \* the lane a task was assigned
  stop,       \* tasks whose stop event is set
  act,        \* what the lane thread does with the task (_execute)
  result,     \* the state of the outcome _execute returns
  late,       \* tasks whose timeout has elapsed since their assignment
  cancel,     \* the caller's cancel event
  interrupts

coordVars == <<pc, visit, cur, done, sawCancel>>
taskVars  == <<pending, running, outcome, committed, accepted, override>>
laneVars  == <<busy, healthy, lane, stop, act, result>>
envVars   == <<late, cancel, interrupts>>
vars == <<batch, coordVars, taskVars, laneVars, envVars>>

States == {"completed", "refused", "failed", "cancelled", "timed_out", "blocked",
           "unavailable", "interrupted"}

TypeOK ==
  /\ batch \in Batches
  /\ pc \in {"idle", "poll", "visit", "commit", "assign", "handed", "wait", "collect",
             "publish", "draining", "returned", "raised", "refused"}
  /\ visit \subseteq Tasks /\ done \subseteq Tasks
  /\ cur \in Tasks \cup {0}
  /\ sawCancel \in BOOLEAN
  /\ pending \subseteq Tasks /\ running \subseteq Tasks
  /\ outcome \in [Tasks -> States \cup {"none"}]
  /\ committed \subseteq Tasks
  /\ accepted \in Seq(Tasks)
  /\ override \in [Tasks -> {"none", "cancelled", "timed_out"}]
  /\ busy \subseteq Lanes /\ healthy \subseteq Lanes
  /\ lane \in [Tasks -> Lanes \cup {NoLane}]
  /\ stop \subseteq Tasks
  /\ act \in [Tasks -> {"none", "submitted", "acting", "finished"}]
  /\ result \in [Tasks -> {"none", "completed", "refused", "failed", "cancelled"}]
  /\ late \subseteq Tasks
  /\ cancel \in BOOLEAN
  /\ interrupts \in 0..MaxInterrupts

Init ==
  /\ batch \in Batches
  /\ pc = "idle"
  /\ visit = {} /\ done = {} /\ cur = 0 /\ sawCancel = FALSE
  /\ pending = {} /\ running = {}
  /\ outcome = [t \in Tasks |-> "none"]
  /\ committed = {} /\ accepted = <<>>
  /\ override = [t \in Tasks |-> "none"]
  /\ busy = {} /\ healthy = Lanes
  /\ lane = [t \in Tasks |-> NoLane]
  /\ stop = {}
  /\ act = [t \in Tasks |-> "none"]
  /\ result = [t \in Tasks |-> "none"]
  /\ late = {} /\ cancel = FALSE /\ interrupts = 0

-----------------------------------------------------------------------------
(* Edges, order and lanes.                                                 *)

Parents(t)     == {p \in Tasks : batch.edge[p, t] # "none"}
MustSucceed(t) == {p \in Tasks : batch.edge[p, t] = "success"}
HasOutcome(t)  == outcome[t] # "none"
Compatible(t)  == batch.on[t] \cap healthy

\* sorted(pending, key = (-priority, sequence, id))
Before(t, u) == batch.prio[t] > batch.prio[u] \/ (batch.prio[t] = batch.prio[u] /\ t < u)

\* _validate: nothing of an oversized batch, or of one whose sequence numbers
\* contradict its edges, is accepted.
\* A mutant: the order of the sequence numbers is not checked.
ValidSize == N <= batch.max

Valid ==
  /\ N <= batch.max
  /\ \A t \in Tasks : \A p \in Parents(t) : p < t

ParentFailed(t) == \E p \in MustSucceed(t) : outcome[p] # "completed"

Settle(t, state) ==
  /\ outcome' = [outcome EXCEPT ![t] = state]
  /\ pending' = pending \ {t}

-----------------------------------------------------------------------------
(* The coordinator: run and _run.                                          *)

Admit ==
  /\ pc = "idle"
  /\ Valid
  /\ pending' = Tasks
  /\ pc' = "poll"
  /\ UNCHANGED <<batch, visit, cur, done, sawCancel, running, outcome, committed, accepted,
                 override, laneVars, envVars>>

Refuse ==
  /\ pc = "idle"
  /\ ~ Valid
  /\ pc' = "refused"
  /\ UNCHANGED <<batch, visit, cur, done, sawCancel, taskVars, laneVars, envVars>>

\* The head of the while loop: cancellation and elapsed timeouts stop actions.
Poll ==
  /\ pc = "poll"
  /\ sawCancel' = cancel
  /\ LET hit == {t \in running : cancel \/ t \in late} IN
       /\ override' = [t \in Tasks |-> IF t \notin hit THEN override[t]
                                       ELSE IF cancel THEN "cancelled" ELSE "timed_out"]
       /\ stop' = stop \cup hit
  /\ visit' = pending
  /\ pc' = "visit"
  /\ UNCHANGED <<batch, cur, done, pending, running, outcome, committed, accepted, busy,
                 healthy, lane, act, result, envVars>>

\* One pending task is visited, up to the publish_ready() before its assignment.
Visit(t) ==
  /\ pc = "visit"
  /\ t \in visit
  /\ \A u \in visit \ {t} : Before(t, u)
  /\ visit' = visit \ {t}
  /\ \/ /\ sawCancel
        /\ Settle(t, "cancelled")
        /\ UNCHANGED <<pc, cur>>
     \/ /\ ~ sawCancel
        /\ \E p \in Parents(t) : ~ HasOutcome(p)
        /\ UNCHANGED <<pc, cur, outcome, pending>>
     \/ /\ ~ sawCancel
        /\ \A p \in Parents(t) : HasOutcome(p)
        /\ ParentFailed(t)
        /\ Settle(t, "blocked")
        /\ UNCHANGED <<pc, cur>>
     \/ /\ ~ sawCancel
        /\ \A p \in Parents(t) : HasOutcome(p)
        /\ ~ ParentFailed(t)
        /\ cur' = t
        /\ pc' = "commit"
        /\ UNCHANGED <<outcome, pending>>
  /\ UNCHANGED <<batch, done, sawCancel, running, committed, accepted, override, laneVars,
                 envVars>>

\* publish_ready: the next task in logical order, if it has an outcome.
\* A mutant: outcomes are published as they come.
NextToCommitAnyOrder(t) == t \notin committed /\ HasOutcome(t)

NextToCommit(t) ==
  /\ t \notin committed
  /\ \A u \in Tasks : u < t => u \in committed
  /\ HasOutcome(t)

\* task.commit: called for a completed result only; if it raises, the task failed.
CallCommit(t) ==
  \/ /\ outcome[t] = "completed"
     /\ accepted' = Append(accepted, t)
     /\ UNCHANGED outcome
  \/ /\ outcome[t] = "completed"
     /\ outcome' = [outcome EXCEPT ![t] = "failed"]
     /\ UNCHANGED accepted
  \/ /\ outcome[t] # "completed"
     /\ UNCHANGED <<outcome, accepted>>

Commit(t) ==
  /\ pc \in {"commit", "publish"}
  /\ NextToCommit(t)
  /\ CallCommit(t)
  /\ committed' = committed \cup {t}
  /\ UNCHANGED <<batch, coordVars, pending, running, override, laneVars, envVars>>

CommitEnds ==
  /\ pc = "commit"
  /\ \A t \in Tasks : ~ NextToCommit(t)
  /\ pc' = "assign"
  /\ UNCHANGED <<batch, visit, cur, done, sawCancel, taskVars, laneVars, envVars>>

\* The rest of the visit: a parent whose commit failed blocks, one not committed
\* yet defers; then a lane is taken if a compatible one is free, and the action is
\* submitted to it: from here on the lane thread may run it.
\* A mutant: a settled parent is enough, published or not.
AssignUncommitted ==
  /\ pc = "assign"
  /\ ~ ParentFailed(cur)
  /\ \E l \in Compatible(cur) \ busy :
       /\ busy' = busy \cup {l}
       /\ lane' = [lane EXCEPT ![cur] = l]
  /\ act' = [act EXCEPT ![cur] = "submitted"]
  /\ pc' = "handed"
  /\ UNCHANGED <<batch, visit, cur, done, sawCancel, taskVars, healthy, stop, result, envVars>>

Assign ==
  /\ pc = "assign"
  /\ \/ /\ ParentFailed(cur)
        /\ Settle(cur, "blocked")
        /\ cur' = 0 /\ pc' = "visit"
        /\ UNCHANGED laneVars
     \/ /\ ~ ParentFailed(cur)
        /\ ~ (Parents(cur) \subseteq committed)
        /\ cur' = 0 /\ pc' = "visit"
        /\ UNCHANGED <<outcome, pending, laneVars>>
     \/ /\ ~ ParentFailed(cur)
        /\ Parents(cur) \subseteq committed
        /\ Compatible(cur) = {}
        /\ Settle(cur, "unavailable")
        /\ cur' = 0 /\ pc' = "visit"
        /\ UNCHANGED laneVars
     \/ /\ ~ ParentFailed(cur)
        /\ Parents(cur) \subseteq committed
        /\ Compatible(cur) # {}
        /\ Compatible(cur) \subseteq busy
        /\ cur' = 0 /\ pc' = "visit"
        /\ UNCHANGED <<outcome, pending, laneVars>>
     \/ /\ ~ ParentFailed(cur)
        /\ Parents(cur) \subseteq committed
        /\ \E l \in Compatible(cur) \ busy :
             /\ busy' = busy \cup {l}
             /\ lane' = [lane EXCEPT ![cur] = l]
        /\ act' = [act EXCEPT ![cur] = "submitted"]
        /\ pc' = "handed"
        /\ UNCHANGED <<cur, outcome, pending, healthy, stop, result>>
  /\ UNCHANGED <<batch, visit, done, sawCancel, running, committed, accepted, override, envVars>>

\* The future enters _inflight, where cancel, timeout and drain find it.
Register ==
  /\ pc = "handed"
  /\ running' = running \cup {cur}
  /\ pending' = pending \ {cur}
  /\ cur' = 0
  /\ pc' = "visit"
  /\ UNCHANGED <<batch, visit, done, sawCancel, outcome, committed, accepted, override, laneVars,
                 envVars>>

\* The pass is over: wait for a running action, or publish if none runs.
VisitEnds ==
  /\ pc = "visit"
  /\ visit = {}
  /\ pc' = IF running # {} THEN "wait" ELSE "publish"
  /\ UNCHANGED <<batch, visit, cur, done, sawCancel, taskVars, laneVars, envVars>>

Wait ==
  /\ pc = "wait"
  /\ done' = {t \in running : act[t] = "finished"}
  /\ pc' = "collect"
  /\ UNCHANGED <<batch, visit, cur, sawCancel, taskVars, laneVars, envVars>>

\* A finished action is drained and its lane released; what cancel or timeout
\* decided prevails over what the action returned.
Collected(t) ==
  IF cancel THEN "cancelled"
  ELSE IF t \in late THEN "timed_out"
  ELSE override[t]

Collect(t) ==
  /\ pc = "collect"
  /\ t \in done
  /\ done' = done \ {t}
  /\ running' = running \ {t}
  /\ busy' = busy \ {lane[t]}
  /\ override' = [override EXCEPT ![t] = Collected(t)]
  /\ outcome' = [outcome EXCEPT ![t] = IF Collected(t) = "none" THEN result[t] ELSE Collected(t)]
  /\ UNCHANGED <<batch, pc, visit, cur, sawCancel, pending, committed, accepted, healthy, lane,
                 stop, act, result, envVars>>

CollectEnds ==
  /\ pc = "collect"
  /\ done = {}
  /\ pc' = "publish"
  /\ UNCHANGED <<batch, visit, cur, done, sawCancel, taskVars, laneVars, envVars>>

\* The end of the while body: go on while work is left.
\* A mutant: what still runs is forgotten.
PublishEndsEarly ==
  /\ pc = "publish"
  /\ \A t \in Tasks : ~ NextToCommit(t)
  /\ pc' = IF pending # {} THEN "poll" ELSE "returned"
  /\ UNCHANGED <<batch, visit, cur, done, sawCancel, taskVars, laneVars, envVars>>

PublishEnds ==
  /\ pc = "publish"
  /\ \A t \in Tasks : ~ NextToCommit(t)
  /\ pc' = IF pending \cup running # {} THEN "poll" ELSE "returned"
  /\ UNCHANGED <<batch, visit, cur, done, sawCancel, taskVars, laneVars, envVars>>

-----------------------------------------------------------------------------
(* An exception in the coordinator (KeyboardInterrupt, a failing event     *)
(* sink): stop and drain what runs, mark the admission terminal, raise.    *)

Working == {"poll", "visit", "commit", "assign", "handed", "wait", "collect", "publish"}

\* The handler starts: what is in _inflight is told to stop.
ToDrain(inflight) ==
  /\ interrupts < MaxInterrupts
  /\ interrupts' = interrupts + 1
  /\ stop' = stop \cup inflight
  /\ pc' = "draining"
  /\ UNCHANGED <<batch, visit, cur, done, sawCancel, pending, committed, override, healthy, lane,
                 act, result, late, cancel>>

\* Between two steps.  At "handed" the action in hand is on its lane and not yet
\* in _inflight.
Interrupt ==
  /\ pc \in Working
  /\ ToDrain(running)
  /\ UNCHANGED <<running, outcome, accepted, busy>>

\* After a lane was marked busy and before the task was given to it (the sink
\* raises, or the submission does): the lane keeps its mark.
InterruptAssigning ==
  /\ pc = "assign"
  /\ ~ ParentFailed(cur) /\ Parents(cur) \subseteq committed
  /\ \E l \in Compatible(cur) \ busy : busy' = busy \cup {l}
  /\ ToDrain(running)
  /\ UNCHANGED <<running, outcome, accepted>>

\* After the commit was called and before the task counts as committed.
InterruptCommitting(t) ==
  /\ pc \in {"commit", "publish"}
  /\ NextToCommit(t)
  /\ CallCommit(t)
  /\ ToDrain(running)
  /\ UNCHANGED <<running, busy>>

\* After a finished action left _inflight and before its outcome is recorded (the
\* sink raised in its lane thread and future.result() raises that again, or an
\* exception comes in between), with its lane released or not yet.
InterruptCollecting(t) ==
  /\ pc = "collect"
  /\ t \in done
  /\ running' = running \ {t}
  /\ busy' \in {busy, busy \ {lane[t]}}
  /\ ToDrain(running')
  /\ UNCHANGED <<outcome, accepted>>

\* future.result() of one running task, in its `except BaseException: pass`: the
\* action ended, or a second interrupt ended the wait for it.
Release(t) ==
  /\ running' = running \ {t}
  /\ busy' = busy \ {lane[t]}
  /\ UNCHANGED <<batch, coordVars, pending, outcome, committed, accepted, override, healthy,
                 lane, stop, act, result, late, cancel>>

\* A mutant: the lane is released without waiting for the action.
DrainAtOnce(t) == pc = "draining" /\ t \in running /\ Release(t) /\ UNCHANGED interrupts

Drain(t) ==
  /\ pc = "draining"
  /\ t \in running
  /\ act[t] = "finished"
  /\ Release(t)
  /\ UNCHANGED interrupts

DrainInterrupted(t) ==
  /\ pc = "draining"
  /\ t \in running
  /\ act[t] # "finished"
  /\ interrupts < MaxInterrupts
  /\ interrupts' = interrupts + 1
  /\ Release(t)

\* Mutants: every outcome is overwritten; or with a state nobody knows.
RaiseMarksAll ==
  /\ pc = "draining" /\ running = {}
  /\ outcome' = [t \in Tasks |-> "interrupted"]
  /\ pc' = "raised"
  /\ UNCHANGED <<batch, visit, cur, done, sawCancel, pending, running, committed, accepted,
                 override, laneVars, envVars>>

Raise ==
  /\ pc = "draining"
  /\ running = {}
  /\ outcome' = [t \in Tasks |-> IF HasOutcome(t) THEN outcome[t] ELSE "interrupted"]
  /\ pc' = "raised"
  /\ UNCHANGED <<batch, visit, cur, done, sawCancel, pending, running, committed, accepted,
                 override, laneVars, envVars>>

\* A second exception anywhere else in the handler leaves it: what is in
\* _inflight stays there and nothing is marked.
Abandon ==
  /\ pc = "draining"
  /\ interrupts < MaxInterrupts
  /\ interrupts' = interrupts + 1
  /\ pc' = "raised"
  /\ UNCHANGED <<batch, visit, cur, done, sawCancel, taskVars, laneVars, late, cancel>>

-----------------------------------------------------------------------------
(* Lane threads (_execute), clock and caller.                              *)

\* The checkpoint before the action.
Begin(t) ==
  /\ act[t] = "submitted"
  /\ \/ /\ t \in stop
        /\ act' = [act EXCEPT ![t] = "finished"]
        /\ result' = [result EXCEPT ![t] = "cancelled"]
     \/ /\ t \notin stop
        /\ act' = [act EXCEPT ![t] = "acting"]
        /\ UNCHANGED result
  /\ UNCHANGED <<batch, coordVars, taskVars, busy, healthy, lane, stop, envVars>>

\* The action returns and the checkpoint after it; it may answer {"ok": False},
\* raise, and leave its worker unhealthy (a failed model initialisation).
Finish(t) ==
  /\ act[t] = "acting"
  /\ act' = [act EXCEPT ![t] = "finished"]
  /\ \/ /\ \E s \in (IF t \in stop THEN {"cancelled"} ELSE {"completed", "refused"}) :
             result' = [result EXCEPT ![t] = s]
        /\ UNCHANGED healthy
     \/ /\ result' = [result EXCEPT ![t] = "failed"]
        /\ healthy' \in {healthy, healthy \ {lane[t]}}
  /\ UNCHANGED <<batch, coordVars, taskVars, busy, lane, stop, envVars>>

Elapse(t) ==
  /\ t \in running /\ t \in batch.timed /\ t \notin late
  /\ late' = late \cup {t}
  /\ UNCHANGED <<batch, coordVars, taskVars, laneVars, cancel, interrupts>>

CallerCancels ==
  /\ ~ cancel
  /\ pc \in Working
  /\ cancel' = TRUE
  /\ UNCHANGED <<batch, coordVars, taskVars, laneVars, late, interrupts>>

-----------------------------------------------------------------------------
Coordinator ==
  \/ Admit \/ Refuse \/ Poll \/ CommitEnds \/ Assign \/ Register \/ VisitEnds \/ Wait
  \/ CollectEnds \/ PublishEnds \/ Raise
  \/ \E t \in Tasks : Visit(t) \/ Commit(t) \/ Collect(t) \/ Drain(t)

\* The call is over and no lane thread is at work.
Over ==
  /\ pc \in {"returned", "raised", "refused"}
  /\ UNCHANGED vars

Next ==
  \/ Coordinator
  \/ Interrupt \/ InterruptAssigning \/ Abandon
  \/ \E t \in Tasks : InterruptCommitting(t) \/ InterruptCollecting(t) \/ DrainInterrupted(t)
  \/ \E t \in Tasks : Begin(t) \/ Finish(t) \/ Elapse(t)
  \/ CallerCancels
  \/ Over

Spec == Init /\ [][Next]_vars

\* The coordinator and the lane threads keep running, and actions return: the
\* scheduler does not pre-empt an action, it waits for it.
Fairness ==
  /\ WF_vars(Coordinator)
  /\ \A t \in Tasks : WF_vars(Begin(t) \/ Finish(t))

FairSpec == Spec /\ Fairness

-----------------------------------------------------------------------------
(* Safety.                                                                 *)

AtWork(t) == act[t] \in {"submitted", "acting"}

\* Two tasks never hold one lane, and no lane is free for another task while an
\* action runs on it, timed out, cancelled or interrupted ("Timeouts drain
\* running actions", execution_scheduler.py:5).
LaneExclusive ==
  \A t \in Tasks : AtWork(t) =>
    /\ lane[t] \in busy
    /\ \A u \in Tasks \ {t} : AtWork(u) => lane[u] # lane[t]

\* A task is given to a lane only when everything it depends on is settled and
\* published, and what had to succeed did, its commit included: the outcome a
\* consumer was started on is never taken back ("Commit parents before
\* consumers see their accepted evidence", 251).
ConsumerSeesEvidence ==
  \A t \in Tasks : lane[t] # NoLane =>
    /\ Parents(t) \subseteq committed
    /\ \A p \in MustSucceed(t) : outcome[p] = "completed" /\ \E i \in DOMAIN accepted : accepted[i] = p

\* Evidence is accepted in logical order, once, from tasks that completed,
\* whatever the order in which lanes finish (publish_ready).
EvidenceOrdered ==
  /\ \A i, j \in DOMAIN accepted : i < j => accepted[i] < accepted[j]
  /\ \A i \in DOMAIN accepted : outcome[accepted[i]] = "completed"

\* A call that returns has settled and published every task, accepted the
\* evidence of those that completed and released every lane.  One that raises
\* has settled every task and waited for every action in _inflight: the only
\* action it may leave at work is that of the task it had just handed to a lane.
\* A batch never has more tasks waiting than the ready queue may hold.
CallComplete ==
  /\ pc = "returned" => /\ \A t \in Tasks : HasOutcome(t) /\ ~ AtWork(t)
                        /\ committed = Tasks
                        /\ busy = {}
                        /\ \A t \in Tasks : outcome[t] = "completed" =>
                             \E i \in DOMAIN accepted : accepted[i] = t
  /\ pc = "raised" => \A t \in Tasks : /\ HasOutcome(t)
                                      /\ AtWork(t) => t = cur /\ t \in pending
  /\ Cardinality(pending) <= batch.max

\* A published outcome is final: a consumer may have been started on it.
PublishedIsFinal == [][\A t \in committed : outcome'[t] = outcome[t]]_vars

-----------------------------------------------------------------------------
(* Liveness, under FairSpec.                                               *)

\* Every call ends: no pending task waits for ever on a parent, on the logical
\* order or on a lane.
CallEnds == pc = "poll" ~> pc \in {"returned", "raised"}

-----------------------------------------------------------------------------
(* Comments TLC refutes.                                                   *)

\* "Drain, mark the admission terminal, then raise" (execution_scheduler.py:181):
\* of the call that raises no action is left at work.
RaisedMeansDrained == pc = "raised" => \A t \in Tasks : ~ AtWork(t)

\* "An interrupted coordinator cannot leave a lane reusable while an action
\* still runs" (execution_scheduler.py:180).
LaneHeldWhileActing == \A t \in Tasks : AtWork(t) => lane[t] \in busy
=============================================================================
