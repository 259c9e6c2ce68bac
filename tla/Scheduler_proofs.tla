-------------------------- MODULE Scheduler_proofs --------------------------
(***************************************************************************)
(* Proofs about Scheduler, for any number of tasks and lanes, any batches, *)
(* and any number of interrupts of the coordinator.  The invariant follows *)
(* a task: where it is (Placed), what is published of it (Published), what *)
(* the coordinator has in hand (InHand) and the lane it holds (LanesHeld). *)
(***************************************************************************)
EXTENDS Scheduler, FiniteSetTheorems, TLAPS

\* Before the admission, and after a refusal, there is no trace of the batch.
Unadmitted ==
  pc \in {"idle", "refused"} =>
    /\ pending = {} /\ running = {} /\ committed = {} /\ accepted = <<>> /\ busy = {}
    /\ \A t \in Tasks : outcome[t] = "none" /\ act[t] = "none" /\ lane[t] = NoLane

\* While the coordinator works, a task is in exactly one place: pending,
\* running or settled.
Placed ==
  /\ pending \cap running = {}
  /\ pc # "raised" => \A t \in Tasks : HasOutcome(t) => t \notin pending \cup running
  /\ pc \in Working \cup {"returned"} => \A t \in Tasks : HasOutcome(t) \/ t \in pending \cup running
  /\ pc = "returned" => pending \cup running = {}
  /\ pc = "raised" /\ interrupts <= 1 => running = {} /\ \A t \in Tasks : HasOutcome(t)

\* A prefix of the logical order is published: all of it settled, and of the
\* completed ones the evidence is accepted, in that order; an exception may leave
\* one more accepted that does not count as published.
Published ==
  /\ \E k \in 0..N : committed = 1..k
  /\ \A t \in committed : HasOutcome(t)
  /\ \A t \in committed : outcome[t] = "completed" => \E i \in DOMAIN accepted : accepted[i] = t
  /\ pc \notin {"draining", "raised"} => \A i \in DOMAIN accepted : accepted[i] \in committed
  /\ pc = "returned" => committed = Tasks
  /\ EvidenceOrdered

\* The task in hand and those still to visit are pending; those still to
\* collect are running, and their actions have ended.
InHand ==
  /\ pc \in {"visit", "commit", "assign", "handed"} => visit \subseteq pending
  /\ pc \in {"commit", "assign", "handed"} => cur \in pending \ visit
  /\ pc = "handed" => act[cur] # "none"
  /\ pc = "collect" => \A t \in done : t \in running /\ act[t] = "finished"

\* The tasks a lane was given and the coordinator has not let go: those in
\* _inflight and the one just handed over.
Holders == running \cup {t \in pending : act[t] # "none"}

\* Every holder has a lane of its own; and only they hold one, until an exception
\* in the coordinator leaves the mark of a lane it was taking or releasing.
LanesHeld ==
  /\ \A t \in Tasks : lane[t] = NoLane <=> act[t] = "none"
  /\ \A t \in pending : act[t] # "none" => t = cur /\ pc \in {"handed", "draining", "raised"}
  /\ \A t \in Holders : act[t] # "none" /\ lane[t] \in busy
  /\ \A t, u \in Holders : t # u => lane[t] # lane[u]
  /\ \A t \in Tasks : act[t] = "finished" => result[t] # "none"
  /\ pc \in Working \cup {"returned"} => \A l \in busy : \E t \in Holders : lane[t] = l

\* No action is at work on a task the coordinator has let go, but for the one
\* whose wait a second interrupt ended.
AwaitedOrInterrupted ==
  /\ pc \in {"draining", "raised"} => interrupts >= 1
  /\ \A t \in Tasks : AtWork(t) => t \in Holders \/ interrupts > 1

IInv ==
  /\ TypeOK /\ Unadmitted /\ Placed /\ Published /\ InHand /\ LanesHeld
  /\ AwaitedOrInterrupted /\ ConsumerSeesEvidence

USE DEF coordVars, taskVars, laneVars, envVars

-----------------------------------------------------------------------------
(* The operators the steps are built from.                                 *)

\* What publishes next is the first task not yet published.
LEMMA NextIsFirst ==
  ASSUME NEW k \in 0..N, committed = 1..k, NEW t \in Tasks, NextToCommit(t)
  PROVE  t = k + 1 /\ committed \cup {t} = 1..(k + 1) /\ k + 1 \in 0..N
<1>1. t \in 1..N /\ t \notin 1..k /\ \A u \in 1..N : u < t => u \in 1..k
  BY DEF NextToCommit, Tasks
<1>2. k \in Nat /\ N \in Nat
  BY SchedulerAssumption
<1>3. t = k + 1
  <2>1. t > k
    BY <1>1, <1>2
  <2>2. k + 1 < t => k + 1 \in 1..k
    BY <1>1, <1>2, <2>1
  <2>. QED
    BY <1>1, <1>2, <2>1, <2>2
<1>. QED
  BY <1>1, <1>2, <1>3

\* What is collected is never without a state.
LEMMA CollectedState ==
  ASSUME TypeOK, NEW t \in Tasks, result[t] # "none"
  PROVE  /\ Collected(t) \in {"none", "cancelled", "timed_out"}
         /\ (IF Collected(t) = "none" THEN result[t] ELSE Collected(t)) \in States
BY DEF TypeOK, Collected, States

\* The exceptions that reach the handler, and the second one that leaves it.
Excepted ==
  \/ Interrupt \/ InterruptAssigning \/ Abandon
  \/ \E t \in Tasks : InterruptCommitting(t) \/ InterruptCollecting(t)

\* They count; they leave tasks pending, published and with their lanes; what
\* leaves _inflight is a finished action; and only the second one raises at once.
LEMMA ExceptedStep ==
  ASSUME TypeOK, InHand, AwaitedOrInterrupted, Excepted
  PROVE  /\ interrupts \in Nat /\ interrupts' = interrupts + 1 /\ interrupts' \in 0..MaxInterrupts
         /\ UNCHANGED <<batch, visit, cur, pending, committed, lane, act, result>>
         /\ pc \in Working \cup {"draining"}
         /\ pc' = "draining" \/ (pc' = "raised" /\ interrupts' > 1)
         /\ running' \subseteq running /\ \A t \in running \ running' : act[t] = "finished"
         /\ \A t \in Tasks : outcome'[t] # outcome[t] => outcome[t] = "completed" /\ outcome'[t] = "failed" /\ NextToCommit(t)
<1>1. interrupts \in Nat /\ interrupts' = interrupts + 1 /\ interrupts' \in 0..MaxInterrupts
  BY SchedulerAssumption DEF Excepted, Interrupt, InterruptAssigning, InterruptCommitting, InterruptCollecting,
     Abandon, ToDrain, TypeOK
<1>2. CASE Abandon
  BY <1>1, <1>2 DEF Abandon, AwaitedOrInterrupted
<1>3. CASE Interrupt \/ InterruptAssigning
  BY <1>1, <1>3 DEF Interrupt, InterruptAssigning, ToDrain, Working
<1>4. ASSUME NEW t \in Tasks, InterruptCommitting(t)
      PROVE  /\ UNCHANGED <<batch, visit, cur, pending, committed, lane, act, result, running>>
             /\ pc \in Working /\ pc' = "draining"
             /\ \A u \in Tasks : outcome'[u] # outcome[u] => outcome[u] = "completed" /\ outcome'[u] = "failed" /\ NextToCommit(u)
  BY <1>4 DEF InterruptCommitting, CallCommit, ToDrain, Working, TypeOK
<1>5. ASSUME NEW t \in Tasks, InterruptCollecting(t)
      PROVE  /\ UNCHANGED <<batch, visit, cur, pending, committed, lane, act, result, outcome>>
             /\ pc \in Working /\ pc' = "draining"
             /\ running' = running \ {t} /\ act[t] = "finished"
  BY <1>5 DEF InterruptCollecting, ToDrain, Working, InHand
<1>. QED
  BY <1>1, <1>2, <1>3, <1>4, <1>5 DEF Excepted

-----------------------------------------------------------------------------
(* Type correctness.                                                       *)

LEMMA InitType == Init => TypeOK
<1> SUFFICES ASSUME Init PROVE TypeOK
  OBVIOUS
<1>1. accepted \in Seq(Tasks)
  BY DEF Init
<1>2. interrupts \in 0..MaxInterrupts
  BY SchedulerAssumption DEF Init
<1>3. outcome \in [Tasks -> States \cup {"none"}] /\ override \in [Tasks -> {"none", "cancelled", "timed_out"}]
  BY DEF Init
<1>. QED
  BY <1>1, <1>2, <1>3 DEF Init, TypeOK

\* Every variable keeps its type, provided what is collected has a result.
LEMMA TypeStep ==
  ASSUME TypeOK, InHand, LanesHeld, AwaitedOrInterrupted, [Next]_vars
  PROVE  TypeOK'
<1> USE DEF TypeOK
<1>1. CASE Admit \/ Refuse \/ Poll \/ CommitEnds \/ VisitEnds \/ Wait \/ CollectEnds \/ PublishEnds
  <2>1. CASE Poll
    <3>1. override' \in [Tasks -> {"none", "cancelled", "timed_out"}]
      BY <2>1 DEF Poll
    <3>. QED
      BY <2>1, <3>1 DEF Poll
  <2>2. CASE Admit \/ Refuse \/ CommitEnds \/ VisitEnds \/ CollectEnds \/ PublishEnds
    BY <2>2 DEF Admit, Refuse, CommitEnds, VisitEnds, CollectEnds, PublishEnds
  <2>3. CASE Wait
    BY <2>3 DEF Wait
  <2>. QED
    BY <1>1, <2>1, <2>2, <2>3
<1>2. CASE Assign
  <2>1. CASE pc' # "handed"
    BY <1>2, <2>1 DEF Assign, Settle, States
  <2>2. CASE pc' = "handed"
    <3>1. PICK l \in Compatible(cur) \ busy :
                 busy' = busy \cup {l} /\ lane' = [lane EXCEPT ![cur] = l]
      BY <1>2, <2>2 DEF Assign
    <3>2. l \in Lanes /\ cur \in Tasks
      <4>1. batch.on[cur] \cap healthy \subseteq Lanes
        OBVIOUS
      <4>. QED
        BY <1>2, <4>1 DEF Compatible, InHand, Assign
    <3>3. lane' \in [Tasks -> Lanes \cup {NoLane}] /\ busy' \subseteq Lanes
      BY <3>1, <3>2
    <3>4. act' = [act EXCEPT ![cur] = "submitted"]
          /\ UNCHANGED <<cur, outcome, pending, running, healthy, stop, result>>
      BY <1>2, <2>2 DEF Assign
    <3>. QED
      BY <1>2, <2>2, <3>2, <3>3, <3>4 DEF Assign
  <2>. QED
    BY <2>1, <2>2
<1>3. CASE Raise
  <2>1. outcome' \in [Tasks -> States \cup {"none"}]
    BY <1>3 DEF Raise, States
  <2>. QED
    BY <1>3, <2>1 DEF Raise
<1>4. ASSUME NEW t \in Tasks, Visit(t) PROVE TypeOK'
  BY <1>4 DEF Visit, Settle, States
<1>5. ASSUME NEW t \in Tasks, Commit(t) PROVE TypeOK'
  <2>1. accepted' \in Seq(Tasks)
    BY <1>5 DEF Commit, CallCommit
  <2>2. outcome' \in [Tasks -> States \cup {"none"}]
    BY <1>5 DEF Commit, CallCommit, States
  <2>. QED
    BY <1>5, <2>1, <2>2 DEF Commit
<1>6. ASSUME NEW t \in Tasks, Collect(t) PROVE TypeOK'
  <2>1. result[t] # "none"
    BY <1>6 DEF Collect, InHand, LanesHeld
  <2>2. outcome' \in [Tasks -> States \cup {"none"}] /\ override' \in [Tasks -> {"none", "cancelled", "timed_out"}]
    BY <1>6, <2>1, CollectedState DEF Collect
  <2>. QED
    BY <1>6, <2>2 DEF Collect
<1>7. CASE Excepted
  <2>1. interrupts' \in 0..MaxInterrupts /\ UNCHANGED <<batch, visit, cur, pending, committed, lane, act, result>>
        /\ running' \subseteq running /\ pc' \in {"draining", "raised"}
    BY <1>7, ExceptedStep
  <2>2. busy' \subseteq Lanes /\ stop' \subseteq Tasks /\ outcome' \in [Tasks -> States \cup {"none"}] /\ accepted' \in Seq(Tasks)
    <3>1. CASE Interrupt \/ Abandon
      BY <3>1 DEF Interrupt, Abandon, ToDrain
    <3>2. CASE InterruptAssigning
      BY <3>2 DEF InterruptAssigning, Compatible, ToDrain
    <3>3. ASSUME NEW t \in Tasks, InterruptCommitting(t)
          PROVE  busy' \subseteq Lanes /\ stop' \subseteq Tasks /\ outcome' \in [Tasks -> States \cup {"none"}] /\ accepted' \in Seq(Tasks)
      BY <3>3 DEF InterruptCommitting, CallCommit, ToDrain, States
    <3>4. ASSUME NEW t \in Tasks, InterruptCollecting(t)
          PROVE  busy' \subseteq Lanes /\ stop' \subseteq Tasks /\ outcome' \in [Tasks -> States \cup {"none"}] /\ accepted' \in Seq(Tasks)
      BY <3>4 DEF InterruptCollecting, ToDrain
    <3>. QED
      BY <1>7, <3>1, <3>2, <3>3, <3>4 DEF Excepted
  <2>3. UNCHANGED <<done, sawCancel, override, healthy, late, cancel>>
    BY <1>7 DEF Excepted, Interrupt, InterruptAssigning, InterruptCommitting, InterruptCollecting, Abandon, ToDrain
  <2>. QED
    BY <2>1, <2>2, <2>3
<1>8. ASSUME NEW t \in Tasks, Drain(t) \/ DrainInterrupted(t) PROVE TypeOK'
  <2>1. interrupts' \in 0..MaxInterrupts
    BY <1>8, SchedulerAssumption DEF Drain, DrainInterrupted
  <2>. QED
    BY <1>8, <2>1 DEF Drain, DrainInterrupted, Release
<1>9. ASSUME NEW t \in Tasks, Begin(t) \/ Finish(t) PROVE TypeOK'
  <2>1. act' \in [Tasks -> {"none", "submitted", "acting", "finished"}]
    BY <1>9 DEF Begin, Finish
  <2>2. result' \in [Tasks -> {"none", "completed", "refused", "failed", "cancelled"}]
    BY <1>9 DEF Begin, Finish
  <2>3. healthy' \subseteq Lanes
    BY <1>9 DEF Begin, Finish
  <2>. QED
    BY <1>9, <2>1, <2>2, <2>3 DEF Begin, Finish
<1>10. ASSUME NEW t \in Tasks, Elapse(t) PROVE TypeOK'
  BY <1>10 DEF Elapse
<1>11. CASE CallerCancels
  BY <1>11 DEF CallerCancels
<1>12. CASE UNCHANGED vars
  BY <1>12 DEF vars
<1>13. CASE Register
  <2>1. cur \in Tasks
    BY <1>13 DEF Register, InHand
  <2>. QED
    BY <1>13, <2>1 DEF Register
<1>. QED
  BY <1>1, <1>2, <1>3, <1>4, <1>5, <1>6, <1>7, <1>8, <1>9, <1>10, <1>11, <1>12, <1>13
     DEF Next, Coordinator, Over, Excepted

-----------------------------------------------------------------------------
(* Where a task is.                                                        *)

\* The steps of lane threads, clock and caller leave the coordinator's
\* variables and every task where it is.
Outside ==
  \/ \E t \in Tasks : Begin(t) \/ Finish(t) \/ Elapse(t)
  \/ CallerCancels
  \/ UNCHANGED vars

LEMMA OutsideStep == Outside => UNCHANGED <<coordVars, taskVars, batch, busy, lane, interrupts>>
BY DEF Outside, Begin, Finish, Elapse, CallerCancels, vars

LEMMA UnadmittedStep ==
  ASSUME TypeOK, Unadmitted, InHand, AwaitedOrInterrupted, [Next]_vars
  PROVE  Unadmitted'
<1> USE DEF Unadmitted
<1>1. CASE Outside
  <2>1. pc \in {"idle", "refused"} => UNCHANGED act
    BY <1>1 DEF Outside, Begin, Finish, Elapse, CallerCancels, vars
  <2>. QED
    BY <1>1, <2>1, OutsideStep
<1>2. CASE Admit \/ Refuse \/ Poll \/ CommitEnds \/ Assign \/ VisitEnds \/ Wait \/ CollectEnds
           \/ PublishEnds \/ Raise \/ Register
  <2>1. CASE Refuse
    BY <2>1 DEF Refuse
  <2>2. CASE ~ Refuse
    BY <1>2, <2>2 DEF Admit, Poll, CommitEnds, Assign, VisitEnds, Wait, CollectEnds, PublishEnds, Raise,
          Register
  <2>. QED
    BY <2>1, <2>2
<1>3. ASSUME NEW t \in Tasks,
             Visit(t) \/ Commit(t) \/ Collect(t) \/ Drain(t) \/ DrainInterrupted(t)
      PROVE  Unadmitted'
  BY <1>3 DEF Visit, Commit, Collect, Drain, DrainInterrupted, Release
<1>4. CASE Excepted
  BY <1>4, ExceptedStep
<1>. QED
  BY <1>1, <1>2, <1>3, <1>4 DEF Next, Coordinator, Over, Outside, Excepted

LEMMA PlacedStep ==
  ASSUME TypeOK, Unadmitted, Placed, InHand, LanesHeld, AwaitedOrInterrupted, [Next]_vars
  PROVE  Placed'
<1> USE DEF Placed, HasOutcome, TypeOK, Working
<1>1. CASE Outside
  BY <1>1, OutsideStep
<1>2. CASE Admit
  BY <1>2 DEF Admit, Unadmitted
<1>3. CASE Refuse \/ Poll \/ CommitEnds \/ VisitEnds \/ Wait \/ CollectEnds \/ PublishEnds
  BY <1>3 DEF Refuse, Poll, CommitEnds, VisitEnds, Wait, CollectEnds, PublishEnds, Unadmitted
<1>4. CASE Assign
  <2>1. cur \in pending
    BY <1>4 DEF Assign, InHand
  <2>. QED
    BY <1>4, <2>1 DEF Assign, Settle
<1>5. CASE Raise
  BY <1>5 DEF Raise
<1>6. ASSUME NEW t \in Tasks, Visit(t) PROVE Placed'
  <2>1. t \in pending
    BY <1>6 DEF Visit, InHand
  <2>. QED
    BY <1>6, <2>1 DEF Visit, Settle
<1>7. ASSUME NEW t \in Tasks, Commit(t) PROVE Placed'
  BY <1>7 DEF Commit, CallCommit, NextToCommit
<1>8. ASSUME NEW t \in Tasks, Collect(t) PROVE Placed'
  <2>1. t \in running /\ result[t] # "none"
    BY <1>8 DEF Collect, InHand, LanesHeld
  <2>2. outcome'[t] # "none" /\ \A u \in Tasks \ {t} : outcome'[u] = outcome[u]
    BY <1>8, <2>1, CollectedState DEF Collect, States
  <2>. QED
    BY <1>8, <2>1, <2>2 DEF Collect
<1>9. CASE Excepted
  <2>1. \A t \in Tasks : outcome'[t] # "none" => outcome[t] # "none"
    BY <1>9, ExceptedStep
  <2>. QED
    BY <1>9, <2>1, ExceptedStep
<1>10. ASSUME NEW t \in Tasks, Drain(t) \/ DrainInterrupted(t) PROVE Placed'
  BY <1>10 DEF Drain, DrainInterrupted, Release
<1>11. CASE Register
  BY <1>11 DEF Register, InHand
<1>. QED
  BY <1>1, <1>2, <1>3, <1>4, <1>5, <1>6, <1>7, <1>8, <1>9, <1>10, <1>11
     DEF Next, Coordinator, Over, Outside, Excepted

LEMMA InHandStep ==
  ASSUME TypeOK, InHand, AwaitedOrInterrupted, [Next]_vars
  PROVE  InHand'
<1> USE DEF InHand, TypeOK
<1>1. CASE Outside
  <2>1. \A t \in Tasks : act[t] = "finished" => act'[t] = "finished"
    BY <1>1 DEF Outside, Begin, Finish, Elapse, CallerCancels, vars
  <2>2. \A t \in Tasks : act[t] # "none" => act'[t] # "none"
    BY <1>1 DEF Outside, Begin, Finish, Elapse, CallerCancels, vars
  <2>. QED
    BY <1>1, <2>1, <2>2, OutsideStep
<1>2. CASE Admit \/ Refuse \/ Poll \/ VisitEnds \/ CollectEnds \/ PublishEnds \/ Raise
  BY <1>2 DEF Admit, Refuse, Poll, VisitEnds, CollectEnds, PublishEnds, Raise
<1>3. CASE Wait \/ CommitEnds
  BY <1>3 DEF Wait, CommitEnds
<1>4. CASE Assign
  <2>1. visit' = visit /\ pending' \in {pending, pending \ {cur}}
    BY <1>4 DEF Assign, Settle
  <2>. QED
    BY <1>4, <2>1 DEF Assign
<1>5. ASSUME NEW t \in Tasks, Visit(t) \/ Commit(t) \/ Collect(t) \/ Drain(t) \/ DrainInterrupted(t)
      PROVE  InHand'
  BY <1>5 DEF Visit, Settle, Commit, Collect, Drain, DrainInterrupted, Release
<1>6. CASE Excepted
  BY <1>6, ExceptedStep
<1>7. CASE Register
  BY <1>7 DEF Register
<1>. QED
  BY <1>1, <1>2, <1>3, <1>4, <1>5, <1>6, <1>7 DEF Next, Coordinator, Over, Outside, Excepted

-----------------------------------------------------------------------------
(* What is published.                                                      *)

\* An outcome changes only while its task is pending, running or next to be
\* published, or when there is none.
LEMMA FinalStep ==
  ASSUME TypeOK, Placed, Published, InHand, AwaitedOrInterrupted, [Next]_vars, NEW t \in committed
  PROVE  outcome'[t] = outcome[t]
<1>0. t \in Tasks /\ HasOutcome(t)
  BY DEF TypeOK, Published
<1>1. CASE pc # "raised"
  <2>0. t \notin pending \cup running
    BY <1>0, <1>1 DEF Placed
  <2>1. CASE Outside
    BY <2>1, OutsideStep
  <2>2. CASE Assign
    <3>1. cur # t
      BY <2>0, <2>2 DEF Assign, InHand
    <3>. QED
      BY <1>0, <2>2, <3>1 DEF Assign, Settle, TypeOK
  <2>3. CASE Raise
    BY <1>0, <2>3 DEF Raise
  <2>4. ASSUME NEW u \in Tasks, Visit(u) \/ Commit(u) \/ Collect(u) PROVE outcome'[t] = outcome[t]
    <3>1. u # t
      BY <2>0, <2>4 DEF Visit, InHand, Commit, NextToCommit, Collect
    <3>. QED
      BY <1>0, <2>4, <3>1 DEF Visit, Settle, Commit, CallCommit, Collect, TypeOK
  <2>5. CASE \/ Admit \/ Refuse \/ Poll \/ CommitEnds \/ VisitEnds \/ Wait \/ CollectEnds \/ PublishEnds
             \/ Register \/ \E u \in Tasks : Drain(u) \/ DrainInterrupted(u)
    BY <2>5 DEF Admit, Refuse, Poll, CommitEnds, VisitEnds, Wait, CollectEnds, PublishEnds,
          Register, Drain, DrainInterrupted, Release
  <2>6. CASE Excepted
    BY <1>0, <2>6, ExceptedStep DEF NextToCommit
  <2>. QED
    BY <2>1, <2>2, <2>3, <2>4, <2>5, <2>6 DEF Next, Coordinator, Over, Outside, Excepted
<1>2. CASE pc = "raised"
  <2>1. Outside
    BY <1>2 DEF Next, Coordinator, Over, Outside, Admit, Refuse, Poll, CommitEnds, Assign, VisitEnds,
          Register, Wait, CollectEnds, PublishEnds, Raise, Interrupt, InterruptAssigning,
          InterruptCommitting, InterruptCollecting, Abandon, Working, Visit, Commit, Collect, Drain,
          DrainInterrupted
  <2>. QED
    BY <2>1, OutsideStep
<1>. QED
  BY <1>1, <1>2

\* A step that publishes nothing, or publishes the next task in order, or is cut
\* short in the middle of that.
LEMMA PublishedSteps ==
  ASSUME [Next]_vars
  PROVE  \/ UNCHANGED <<committed, accepted>>
         \/ \E t \in Tasks : Commit(t) \/ InterruptCommitting(t)
<1>1. CASE Outside
  BY <1>1, OutsideStep
<1>2. CASE \/ Admit \/ Refuse \/ Poll \/ CommitEnds \/ VisitEnds \/ Wait \/ CollectEnds \/ PublishEnds
           \/ Assign \/ Register \/ Raise \/ Interrupt \/ InterruptAssigning \/ Abandon
  BY <1>2 DEF Admit, Refuse, Poll, CommitEnds, VisitEnds, Wait, CollectEnds, PublishEnds,
        Assign, Register, Raise, Interrupt, InterruptAssigning, Abandon, ToDrain
<1>3. CASE \E t \in Tasks : Visit(t) \/ Collect(t) \/ InterruptCollecting(t) \/ Drain(t) \/ DrainInterrupted(t)
  BY <1>3 DEF Visit, Collect, InterruptCollecting, ToDrain, Drain, DrainInterrupted, Release
<1>. QED
  BY <1>1, <1>2, <1>3 DEF Next, Coordinator, Over, Outside

LEMMA PublishedStep ==
  ASSUME TypeOK, Placed, Published, InHand, AwaitedOrInterrupted, [Next]_vars
  PROVE  Published'
<1> USE DEF HasOutcome
<1>0. PICK k \in 0..N : committed = 1..k
  BY DEF Published
<1>1. CASE UNCHANGED <<committed, accepted>>
  <2>1. \A t \in committed : outcome'[t] = outcome[t]
    BY FinalStep
  <2>2. pc' = "returned" => committed = Tasks
    <3> SUFFICES ASSUME pc' = "returned", pc # "returned" PROVE committed = Tasks
      BY DEF Published
    <3>1. PublishEnds
      BY OutsideStep DEF Next, Coordinator, Over, Outside, Admit, Refuse, Poll, CommitEnds, Assign,
         Register, VisitEnds, Wait, CollectEnds, Raise, Interrupt, InterruptAssigning,
         InterruptCommitting, InterruptCollecting, ToDrain, Abandon, Visit, Commit, Collect,
         Drain, DrainInterrupted, Release, vars
    <3>2. \A t \in Tasks : HasOutcome(t)
      BY <3>1 DEF PublishEnds, Placed, Working
    <3>3. \A t \in Tasks : t \in committed \/ \E u \in Tasks : u < t /\ u \notin committed
      BY <3>1, <3>2 DEF PublishEnds, NextToCommit
    <3>4. k = N
      <4> SUFFICES ASSUME k # N PROVE FALSE
        OBVIOUS
      <4>1. k \in Nat /\ N \in Nat /\ k < N
        BY SchedulerAssumption, <1>0
      <4>2. k + 1 \in Tasks /\ k + 1 \notin committed
        BY <1>0, <4>1 DEF Tasks
      <4>3. PICK u \in Tasks : u < k + 1 /\ u \notin committed
        BY <3>3, <4>2
      <4>. QED
        BY <1>0, <4>1, <4>3 DEF Tasks
    <3>. QED
      BY <1>0, <3>4 DEF Tasks
  <2>3. pc \in {"draining", "raised"} => pc' \in {"draining", "raised"}
    BY OutsideStep DEF Next, Coordinator, Over, Outside, Admit, Refuse, Poll, CommitEnds, Assign,
       Register, VisitEnds, Wait, CollectEnds, PublishEnds, Raise, Interrupt, InterruptAssigning,
       InterruptCommitting, InterruptCollecting, ToDrain, Abandon, Visit, Commit, Collect,
       Drain, DrainInterrupted, Release, vars
  <2>4. \A i \in DOMAIN accepted : outcome'[accepted[i]] = "completed"
    <3> SUFFICES ASSUME NEW i \in DOMAIN accepted, accepted[i] \notin committed
                 PROVE  outcome'[accepted[i]] = "completed"
      BY <2>1 DEF Published, EvidenceOrdered
    <3>1. pc \in {"draining", "raised"} /\ accepted[i] \in Tasks /\ outcome[accepted[i]] = "completed"
      BY DEF Published, EvidenceOrdered, TypeOK
    <3>. QED
      BY <3>1, OutsideStep DEF Next, Coordinator, Over, Outside, Admit, Refuse, Poll, CommitEnds, Assign,
         Register, VisitEnds, Wait, CollectEnds, PublishEnds, Raise, Interrupt, InterruptAssigning,
         InterruptCommitting, InterruptCollecting, Abandon, Visit, Commit, Collect,
         Drain, DrainInterrupted, Release, Working, vars
  <2>. QED
    BY <1>1, <2>1, <2>2, <2>3, <2>4 DEF Published, EvidenceOrdered
<1>2. ASSUME NEW t \in Tasks, InterruptCommitting(t) PROVE Published'
  <2>1. t = k + 1
    BY <1>0, <1>2, NextIsFirst DEF InterruptCommitting
  <2>2. pc' = "draining" /\ UNCHANGED committed /\ pc \notin {"draining", "raised"}
    BY <1>2 DEF InterruptCommitting, ToDrain
  <2>3. \A u \in committed : outcome'[u] = outcome[u]
    BY FinalStep
  <2>4. \A i \in DOMAIN accepted : accepted[i] \in committed /\ accepted[i] < t
    <3>1. \A i \in DOMAIN accepted : accepted[i] \in 1..k
      BY <1>0, <2>2 DEF Published
    <3>. QED
      BY <1>0, <2>1, <3>1
  <2>5. CASE outcome[t] = "completed" /\ accepted' = Append(accepted, t) /\ UNCHANGED outcome
    <3>1. /\ DOMAIN accepted = 1..Len(accepted) /\ DOMAIN accepted' = 1..(Len(accepted) + 1)
          /\ Len(accepted) \in Nat
          /\ \A i \in 1..Len(accepted) : accepted'[i] = accepted[i]
          /\ accepted'[Len(accepted) + 1] = t
      BY <2>5 DEF TypeOK
    <3>2. EvidenceOrdered'
      <4>1. \A i, j \in DOMAIN accepted' : i < j => accepted'[i] < accepted'[j]
        BY <2>4, <3>1 DEF Published, EvidenceOrdered
      <4>2. \A i \in DOMAIN accepted' : outcome'[accepted'[i]] = "completed"
        BY <2>5, <3>1 DEF Published, EvidenceOrdered
      <4>. QED
        BY <4>1, <4>2 DEF EvidenceOrdered
    <3>3. \A u \in committed' : outcome'[u] = "completed" => \E i \in DOMAIN accepted' : accepted'[i] = u
      <4>1. \A u \in committed : outcome[u] = "completed" => \E i \in DOMAIN accepted : accepted[i] = u
        BY DEF Published
      <4>2. \A i \in DOMAIN accepted : i \in DOMAIN accepted' /\ accepted'[i] = accepted[i]
        BY <3>1
      <4>. QED
        BY <2>2, <2>3, <4>1, <4>2
    <3>. QED
      BY <2>2, <2>3, <3>2, <3>3 DEF Published
  <2>6. CASE UNCHANGED accepted
    BY <2>2, <2>3, <2>4, <2>6 DEF Published, EvidenceOrdered
  <2>. QED
    BY <1>2, <2>5, <2>6 DEF InterruptCommitting, CallCommit
<1>3. ASSUME NEW t \in Tasks, Commit(t) PROVE Published'
  <2>1. t = k + 1 /\ committed' = 1..(k + 1) /\ k + 1 \in 0..N
    BY <1>0, <1>3, NextIsFirst DEF Commit
  <2>2. pc' = pc /\ pc \in {"commit", "publish"}
    BY <1>3 DEF Commit
  <2>3. \A u \in committed : outcome'[u] = outcome[u]
    BY FinalStep
  <2>4. outcome'[t] # "none" /\ t \notin committed /\ committed' = committed \cup {t}
    BY <1>3 DEF Commit, CallCommit, NextToCommit, TypeOK
  <2>5. CASE outcome[t] = "completed" /\ accepted' = Append(accepted, t) /\ UNCHANGED outcome
    <3>1. /\ Len(accepted') = Len(accepted) + 1
          /\ DOMAIN accepted = 1..Len(accepted) /\ DOMAIN accepted' = 1..(Len(accepted) + 1)
          /\ Len(accepted) \in Nat
          /\ \A i \in 1..Len(accepted) : accepted'[i] = accepted[i]
          /\ accepted'[Len(accepted) + 1] = t
      BY <2>5 DEF TypeOK
    <3>2. \A i \in DOMAIN accepted' : /\ accepted'[i] \in committed'
                                      /\ outcome'[accepted'[i]] = "completed"
      BY <2>2, <2>3, <2>4, <2>5, <3>1 DEF Published, EvidenceOrdered
    <3>3. \A i, j \in DOMAIN accepted' : i < j => accepted'[i] < accepted'[j]
      <4>1. \A i \in DOMAIN accepted : accepted[i] \in 1..k
        BY <1>0, <2>2 DEF Published
      <4>2. \A i \in DOMAIN accepted : accepted[i] < t
        BY <1>0, <2>1, <4>1
      <4>. QED
        BY <3>1, <4>2 DEF Published, EvidenceOrdered
    <3>4. \A u \in committed' : outcome'[u] = "completed" => \E i \in DOMAIN accepted' : accepted'[i] = u
      BY <2>3, <2>4, <3>1 DEF Published
    <3>5. \A u \in committed' : outcome'[u] # "none"
      BY <2>3, <2>4 DEF Published
    <3>. QED
      BY <2>1, <2>2, <3>2, <3>3, <3>4, <3>5 DEF Published, EvidenceOrdered
  <2>6. CASE outcome'[t] # "completed" /\ UNCHANGED accepted
    BY <2>1, <2>2, <2>3, <2>4, <2>6 DEF Published, EvidenceOrdered
  <2>. QED
    BY <1>3, <2>5, <2>6 DEF Commit, CallCommit, TypeOK
<1>. QED
  BY <1>1, <1>2, <1>3, PublishedSteps

-----------------------------------------------------------------------------
(* Which lane a task holds.                                                *)

\* A lane taken is a new one, for the task in hand.
LEMMA AssignTakesLane ==
  ASSUME TypeOK, InHand, Placed, Assign, pc' = "handed"
  PROVE  /\ cur \in Tasks /\ cur \in pending /\ cur \notin running
         /\ Parents(cur) \subseteq committed /\ ~ ParentFailed(cur)
         /\ act' = [act EXCEPT ![cur] = "submitted"]
         /\ UNCHANGED <<cur, pending, running, outcome, healthy, stop, result, interrupts>>
         /\ \E l \in Lanes \ busy : /\ l # NoLane
                                    /\ busy' = busy \cup {l}
                                    /\ lane' = [lane EXCEPT ![cur] = l]
<1>1. cur \in Tasks /\ cur \in pending /\ cur \notin running
  BY DEF Assign, InHand, Placed, TypeOK
<1>2. /\ Parents(cur) \subseteq committed /\ ~ ParentFailed(cur)
      /\ act' = [act EXCEPT ![cur] = "submitted"]
      /\ UNCHANGED <<cur, pending, running, outcome, healthy, stop, result, interrupts>>
      /\ \E l \in Compatible(cur) \ busy : busy' = busy \cup {l} /\ lane' = [lane EXCEPT ![cur] = l]
  BY DEF Assign
<1>3. Compatible(cur) \subseteq Lanes /\ NoLane \notin Lanes
  BY SchedulerAssumption DEF Compatible, TypeOK
<1>. QED
  BY <1>1, <1>2, <1>3

\* Otherwise the task in hand is put back or settled, and no lane is touched.
LEMMA AssignPutsBack ==
  ASSUME TypeOK, Assign, pc' # "handed"
  PROVE  /\ UNCHANGED <<running, interrupts, busy, healthy, lane, stop, act, result>>
         /\ pending' \subseteq pending /\ pc = "assign" /\ pc' = "visit"
BY DEF Assign, Settle

LEMMA LanesHeldStep ==
  ASSUME TypeOK, Unadmitted, Placed, InHand, LanesHeld, AwaitedOrInterrupted, [Next]_vars
  PROVE  LanesHeld'
<1> USE DEF LanesHeld, TypeOK, Holders
<1>1. CASE Outside
  <2>1. \A t \in Tasks : act'[t] # act[t] => act[t] # "none" /\ act'[t] # "none"
    BY <1>1 DEF Outside, Begin, Finish, Elapse, CallerCancels, vars
  <2>2. \A t \in Tasks : act'[t] = "finished" => result'[t] # "none"
    BY <1>1 DEF Outside, Begin, Finish, Elapse, CallerCancels, vars
  <2>3. Holders' = Holders
    BY <1>1, <2>1, OutsideStep
  <2>. QED
    BY <1>1, <2>1, <2>2, <2>3, OutsideStep
<1>2. CASE Admit \/ Refuse
  BY <1>2 DEF Admit, Refuse, Unadmitted
<1>3. CASE Poll \/ CommitEnds \/ VisitEnds \/ Wait \/ CollectEnds \/ PublishEnds \/ Raise
  BY <1>3 DEF Poll, CommitEnds, VisitEnds, Wait, CollectEnds, PublishEnds, Raise, Working
<1>4. CASE Assign
  <2>1. CASE pc' # "handed"
    <3>1. /\ UNCHANGED <<running, busy, lane, act, result>>
          /\ pending' \subseteq pending /\ pc = "assign" /\ pc' = "visit"
      BY <1>4, <2>1, AssignPutsBack
    <3>2. \A t \in pending : act[t] = "none"
      BY <3>1
    <3>3. Holders' = running /\ Holders = running
      BY <3>1, <3>2
    <3>. QED
      BY <3>1, <3>2, <3>3 DEF Working
  <2>2. CASE pc' = "handed"
    <3>1. /\ cur \in Tasks /\ cur \in pending /\ cur \notin running
          /\ act' = [act EXCEPT ![cur] = "submitted"]
          /\ UNCHANGED <<cur, pending, running, result>> /\ pc = "assign"
      BY <1>4, <2>2, AssignTakesLane DEF Assign
    <3>2. PICK l \in Lanes \ busy : /\ l # NoLane
                                    /\ busy' = busy \cup {l}
                                    /\ lane' = [lane EXCEPT ![cur] = l]
      BY <1>4, <2>2, AssignTakesLane
    <3>3. \A t \in Tasks : (t # cur => lane'[t] = lane[t] /\ act'[t] = act[t])
      BY <3>1, <3>2
    <3>4. lane'[cur] = l /\ act'[cur] = "submitted"
      BY <3>1, <3>2
    <3>5. \A t \in pending : act[t] = "none"
      BY <3>1
    <3>6. Holders = running /\ Holders' = running \cup {cur}
      BY <3>1, <3>3, <3>4, <3>5
    <3>7. \A t \in Tasks : lane'[t] = NoLane <=> act'[t] = "none"
      BY <3>2, <3>3, <3>4
    <3>8. \A t, u \in Holders' : t # u => lane'[t] # lane'[u]
      BY <3>1, <3>2, <3>3, <3>4, <3>6
    <3>9. /\ \A t \in Holders' : act'[t] # "none" /\ lane'[t] \in busy'
          /\ \A t \in pending' : act'[t] # "none" => t = cur'
          /\ \A t \in Tasks : act'[t] = "finished" => result'[t] # "none"
      BY <3>1, <3>2, <3>3, <3>4, <3>5, <3>6
    <3>10. \A m \in busy' : \E t \in Holders' : lane'[t] = m
      <4>1. \A m \in busy : \E t \in running : lane[t] = m
        BY <3>1, <3>6 DEF Working
      <4>. QED
        BY <3>1, <3>2, <3>3, <3>4, <3>6, <4>1
    <3>. QED
      BY <2>2, <3>7, <3>8, <3>9, <3>10
  <2>. QED
    BY <2>1, <2>2
<1>5. ASSUME NEW t \in Tasks, Visit(t) PROVE LanesHeld'
  <2>1. UNCHANGED <<running, busy, lane, act, result>> /\ pending' \subseteq pending /\ pc = "visit" /\ pc' \in Working
    BY <1>5 DEF Visit, Settle, Working
  <2>2. (\A u \in pending : act[u] = "none") /\ Holders = running /\ Holders' = running
    BY <2>1
  <2>. QED
    BY <2>1, <2>2 DEF Working
<1>6. ASSUME NEW t \in Tasks, Commit(t) PROVE LanesHeld'
  BY <1>6 DEF Commit
<1>7. CASE Register
  <2>1. /\ pc = "handed" /\ pc' = "visit" /\ running' = running \cup {cur} /\ pending' = pending \ {cur}
        /\ UNCHANGED <<busy, lane, act, result>>
    BY <1>7 DEF Register
  <2>2. Holders = running \cup {cur} /\ Holders' = running \cup {cur} /\ \A t \in pending' : act[t] = "none"
    BY <2>1 DEF InHand
  <2>. QED
    BY <2>1, <2>2 DEF Working
<1>8. ASSUME NEW t \in running, running' = running \ {t}, busy' \in {busy, busy \ {lane[t]}},
             busy' = busy => pc' \notin Working \cup {"returned"},
             UNCHANGED <<pending, lane, act, result, cur>>, pc' \in {pc, "draining"}
      PROVE  LanesHeld'
  <2>1. Holders' = Holders \ {t}
    BY <1>8 DEF Placed
  <2>2. \A u \in Holders' : lane'[u] \in busy'
    BY <1>8, <2>1
  <2>3. pc' \in Working \cup {"returned"} => \A l \in busy' : \E u \in Holders' : lane'[u] = l
    <3> SUFFICES ASSUME pc' \in Working \cup {"returned"}, NEW l \in busy' PROVE \E u \in Holders' : lane'[u] = l
      OBVIOUS
    <3>1. pc' = pc /\ busy' = busy \ {lane[t]}
      BY <1>8 DEF Working
    <3>2. PICK u \in Holders : lane[u] = l
      BY <3>1
    <3>. QED
      BY <1>8, <2>1, <3>1, <3>2
  <2>. QED
    BY <1>8, <2>1, <2>2, <2>3
<1>9. ASSUME NEW t \in Tasks, Collect(t) \/ Drain(t) \/ DrainInterrupted(t) PROVE LanesHeld'
  <2>1. t \in running /\ running' = running \ {t} /\ busy' = busy \ {lane[t]} /\ UNCHANGED <<pending, lane, act, result, cur, pc>>
    BY <1>9 DEF Collect, Drain, DrainInterrupted, Release, InHand
  <2>2. busy' # busy
    BY <2>1
  <2>. QED
    BY <1>8, <2>1, <2>2
<1>10. ASSUME NEW t \in Tasks, InterruptCollecting(t) PROVE LanesHeld'
  BY <1>8, <1>10 DEF InterruptCollecting, ToDrain, InHand, Working
<1>11. CASE Interrupt \/ InterruptAssigning \/ Abandon \/ \E t \in Tasks : InterruptCommitting(t)
  <2>1. UNCHANGED <<pending, running, lane, act, result, cur>> /\ busy \subseteq busy'
        /\ pc' \in {"draining", "raised"} /\ pc \in Working \cup {"draining"}
    BY <1>11 DEF Interrupt, InterruptAssigning, InterruptCommitting, Abandon, ToDrain, Working
  <2>2. Holders' = Holders
    BY <2>1
  <2>. QED
    BY <2>1, <2>2 DEF Working
<1>. QED
  BY <1>1, <1>2, <1>3, <1>4, <1>5, <1>6, <1>7, <1>9, <1>10, <1>11 DEF Next, Coordinator, Over, Outside

\* An action at work is one the coordinator waits for or has in hand, or one whose
\* wait a second interrupt ended.
LEMMA AwaitedStep ==
  ASSUME TypeOK, InHand, Placed, Unadmitted, LanesHeld, AwaitedOrInterrupted, [Next]_vars
  PROVE  AwaitedOrInterrupted'
<1> USE DEF AwaitedOrInterrupted, AtWork, TypeOK, Holders
<1>1. CASE Outside
  <2>1. \A t \in Tasks : act'[t] \in {"submitted", "acting"} => act[t] \in {"submitted", "acting"}
    BY <1>1 DEF Outside, Begin, Finish, Elapse, CallerCancels, vars
  <2>2. \A t \in Tasks : act'[t] \in {"submitted", "acting"} => act'[t] # "none"
    OBVIOUS
  <2>. QED
    BY <1>1, <2>1, <2>2, OutsideStep
<1>2. CASE Admit \/ Refuse \/ Poll \/ CommitEnds \/ VisitEnds \/ Wait \/ CollectEnds \/ PublishEnds \/ Raise
  BY <1>2 DEF Admit, Refuse, Poll, CommitEnds, VisitEnds, Wait, CollectEnds, PublishEnds, Raise
<1>3. CASE Assign
  <2>1. CASE pc' # "handed"
    <3>1. /\ UNCHANGED <<running, interrupts, act>> /\ pending' \subseteq pending /\ pc = "assign" /\ pc' = "visit"
      BY <1>3, <2>1, AssignPutsBack
    <3>2. \A t \in pending : act[t] = "none"
      BY <3>1 DEF LanesHeld
    <3>. QED
      BY <3>1, <3>2
  <2>2. CASE pc' = "handed"
    <3>1. act' = [act EXCEPT ![cur] = "submitted"] /\ cur \in pending
          /\ UNCHANGED <<interrupts, running, pending>>
      BY <1>3, <2>2, AssignTakesLane
    <3>. QED
      BY <2>2, <3>1
  <2>. QED
    BY <2>1, <2>2
<1>4. ASSUME NEW t \in Tasks, Visit(t) PROVE AwaitedOrInterrupted'
  <2>1. UNCHANGED <<running, interrupts, act>> /\ pending' \subseteq pending /\ pc = "visit" /\ pc' \in {"visit", "commit"}
    BY <1>4 DEF Visit, Settle
  <2>2. \A u \in pending : act[u] = "none"
    BY <2>1 DEF LanesHeld
  <2>. QED
    BY <2>1, <2>2
<1>5. ASSUME NEW t \in Tasks, Commit(t) \/ Collect(t) \/ Drain(t) PROVE AwaitedOrInterrupted'
  BY <1>5 DEF Commit, Collect, Drain, Release, InHand
<1>6. ASSUME NEW t \in Tasks, DrainInterrupted(t) PROVE AwaitedOrInterrupted'
  <2>1. interrupts' > 1 /\ pc' = pc
    BY <1>6, SchedulerAssumption DEF DrainInterrupted, Release
  <2>. QED
    BY <1>6, <2>1 DEF DrainInterrupted, Release
<1>7. CASE Register
  BY <1>7 DEF Register
<1>8. CASE Excepted
  <2>1. interrupts' = interrupts + 1 /\ interrupts \in Nat /\ UNCHANGED <<pending, act>>
        /\ \A t \in running \ running' : act[t] = "finished"
    BY <1>8, ExceptedStep
  <2>. QED
    BY <2>1
<1>. QED
  BY <1>1, <1>2, <1>3, <1>4, <1>5, <1>6, <1>7, <1>8 DEF Next, Coordinator, Over, Outside, Excepted

-----------------------------------------------------------------------------
(* What a consumer is started on.                                          *)

LEMMA ConsumerStep ==
  ASSUME TypeOK, Placed, Published, Published', InHand, AwaitedOrInterrupted, ConsumerSeesEvidence,
         [Next]_vars
  PROVE  ConsumerSeesEvidence'
<1> DEFINE Earned(t) == /\ Parents(t) \subseteq committed
                        /\ \A p \in MustSucceed(t) : outcome[p] = "completed"
<1>1. \A t \in Tasks : MustSucceed(t) \subseteq Parents(t)
  BY DEF MustSucceed, Parents
<1>2. batch' = batch /\ committed \subseteq committed'
  BY OutsideStep, ExceptedStep DEF Next, Coordinator, Over, Outside, Admit, Refuse, Poll, CommitEnds,
     Assign, Register, VisitEnds, Wait, CollectEnds, PublishEnds, Raise, Excepted, Visit,
     Commit, Collect, Drain, DrainInterrupted, Release, vars
<1>3. \A t \in committed : outcome'[t] = outcome[t]
  BY FinalStep
<1>4. \A t \in Tasks : Parents(t)' = Parents(t) /\ MustSucceed(t)' = MustSucceed(t)
  BY <1>2 DEF Parents, MustSucceed
<1>5. \A t \in Tasks : lane'[t] # NoLane /\ lane[t] = NoLane => Earned(t)
  <2> SUFFICES ASSUME NEW t \in Tasks, lane'[t] # NoLane, lane[t] = NoLane PROVE Earned(t)
    OBVIOUS
  <2>0. lane' # lane
    OBVIOUS
  <2>1. Assign /\ pc' = "handed"
    BY <2>0, OutsideStep, ExceptedStep, AssignPutsBack DEF Next, Coordinator, Over, Outside, Admit, Refuse,
       Poll, CommitEnds, Register, VisitEnds, Wait, CollectEnds, PublishEnds, Raise, Excepted, Visit,
       Commit, Collect, Drain, DrainInterrupted, Release, vars
  <2>2. Parents(cur) \subseteq committed /\ ~ ParentFailed(cur) /\ cur = t
    BY <2>1, AssignTakesLane DEF TypeOK
  <2>. QED
    BY <2>2 DEF ParentFailed
<1>6. \A t \in Tasks : lane'[t] # NoLane => Earned(t)'
  <2> SUFFICES ASSUME NEW t \in Tasks, lane'[t] # NoLane PROVE Earned(t)'
    OBVIOUS
  <2>1. Earned(t)
    BY <1>5 DEF ConsumerSeesEvidence
  <2>. QED
    BY <1>1, <1>2, <1>3, <1>4, <2>1
<1>7. \A t \in committed' : outcome'[t] = "completed" => \E i \in DOMAIN accepted' : accepted'[i] = t
  BY DEF Published
<1>8. \A t \in Tasks : MustSucceed(t)' \subseteq Parents(t)'
  BY <1>1, <1>4
<1>. QED
  BY <1>6, <1>7, <1>8 DEF ConsumerSeesEvidence

-----------------------------------------------------------------------------
(* The theorems.                                                           *)

LEMMA InitIInv == Init => IInv
<1> SUFFICES ASSUME Init PROVE IInv
  OBVIOUS
<1>1. committed = 1..0 /\ 0 \in 0..N
  BY SchedulerAssumption DEF Init
<1>2. Published
  BY <1>1 DEF Init, Published, EvidenceOrdered
<1>. QED
  BY <1>2, InitType DEF Init, IInv, Unadmitted, Placed, InHand, LanesHeld, Holders,
     AwaitedOrInterrupted, ConsumerSeesEvidence, HasOutcome, AtWork, Working

LEMMA IInvStep == IInv /\ [Next]_vars => IInv'
<1> SUFFICES ASSUME IInv, [Next]_vars PROVE IInv'
  OBVIOUS
<1> USE DEF IInv
<1>1. TypeOK' /\ Unadmitted' /\ Placed' /\ InHand'
  BY TypeStep, UnadmittedStep, PlacedStep, InHandStep
<1>2. Published' /\ LanesHeld' /\ AwaitedOrInterrupted'
  BY PublishedStep, LanesHeldStep, AwaitedStep
<1>. QED
  BY <1>1, <1>2, ConsumerStep

\* The batch is followed through one scheduling: IInv holds of every reachable
\* state, with any number of tasks, lanes and interrupts.
LEMMA Invariant == Spec => []IInv
BY InitIInv, IInvStep, PTL DEF Spec

\* Every variable keeps its type; no task is given an outcome there is not.
THEOREM SchedulerTypeCorrect == Spec => []TypeOK
BY Invariant, PTL DEF IInv

\* A task is given to a lane only when its parents are published and those that
\* had to succeed did, and that is never taken back.
THEOREM ConsumerSeesEvidenceHolds == Spec => []ConsumerSeesEvidence
BY Invariant, PTL DEF IInv

\* Evidence is accepted in logical order, once, from tasks that completed.
THEOREM EvidenceOrderedHolds == Spec => []EvidenceOrdered
<1>1. IInv => EvidenceOrdered
  BY DEF IInv, Published
<1>. QED
  BY <1>1, Invariant, PTL

\* A published outcome is final.
THEOREM PublishedIsFinalHolds == Spec => PublishedIsFinal
<1>1. IInv /\ [Next]_vars => [\A t \in committed : outcome'[t] = outcome[t]]_vars
  BY FinalStep DEF IInv
<1>. QED
  BY <1>1, Invariant, PTL DEF Spec, PublishedIsFinal

\* Until a second exception ends the wait for an action, no lane is free, or
\* given to another task, while an action runs on it.
THEOREM LaneExclusiveHolds == Spec => [](interrupts <= 1 => LaneExclusive)
<1>1. IInv => (interrupts <= 1 => LaneExclusive)
  <2> SUFFICES ASSUME IInv, interrupts <= 1 PROVE LaneExclusive
    OBVIOUS
  <2>1. interrupts \in Nat
    BY SchedulerAssumption DEF IInv, TypeOK
  <2>2. \A t \in Tasks : AtWork(t) => t \in Holders
    BY <2>1 DEF IInv, AwaitedOrInterrupted
  <2>. QED
    BY <2>2 DEF IInv, LanesHeld, LaneExclusive
<1>. QED
  BY <1>1, Invariant, PTL

-----------------------------------------------------------------------------
(* What CallEnds rests on: the coordinator never turns round without work. *)

\* Only a batch whose edges follow the sequence numbers is scheduled, and a task is
\* considered for a lane after all that could be published is.
Scheduled ==
  /\ pc \notin {"idle", "refused"} => Valid
  /\ pc = "assign" => \A t \in Tasks : ~ NextToCommit(t)

LEMMA ScheduledStep ==
  ASSUME IInv, Scheduled, [Next]_vars
  PROVE  Scheduled'
<1>1. batch' = batch /\ (Valid <=> Valid')
  <2>1. batch' = batch
    BY DEF Next, Coordinator, Admit, Refuse, Poll, CommitEnds, Assign, Register, VisitEnds, Wait, CollectEnds,
       PublishEnds, Raise, Visit, Commit, Collect, Drain, Interrupt, InterruptAssigning,
       InterruptCommitting, InterruptCollecting, ToDrain, Abandon, DrainInterrupted, Release, Begin, Finish, Elapse, CallerCancels, Over, vars
  <2>. QED
    BY <2>1 DEF Valid, Parents
<1>2. pc' \notin {"idle", "refused"} => Valid
  <2>1. pc' # pc => pc \notin {"idle", "refused"} \/ Admit \/ Refuse
    BY DEF Next, Coordinator, Poll, CommitEnds, Assign, Register, VisitEnds, Wait, CollectEnds,
       PublishEnds, Raise, Visit, Commit, Collect, Drain, Interrupt, InterruptAssigning, InterruptCommitting,
       InterruptCollecting, ToDrain, Abandon, Working,
       DrainInterrupted, Release, Begin, Finish, Elapse, CallerCancels, Over, vars
  <2>. QED
    BY <2>1 DEF Scheduled, Admit, Refuse
<1>3. ASSUME pc' = "assign" PROVE \A t \in Tasks : ~ NextToCommit(t)'
  <2>1. UNCHANGED <<committed, outcome>> /\ (pc = "assign" \/ CommitEnds)
    BY <1>3 DEF Next, Coordinator, Admit, Refuse, Poll, CommitEnds, Assign, Register, VisitEnds, Wait,
       CollectEnds, PublishEnds, Raise, Visit, Commit, Collect, Drain, Interrupt,
       InterruptAssigning, InterruptCommitting, InterruptCollecting, ToDrain, Abandon, DrainInterrupted, Release, Begin, Finish, Elapse, CallerCancels, Over, vars
  <2>2. \A t \in Tasks : NextToCommit(t)' <=> NextToCommit(t)
    BY <2>1 DEF NextToCommit, HasOutcome
  <2>. QED
    BY <2>1, <2>2 DEF Scheduled, CommitEnds
<1>. QED
  BY <1>1, <1>2, <1>3 DEF Scheduled

\* The first task that has no outcome is not deferred for a parent, for the logical
\* order or for a lane when nothing runs: it is settled, taken in hand or started.
FirstIsServed ==
  [][\A t \in Tasks : running = {} /\ (\A u \in pending : t <= u) =>
       /\ Visit(t) => t \notin pending' \/ cur' = t
       /\ cur = t /\ Assign => t \notin pending' \/ pc' = "handed"]_vars

\* When nothing runs, everything before the first pending task has its outcome.
LEMMA EarlierSettled ==
  ASSUME IInv, pc \in Working, running = {}, NEW t \in Tasks, \A u \in pending : t <= u
  PROVE  \A p \in Tasks : p < t => HasOutcome(p)
<1> SUFFICES ASSUME NEW p \in Tasks, p < t PROVE HasOutcome(p)
  OBVIOUS
<1>1. p \notin pending
  <2>1. p \in Nat /\ t \in Nat
    BY SchedulerAssumption DEF Tasks
  <2>. QED
    BY <2>1
<1>. QED
  BY <1>1 DEF IInv, Placed

\* And when what can be published is, all of that is published.
LEMMA EarlierCommitted ==
  ASSUME IInv, Scheduled, pc = "assign", running = {}, NEW t \in Tasks, \A u \in pending : t <= u
  PROVE  \A p \in Tasks : p < t => p \in committed
<1>1. PICK k \in 0..N : committed = 1..k
  BY DEF IInv, Published
<1>2. N \in Nat /\ k \in Nat /\ t \in 1..N
  BY SchedulerAssumption DEF Tasks
<1>3. t <= k + 1
  <2> SUFFICES ASSUME k + 1 < t PROVE FALSE
    BY <1>2
  <2>1. k + 1 \in Tasks
    BY <1>2 DEF Tasks
  <2>2. HasOutcome(k + 1)
    BY <2>1, EarlierSettled DEF Working
  <2>3. k + 1 \notin committed /\ \A u \in Tasks : u < k + 1 => u \in committed
    BY <1>1, <1>2 DEF Tasks
  <2>. QED
    BY <2>1, <2>2, <2>3 DEF NextToCommit, Scheduled
<1>. QED
  BY <1>1, <1>2, <1>3 DEF Tasks

LEMMA FirstServedStep ==
  ASSUME IInv, Scheduled, NEW t \in Tasks, running = {}, \A u \in pending : t <= u
  PROVE  /\ Visit(t) => t \notin pending' \/ cur' = t
         /\ cur = t /\ Assign => t \notin pending' \/ pc' = "handed"
<1>1. pc \notin {"idle", "refused"} => \A p \in Parents(t) : p \in Tasks /\ p < t
  BY DEF Scheduled, Valid, Parents
<1>2. ASSUME Visit(t) PROVE t \notin pending' \/ cur' = t
  <2>1. pc = "visit"
    BY <1>2 DEF Visit
  <2>2. \A p \in Tasks : p < t => HasOutcome(p)
    BY <2>1, EarlierSettled DEF Working
  <2>3. \A p \in Parents(t) : HasOutcome(p)
    BY <1>1, <2>1, <2>2
  <2>. QED
    BY <1>2, <2>3 DEF Visit, Settle
<1>3. ASSUME cur = t, Assign PROVE t \notin pending' \/ pc' = "handed"
  <2>1. Parents(t) \subseteq committed
    <3>1. pc = "assign"
      BY <1>3 DEF Assign
    <3>2. \A p \in Tasks : p < t => p \in committed
      BY <3>1, EarlierCommitted
    <3>. QED
      BY <1>1, <3>1, <3>2
  <2>2. busy = {}
    BY <1>3 DEF Assign, IInv, LanesHeld, Holders, Working
  <2>3. Settle(t, "blocked") \/ Settle(t, "unavailable") \/ pc' = "handed"
    BY <1>3, <2>1, <2>2 DEF Assign
  <2>. QED
    BY <2>3 DEF Settle
<1>. QED
  BY <1>2, <1>3

\* No pass over the pending tasks is in vain when nothing runs: neither a parent, nor
\* the logical order, nor a lane that kept its mark holds the first of them back.
THEOREM FirstIsServedHolds == Spec => FirstIsServed
<1>1. Init => Scheduled
  BY DEF Init, Scheduled
<1>2. IInv /\ Scheduled /\ [Next]_vars => Scheduled'
  BY ScheduledStep
<1>3. IInv /\ Scheduled =>
        [\A t \in Tasks : running = {} /\ (\A u \in pending : t <= u) =>
           /\ Visit(t) => t \notin pending' \/ cur' = t
           /\ cur = t /\ Assign => t \notin pending' \/ pc' = "handed"]_vars
  BY FirstServedStep
<1>. QED
  BY <1>1, <1>2, <1>3, Invariant, PTL DEF Spec, FirstIsServed

-----------------------------------------------------------------------------
(* How a call ends.                                                        *)

\* A batch that is scheduled fits the ready queue.
LEMMA QueueBounded ==
  ASSUME IInv, Scheduled
  PROVE  Cardinality(pending) <= batch.max
<1>1. IsFiniteSet(Tasks) /\ Cardinality(Tasks) = N /\ N \in Nat
  <2>1. N \in Nat /\ 1 \in Int /\ N \in Int /\ N >= 1
    BY SchedulerAssumption
  <2>. QED
    BY <2>1, FS_Interval DEF Tasks
<1>2. IsFiniteSet(pending) /\ Cardinality(pending) <= N
  BY <1>1, FS_Subset DEF IInv, TypeOK
<1>3. batch.max \in Nat
  BY SchedulerAssumption DEF IInv, TypeOK
<1>4. CASE pc \in {"idle", "refused"}
  <2>1. pending = {}
    BY <1>4 DEF IInv, Unadmitted
  <2>. QED
    BY <1>3, <2>1, FS_EmptySet
<1>5. CASE pc \notin {"idle", "refused"}
  <2>1. N <= batch.max /\ Cardinality(pending) \in Nat
    BY <1>2, <1>5, FS_CardinalityType DEF Scheduled, Valid
  <2>. QED
    BY <1>1, <1>2, <1>3, <2>1
<1>. QED
  BY <1>4, <1>5

\* A call that returns has settled and published every task and released every
\* lane; one that was interrupted once has settled every task and left no action
\* at work but one it had just handed to a lane; the ready queue never overflows.
THEOREM CallCompleteHolds == Spec => [](interrupts <= 1 => CallComplete)
<1>1. IInv /\ Scheduled => (interrupts <= 1 => CallComplete)
  <2> SUFFICES ASSUME IInv, Scheduled, interrupts <= 1 PROVE CallComplete
    OBVIOUS
  <2>1. interrupts \in Nat
    BY SchedulerAssumption DEF IInv, TypeOK
  <2>2. \A t \in Tasks : AtWork(t) => t \in Holders
    BY <2>1 DEF IInv, AwaitedOrInterrupted
  <2>3. pc = "returned" => pending = {} /\ running = {} /\ Holders = {}
    BY DEF IInv, Placed, Holders
  <2>4. pc = "returned" => /\ \A t \in Tasks : HasOutcome(t)
                           /\ committed = Tasks
                           /\ \A t \in Tasks : outcome[t] = "completed" =>
                                \E i \in DOMAIN accepted : accepted[i] = t
    BY DEF IInv, Placed, Published
  <2>5. pc = "returned" => busy = {} /\ \A t \in Tasks : ~ AtWork(t)
    BY <2>2, <2>3 DEF IInv, LanesHeld
  <2>6. pc = "raised" => running = {} /\ \A t \in Tasks : HasOutcome(t)
    BY DEF IInv, Placed
  <2>7. pc = "raised" => \A t \in Tasks : AtWork(t) => t = cur /\ t \in pending
    BY <2>2, <2>6 DEF IInv, LanesHeld, Holders
  <2>8. Cardinality(pending) <= batch.max
    BY QueueBounded
  <2>. QED
    BY <2>4, <2>5, <2>6, <2>7, <2>8 DEF CallComplete
<1>2. Init => Scheduled
  BY DEF Init, Scheduled
<1>3. IInv /\ Scheduled /\ [Next]_vars => Scheduled'
  BY ScheduledStep
<1>. QED
  BY <1>1, <1>2, <1>3, Invariant, PTL DEF Spec
=============================================================================
