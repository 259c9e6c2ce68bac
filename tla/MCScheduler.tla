---------------------------- MODULE MCScheduler ----------------------------
(* Instances of Scheduler for TLC: three tasks with every combination of     *)
(* forward edges, with and without a preference against the logical order,   *)
(* batches whose sequence numbers contradict their edge and batches larger   *)
(* than the ready queue.                                                     *)
EXTENDS Scheduler

CONSTANTS lane1, lane2

Kinds == {"none", "completion", "success"}

\* Edges 1->2, 1->3, 2->3.
Forward ==
  {[e \in Tasks \X Tasks |->
      IF e = <<1, 2>> THEN a ELSE IF e = <<1, 3>> THEN b ELSE IF e = <<2, 3>> THEN c ELSE "none"]
    : a \in Kinds, b \in Kinds, c \in Kinds}

\* Task 1 depends on task 3, task 2 on nothing.
Backward == {[e \in Tasks \X Tasks |-> IF e = <<3, 1>> THEN k ELSE "none"]
              : k \in {"completion", "success"}}

Everywhere == [t \in Tasks |-> Lanes]
OneLane    == [t \in Tasks |-> IF t = 2 THEN {lane2} ELSE {lane1}]

Batch(E, O, T, P) ==
  {[edge |-> e, on |-> o, timed |-> t, prio |-> p, max |-> N] : e \in E, o \in O, t \in T, p \in P}

\* The ready queue has room for one task less than the batch has.
TooLarge(B) == {[b EXCEPT !.max = N - 1] : b \in B}

Flat   == [t \in Tasks |-> 0]
Upward == [t \in Tasks |-> t]

\* Tasks 2 and 3 may depend on the success of task 1, which has a timeout.
Fork == {e \in Forward : e[2, 3] = "none" /\ "completion" \notin {e[1, 2], e[1, 3]}}

TimedBatches == Batch(Fork, {Everywhere}, {{1}}, {Upward})

SmallBatches ==
  Batch(Forward, {Everywhere}, {{}}, {Upward})
  \cup Batch(Forward, {OneLane}, {{}}, {Flat})
  \cup Batch(Backward, {Everywhere}, {{}}, {Flat})
  \cup TimedBatches \cup TooLarge(TimedBatches)

\* Fewer batches, for two interrupts.
LiveBatches ==
  Batch(Fork, {Everywhere, OneLane}, {{}}, {Upward})
  \cup Batch(Backward, {Everywhere}, {{}}, {Flat})
  \cup Batch(Fork, {OneLane}, {{1}}, {Flat})
  \cup TooLarge(TimedBatches)
=============================================================================
