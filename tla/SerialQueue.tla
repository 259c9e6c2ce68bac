---------------------------- MODULE SerialQueue ----------------------------
(***************************************************************************)
(* What the server promises of its queue: runs are accepted one by one,    *)
(* start in the order of their acceptance, one at a time, and end once.  A *)
(* run may end before it starts (cancelled), and several may end at once   *)
(* (shutdown, restart).                                                    *)
(***************************************************************************)
EXTENDS Naturals, Sequences

CONSTANT Runs

VARIABLES
  order,  \* the accepted runs, in the order of acceptance
  phase   \* of each run: "absent", "queued", "running" or "ended"

queueState == <<order, phase>>

Waiting == {r \in Runs : phase[r] = "queued"}
Serving == {r \in Runs : phase[r] = "running"}

Init ==
  /\ order = <<>>
  /\ phase = [r \in Runs |-> "absent"]

Accept(r) ==
  /\ phase[r] = "absent"
  /\ order' = Append(order, r)
  /\ phase' = [phase EXCEPT ![r] = "queued"]

\* The run accepted first among those waiting is served, if none is.
Start(r) ==
  /\ Serving = {}
  /\ \E i \in DOMAIN order :
       /\ order[i] = r
       /\ \A k \in 1..(i - 1) : order[k] \notin Waiting
  /\ r \in Waiting
  /\ phase' = [phase EXCEPT ![r] = "running"]
  /\ UNCHANGED order

End(S) ==
  /\ S # {}
  /\ S \subseteq Waiting \cup Serving
  /\ phase' = [r \in Runs |-> IF r \in S THEN "ended" ELSE phase[r]]
  /\ UNCHANGED order

Next ==
  \/ \E r \in Runs : Accept(r) \/ Start(r)
  \/ \E S \in SUBSET Runs : End(S)

Spec == Init /\ [][Next]_queueState
=============================================================================
