-------------------------- MODULE OperatorChannel --------------------------
(***************************************************************************)
(* The operator channel of one run: the pipeline of scripts/pipeline.py    *)
(* asks a question by writing pending_approval.json and polls for          *)
(* approval_decision.json; POST /runs/{run_id}/approval of                 *)
(* scripts/server.py, in another process, writes the latter.               *)
(*                                                                         *)
(* The questions are the amendments escalated one after the other by       *)
(* escalate_delta_proposals of scripts/orchestrator.py.  An answer carries *)
(* no question: `about` is what was in the pending file when the route     *)
(* checked it was there; no code reads it.                                 *)
(* The route does not await after its checks, so the server handles one    *)
(* answer at a time; the pipeline moves between any two of its file        *)
(* operations.                                                             *)
(***************************************************************************)
EXTENDS Naturals, Sequences

CONSTANTS
  N,           \* number of proposals escalated
  MaxAnswers,  \* bound on the answers written
  MaxFaults    \* bound on the ledger entries lost to a failing append

ASSUME ChannelAssumption ==
  /\ N \in Nat
  /\ MaxAnswers \in Nat
  /\ MaxFaults \in Nat

Questions == 1..N
NoFile    == 0
Partial   == N + 1  \* pending_approval.json opened for writing: no JSON yet

VARIABLES
  pc,          \* where the pipeline is
  asked,       \* number of the question asked last
  pending,     \* pending_approval.json: NoFile, Partial or a question
  decision,    \* approval_decision.json, NoAnswer if it is not there
  answer,      \* the decision read for each question
  verdict,     \* what the handler returned for each question
  ledger,      \* the durable file of operator decisions
  amendments,  \* questions whose amendment was added to the constitution
  http,        \* the answer whose checks have passed, NoAnswer if none
  answers,     \* number of answers written
  faults

files == <<pending, decision>>
told  == <<answer, verdict, ledger, amendments>>
route == <<http, answers>>
vars  == <<pc, asked, files, told, route, faults>>

Texts    == {"approve", "reject"}
Verdicts == Texts \cup {"DEFERRED"}
NoAnswer == [id |-> 0, about |-> 0, text |-> "none"]
Answers  == [id : 1..MaxAnswers, about : 1..Partial, text : Texts] \cup {NoAnswer}

Final == {"stopped", "over", "dead"}

TypeOK ==
  /\ pc \in {"gate", "work", "asking", "writing", "waiting", "decided"} \cup Final
  /\ asked \in 0..N
  /\ pending \in 0..(N + 1)
  /\ decision \in Answers
  /\ answer \in [Questions -> Answers]
  /\ verdict \in [Questions -> Verdicts \cup {"none"}]
  /\ ledger \in Seq([question : Questions, decision : Verdicts])
  /\ amendments \subseteq Questions
  /\ http \in Answers
  /\ answers \in 0..MaxAnswers
  /\ faults \in 0..MaxFaults

Init ==
  /\ pc = "gate"
  /\ asked = 0
  /\ pending = NoFile
  /\ decision = NoAnswer
  /\ answer = [q \in Questions |-> NoAnswer]
  /\ verdict = [q \in Questions |-> "none"]
  /\ ledger = <<>>
  /\ amendments = {}
  /\ http = NoAnswer
  /\ answers = 0
  /\ faults = 0

-----------------------------------------------------------------------------
(* The pipeline.                                                           *)

\* enforce_current_models: started by the server the run is not interactive,
\* and a deprecated model stops it (exit code 3) without a call of the handler.
ModelGate ==
  /\ pc = "gate"
  /\ pc' \in {"work", "stopped"}
  /\ UNCHANGED <<asked, files, told, route, faults>>

\* Mutants: the loop runs once too often; the old decision file stays.
BeginAskOnceMore ==
  /\ pc = "work" /\ asked <= N
  /\ asked' = asked + 1
  /\ decision' = NoAnswer
  /\ pc' = "asking"
  /\ UNCHANGED <<pending, told, route, faults>>

BeginAskKeepsDecision ==
  /\ pc = "work" /\ asked < N
  /\ asked' = asked + 1
  /\ pc' = "asking"
  /\ UNCHANGED <<files, told, route, faults>>

\* The next proposal is escalated; the handler removes an old decision file.
BeginAsk ==
  /\ pc = "work"
  /\ asked < N
  /\ asked' = asked + 1
  /\ decision' = NoAnswer
  /\ pc' = "asking"
  /\ UNCHANGED <<pending, told, route, faults>>

\* write_text truncates the pending file, then fills it.
PendingOpened ==
  /\ pc = "asking"
  /\ pending' = Partial
  /\ pc' = "writing"
  /\ UNCHANGED <<asked, decision, told, route, faults>>

PendingWritten ==
  /\ pc = "writing"
  /\ pending' = asked
  /\ pc' = "waiting"
  /\ UNCHANGED <<asked, decision, told, route, faults>>

\* _record_operator_decision: a failing append is swallowed.
RecordDecision(q, v) ==
  \/ /\ ledger' = Append(ledger, [question |-> q, decision |-> v])
     /\ UNCHANGED faults
  \/ /\ faults < MaxFaults
     /\ faults' = faults + 1
     /\ UNCHANGED ledger

\* The poll finds a decision: whatever question it was checked against, it is
\* taken for the answer to this one.
TakeDecision ==
  /\ pc = "waiting"
  /\ decision # NoAnswer
  /\ RecordDecision(asked, decision.text)
  /\ answer' = [answer EXCEPT ![asked] = decision]
  /\ verdict' = [verdict EXCEPT ![asked] = decision.text]
  /\ pc' = "decided"
  /\ UNCHANGED <<asked, files, amendments, route>>

\* Mutants: the timeout leaves no record; the wait has no end.
TimeOutUnrecorded ==
  /\ pc = "waiting"
  /\ verdict' = [verdict EXCEPT ![asked] = "DEFERRED"]
  /\ pc' = "decided"
  /\ UNCHANGED <<asked, files, answer, ledger, amendments, route, faults>>

TimeOutNever == FALSE /\ UNCHANGED vars

\* The deadline has passed at the head of the loop; a decision file written
\* during the last sleep is not looked for.
TimeOut ==
  /\ pc = "waiting"
  /\ RecordDecision(asked, "DEFERRED")
  /\ verdict' = [verdict EXCEPT ![asked] = "DEFERRED"]
  /\ pc' = "decided"
  /\ UNCHANGED <<asked, files, answer, amendments, route>>

\* A mutant: only a rejection keeps the amendment out.
EnactUnlessRejected ==
  /\ pc = "decided"
  /\ amendments' = IF verdict[asked] # "reject" THEN amendments \cup {asked} ELSE amendments
  /\ pc' = "work"
  /\ UNCHANGED <<asked, files, answer, verdict, ledger, route, faults>>

\* The amendment is added if the verdict approves.
Enact ==
  /\ pc = "decided"
  /\ amendments' = IF verdict[asked] = "approve" THEN amendments \cup {asked} ELSE amendments
  /\ pc' = "work"
  /\ UNCHANGED <<asked, files, answer, verdict, ledger, route, faults>>

Finish ==
  /\ pc = "work"
  /\ asked = N
  /\ pc' = "over"
  /\ UNCHANGED <<asked, files, told, route, faults>>

\* A cancel, the run timeout or a crash ends the process anywhere.
Killed ==
  /\ pc \notin Final
  /\ pc' = "dead"
  /\ UNCHANGED <<asked, files, told, route, faults>>

-----------------------------------------------------------------------------
(* The server.                                                             *)

\* _pending_approval_for finds a question: GET /approvals lists the run.
Awaiting == pending \in Questions /\ decision = NoAnswer

\* A mutant: a decision already there is not looked for.
RouteChecksPending(text) ==
  /\ http = NoAnswer /\ answers < MaxAnswers
  /\ pending # NoFile
  /\ http' = [id |-> answers + 1, about |-> pending, text |-> text]
  /\ answers' = answers + 1
  /\ UNCHANGED <<pc, asked, files, told, faults>>

\* answer_approval up to its write: a pending file, and no decision beside it.
RouteChecks(text) ==
  /\ http = NoAnswer
  /\ answers < MaxAnswers
  /\ pending # NoFile
  /\ decision = NoAnswer
  /\ http' = [id |-> answers + 1, about |-> pending, text |-> text]
  /\ answers' = answers + 1
  /\ UNCHANGED <<pc, asked, files, told, faults>>

\* tmp.replace(decision_path): the file is there at once; 202 recorded.
RouteWrites ==
  /\ http # NoAnswer
  /\ decision' = http
  /\ http' = NoAnswer
  /\ UNCHANGED <<pc, asked, pending, told, answers, faults>>

\* The server process ends before the replace.
RouteLost ==
  /\ http # NoAnswer
  /\ http' = NoAnswer
  /\ UNCHANGED <<pc, asked, files, told, answers, faults>>

-----------------------------------------------------------------------------
Pipeline ==
  \/ ModelGate \/ BeginAsk \/ PendingOpened \/ PendingWritten
  \/ TakeDecision \/ TimeOut \/ Enact \/ Finish

Server ==
  \/ RouteWrites \/ RouteLost
  \/ \E text \in Texts : RouteChecks(text)

\* The run has ended; its files stay.
Ended == pc \in Final /\ UNCHANGED vars

Next == Pipeline \/ Killed \/ Server \/ Ended

Spec == Init /\ [][Next]_vars

\* The pipeline runs and its deadline comes; no client has to read or answer.
Fairness == WF_vars(Pipeline)

FairSpec == Spec /\ Fairness

-----------------------------------------------------------------------------
(* Safety.                                                                 *)

\* One answer never decides two questions, although both processes work on
\* the same two files for every question (_make_file_operator_handler removes
\* the decision file, answer_approval never writes over one).
EachAnswerCountsOnce ==
  \A p, q \in Questions : answer[p] # NoAnswer /\ answer[p].id = answer[q].id => p = q

\* A recorded answer stands until the next question is asked: neither a second
\* answer nor a slow one replaces it (the 409 of answer_approval, 2167).
DecisionStands ==
  [][decision # NoAnswer /\ decision' # decision => asked' = asked + 1 /\ decision' = NoAnswer]_vars

\* The ledger tells what was decided, in the order of the questions, each once,
\* a timeout included, with no line missing but those whose append failed: also
\* when the run is killed between a verdict and what follows from it
\* (_record_operator_decision).
LedgerFaithful ==
  /\ \A i, j \in DOMAIN ledger : i < j => ledger[i].question < ledger[j].question
  /\ \A i \in DOMAIN ledger : verdict[ledger[i].question] = ledger[i].decision
  /\ Len(ledger) + faults = asked - (IF asked > 0 /\ verdict[asked] = "none" THEN 1 ELSE 0)

\* An amendment enters the constitution only if an answer with that text was
\* written for it, never on a timeout or a lost ledger line; when the run is
\* over all approved ones have entered (escalate_delta_proposals).
AmendmentsEarned ==
  /\ \A q \in amendments : verdict[q] = "approve" /\ answer[q].text = "approve"
  /\ pc = "over" => amendments = {q \in Questions : verdict[q] = "approve"}

-----------------------------------------------------------------------------
(* The invariant that makes the safety properties inductive; proved in     *)
(* OperatorChannel_proofs.tla.                                             *)

Asking == {"asking", "writing", "waiting"}

\* While an answer is between check and write, no decision is on disk; it is
\* newer than all that were read.
HandFresh ==
  http # NoAnswer => /\ decision = NoAnswer
                     /\ http.id = answers
                     /\ \A q \in Questions : answer[q].id < http.id

\* A decision that the question in hand may still find was never read before.
FileFresh ==
  pc \in Asking /\ decision # NoAnswer => \A q \in Questions : answer[q].id < decision.id

IdsBounded == decision.id <= answers /\ \A q \in Questions : answer[q].id <= answers

\* Verdicts come in the order of the questions.
VerdictsInOrder ==
  /\ pc = "gate" => asked = 0
  /\ pc \in Asking \cup {"decided"} => asked > 0
  /\ \A q \in Questions : q > asked => verdict[q] = "none"
  /\ pc \in Asking => verdict[asked] = "none"
  /\ pc \in {"decided", "work", "over"} /\ asked > 0 => verdict[asked] # "none"

\* An approval was read, and what was approved and is not in hand is enacted.
Enacted ==
  /\ \A q \in Questions : verdict[q] = "approve" => answer[q].text = "approve"
  /\ amendments \subseteq {q \in Questions : verdict[q] = "approve"}
  /\ \A q \in Questions :
       verdict[q] = "approve" => q \in amendments \/ pc = "dead" \/ (pc = "decided" /\ q = asked)

ChannelInv ==
  HandFresh /\ FileFresh /\ IdsBounded /\ EachAnswerCountsOnce /\ VerdictsInOrder /\ Enacted

-----------------------------------------------------------------------------
(* Liveness, under FairSpec.                                               *)

\* A question does not hold a run for ever, whether anybody answers, too late
\* or twice ("parks and waits for a human", SHIMMER_APPROVAL_WAIT_S).
EveryQuestionEnds == pc = "asking" ~> pc \in {"work", "over", "dead"}

-----------------------------------------------------------------------------
(* What comments and documents of the repository say of this channel, and  *)
(* TLC refutes (see the findings of the README).                           *)

\* "A stale decision file from an earlier topic must never be read as this
\* topic's answer" (pipeline.py:3889).
NoStaleAnswer == \A q \in Questions : answer[q].about \in Questions => answer[q].about = q

\* GET /approvals lists "Every run currently awaiting a governed decision"
\* (server.py:3153).
AwaitingMeansWaiting == Awaiting => pc = "waiting" /\ asked = pending

\* "A governed decision (model-gate stop, constitution amendment) that would
\* otherwise deny/stop [...] now parks" (server.py:749).
GateAsksHuman == pc = "stopped" => pending # NoFile
=============================================================================
