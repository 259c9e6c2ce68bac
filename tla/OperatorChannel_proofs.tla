----------------------- MODULE OperatorChannel_proofs -----------------------
(* Proofs about OperatorChannel, for every value of its constants.         *)
EXTENDS OperatorChannel, TLAPS

-----------------------------------------------------------------------------
(* Types.                                                                  *)

LEMMA InitType == Init => TypeOK
BY ChannelAssumption
   DEF Init, TypeOK, Answers, NoAnswer, NoFile, Final, Questions, Verdicts, Texts

LEMMA NoAnswerType == NoAnswer \in Answers
BY DEF Answers

\* An answer is not NoAnswer exactly if it has a positive id.
LEMMA IdsOfAnswers ==
  ASSUME NEW a \in Answers
  PROVE  /\ a.id \in 0..MaxAnswers
         /\ a = NoAnswer <=> a.id = 0
         /\ a # NoAnswer => a.text \in Texts
BY ChannelAssumption DEF Answers, NoAnswer

LEMMA RecordType ==
  ASSUME NEW q \in Questions, NEW v \in Verdicts, TypeOK, RecordDecision(q, v)
  PROVE  /\ ledger' \in Seq([question : Questions, decision : Verdicts])
         /\ faults' \in 0..MaxFaults
<1> DEFINE Entry == [question |-> q, decision |-> v]
           Entries == [question : Questions, decision : Verdicts]
<1>1. Entry \in Entries
  OBVIOUS
<1>2. ledger \in Seq(Entries) /\ faults \in 0..MaxFaults
  BY DEF TypeOK
<1>3. ledger' \in {ledger, Append(ledger, Entry)}
  BY DEF RecordDecision
<1>4. faults' \in 0..MaxFaults
  BY <1>2, ChannelAssumption DEF RecordDecision
<1>5. \A S : \A s \in Seq(S), e \in S : Append(s, e) \in Seq(S)
  OBVIOUS
<1>6. Append(ledger, Entry) \in Seq(Entries)
  <2> HIDE DEF Entry, Entries
  <2>. QED
    BY <1>1, <1>2, <1>5
<1>. QED
  BY <1>2, <1>3, <1>4, <1>6

\* Every step keeps the types, given that a question is in hand where the
\* handler works on one.
LEMMA TypeStep == ASSUME TypeOK, VerdictsInOrder, Next PROVE TypeOK'
<1> USE ChannelAssumption
<1>1. ASSUME ModelGate PROVE TypeOK'
  BY <1>1 DEF ModelGate, TypeOK, files, told, route, Final
<1>2. ASSUME BeginAsk PROVE TypeOK'
  BY <1>2, NoAnswerType DEF BeginAsk, TypeOK, files, told, route
<1>3. ASSUME PendingOpened PROVE TypeOK'
  BY <1>3 DEF PendingOpened, TypeOK, Partial, files, told, route
<1>4. ASSUME PendingWritten PROVE TypeOK'
  BY <1>4 DEF PendingWritten, TypeOK, files, told, route
<1>5. ASSUME TakeDecision PROVE TypeOK'
  <2>1. asked \in Questions /\ decision.text \in Verdicts
    BY <1>5, IdsOfAnswers DEF TakeDecision, TypeOK, VerdictsInOrder, Asking, Questions, Verdicts
  <2>2. /\ ledger' \in Seq([question : Questions, decision : Verdicts])
        /\ faults' \in 0..MaxFaults
    BY <1>5, <2>1, RecordType DEF TakeDecision
  <2>3. answer' \in [Questions -> Answers] /\ verdict' \in [Questions -> Verdicts \cup {"none"}]
    BY <1>5, <2>1 DEF TakeDecision, TypeOK
  <2>4. /\ pc' = "decided"
        /\ UNCHANGED <<asked, pending, decision, amendments, http, answers>>
    BY <1>5 DEF TakeDecision, files, route
  <2>. QED
    BY <2>2, <2>3, <2>4 DEF TypeOK
<1>6. ASSUME TimeOut PROVE TypeOK'
  <2>1. asked \in Questions /\ "DEFERRED" \in Verdicts
    BY <1>6 DEF TimeOut, TypeOK, VerdictsInOrder, Asking, Questions, Verdicts
  <2>2. /\ ledger' \in Seq([question : Questions, decision : Verdicts])
        /\ faults' \in 0..MaxFaults
    BY <1>6, <2>1, RecordType DEF TimeOut
  <2>3. verdict' \in [Questions -> Verdicts \cup {"none"}]
    BY <1>6, <2>1 DEF TimeOut, TypeOK
  <2>4. /\ pc' = "decided"
        /\ UNCHANGED <<asked, pending, decision, answer, amendments, http, answers>>
    BY <1>6 DEF TimeOut, files, route
  <2>. QED
    BY <2>2, <2>3, <2>4 DEF TypeOK
<1>7. ASSUME Enact PROVE TypeOK'
  <2>1. asked \in Questions
    BY <1>7 DEF Enact, TypeOK, VerdictsInOrder, Questions
  <2>2. amendments' \subseteq Questions
    BY <1>7, <2>1 DEF Enact, TypeOK
  <2>. QED
    BY <1>7, <2>2 DEF Enact, TypeOK, files, route
<1>8. ASSUME Finish \/ Killed PROVE TypeOK'
  BY <1>8 DEF Finish, Killed, TypeOK, files, told, route, Final
<1>9. ASSUME NEW text \in Texts, RouteChecks(text) PROVE TypeOK'
  <2>1. http' \in Answers
    <3>1. answers + 1 \in 1..MaxAnswers /\ pending \in 1..Partial
      BY <1>9 DEF RouteChecks, TypeOK, NoFile, Partial
    <3>. QED
      BY <1>9, <3>1 DEF RouteChecks, Answers
  <2>. QED
    BY <1>9, <2>1 DEF RouteChecks, TypeOK, files, told
<1>10. ASSUME RouteWrites \/ RouteLost PROVE TypeOK'
  BY <1>10, NoAnswerType DEF RouteWrites, RouteLost, TypeOK, files, told
<1>11. ASSUME Ended PROVE TypeOK'
  BY <1>11 DEF Ended, vars, TypeOK, files, told, route
<1>. QED
  BY <1>1, <1>2, <1>3, <1>4, <1>5, <1>6, <1>7, <1>8, <1>9, <1>10, <1>11
     DEF Next, Pipeline, Server

-----------------------------------------------------------------------------
(* The inductive invariant.                                                *)

LEMMA InitInv == Init => ChannelInv
BY ChannelAssumption
   DEF Init, ChannelInv, HandFresh, FileFresh, IdsBounded, EachAnswerCountsOnce,
       VerdictsInOrder, Enacted, Asking, NoAnswer, Questions

\* Freshness of answers through the steps of the pipeline.
LEMMA PipelineFresh ==
  ASSUME TypeOK, ChannelInv, Pipeline \/ Killed
  PROVE  (HandFresh /\ FileFresh /\ IdsBounded /\ EachAnswerCountsOnce)'
<1> USE DEF HandFresh, FileFresh, IdsBounded, EachAnswerCountsOnce
<1>0. /\ HandFresh /\ FileFresh /\ IdsBounded /\ EachAnswerCountsOnce
      /\ answer \in [Questions -> Answers] /\ decision \in Answers /\ http \in Answers
      /\ answers \in Nat
  BY ChannelAssumption DEF ChannelInv, TypeOK
<1>1. ASSUME ModelGate \/ Finish \/ Killed \/ Enact PROVE (HandFresh /\ FileFresh /\ IdsBounded /\ EachAnswerCountsOnce)'
  <2>1. UNCHANGED <<decision, answer, http, answers>> /\ pc' \notin Asking
    BY <1>1 DEF ModelGate, Finish, Killed, Enact, files, told, route, Asking, Final
  <2>. QED
    BY <1>0, <2>1
<1>2. ASSUME BeginAsk PROVE (HandFresh /\ FileFresh /\ IdsBounded /\ EachAnswerCountsOnce)'
  BY <1>0, <1>2 DEF BeginAsk, told, route, NoAnswer
<1>3. ASSUME PendingOpened \/ PendingWritten PROVE (HandFresh /\ FileFresh /\ IdsBounded /\ EachAnswerCountsOnce)'
  <2>1. UNCHANGED <<decision, answer, http, answers>> /\ pc \in Asking
    BY <1>3 DEF PendingOpened, PendingWritten, told, route, Asking
  <2>. QED
    BY <1>0, <2>1
<1>4. ASSUME TakeDecision PROVE (HandFresh /\ FileFresh /\ IdsBounded /\ EachAnswerCountsOnce)'
  <2>1. /\ UNCHANGED <<decision, http, answers>> /\ pc' \notin Asking
        /\ pc \in Asking /\ decision # NoAnswer
        /\ answer' = [answer EXCEPT ![asked] = decision]
    BY <1>4 DEF TakeDecision, files, route, Asking
  <2>2. http = NoAnswer
    BY <1>0, <2>1
  <2>3. \A q \in Questions : answer'[q] = answer[q] \/ answer'[q] = decision
    BY <1>0, <2>1
  <2>4. EachAnswerCountsOnce'
    <3>1. ASSUME NEW p \in Questions, NEW q \in Questions,
                 answer'[p] # NoAnswer, answer'[p].id = answer'[q].id
          PROVE  p = q
      <4>1. \A r \in Questions : answer'[r] = IF r = asked THEN decision ELSE answer[r]
        BY <1>0, <2>1
      <4>2. \A r \in Questions : answer[r].id # decision.id
        <5>1. \A r \in Questions : answer[r].id < decision.id /\ answer[r].id \in Nat
          BY <1>0, <2>1, IdsOfAnswers
        <5>2. decision.id \in Nat
          BY <1>0, IdsOfAnswers
        <5>. QED
          BY <5>1, <5>2
      <4>. QED
        BY <1>0, <3>1, <4>1, <4>2
    <3>. QED
      BY <3>1
  <2>. QED
    BY <1>0, <2>1, <2>2, <2>3, <2>4
<1>5. ASSUME TimeOut PROVE (HandFresh /\ FileFresh /\ IdsBounded /\ EachAnswerCountsOnce)'
  <2>1. UNCHANGED <<decision, answer, http, answers>> /\ pc' \notin Asking
    BY <1>5 DEF TimeOut, files, route, Asking
  <2>. QED
    BY <1>0, <2>1
<1>. QED
  BY <1>1, <1>2, <1>3, <1>4, <1>5 DEF Pipeline

\* Freshness of answers through the steps of the server: an answer is newer
\* than all answers read, and it is written where there is none.
LEMMA ServerFresh ==
  ASSUME TypeOK, ChannelInv, Server
  PROVE  (HandFresh /\ FileFresh /\ IdsBounded /\ EachAnswerCountsOnce)'
<1> USE DEF HandFresh, FileFresh, IdsBounded, EachAnswerCountsOnce
<1>0. /\ HandFresh /\ FileFresh /\ IdsBounded /\ EachAnswerCountsOnce
      /\ decision.id \in Nat /\ (\A q \in Questions : answer[q].id \in Nat)
      /\ answers \in Nat
  BY ChannelAssumption, IdsOfAnswers DEF ChannelInv, TypeOK
<1>1. ASSUME NEW text \in Texts, RouteChecks(text)
      PROVE  (HandFresh /\ FileFresh /\ IdsBounded /\ EachAnswerCountsOnce)'
  <2>1. /\ UNCHANGED <<pc, decision, answer>> /\ decision = NoAnswer
        /\ answers' = answers + 1 /\ http'.id = answers + 1
    BY <1>1 DEF RouteChecks, files, told
  <2>. QED
    BY <1>0, <2>1
<1>2. ASSUME RouteWrites PROVE (HandFresh /\ FileFresh /\ IdsBounded /\ EachAnswerCountsOnce)'
  <2>1. /\ UNCHANGED <<pc, answer, answers>> /\ http # NoAnswer
        /\ decision' = http /\ http' = NoAnswer
    BY <1>2 DEF RouteWrites, told
  <2>. QED
    BY <1>0, <2>1
<1>3. ASSUME RouteLost PROVE (HandFresh /\ FileFresh /\ IdsBounded /\ EachAnswerCountsOnce)'
  BY <1>0, <1>3 DEF RouteLost, files, told
<1>. QED
  BY <1>1, <1>2, <1>3 DEF Server

\* The verdicts and what follows from them change with the pipeline only.
LEMMA VerdictStep ==
  ASSUME TypeOK, ChannelInv, Pipeline \/ Killed
  PROVE  VerdictsInOrder' /\ Enacted'
<1> USE DEF VerdictsInOrder, Enacted
<1>0. /\ VerdictsInOrder /\ Enacted
      /\ asked \in 0..N /\ N \in Nat
      /\ answer \in [Questions -> Answers]
      /\ verdict \in [Questions -> Verdicts \cup {"none"}]
      /\ amendments \subseteq Questions
  BY ChannelAssumption DEF ChannelInv, TypeOK
<1>1. ASSUME ModelGate \/ PendingOpened \/ PendingWritten \/ Finish \/ Killed
      PROVE  VerdictsInOrder' /\ Enacted'
  <2>1. /\ UNCHANGED <<asked, verdict, answer, amendments>>
        /\ pc' = "dead" \/ pc \notin {"decided", "dead"}
    BY <1>1 DEF ModelGate, PendingOpened, PendingWritten, Finish, Killed, told, Final
  <2>2. CASE pc \in Asking /\ pc' \in Asking
    BY <1>0, <2>1, <2>2 DEF Asking
  <2>3. CASE pc = "gate" /\ pc' \in {"work", "stopped"}
    BY <1>0, <1>1, <2>1, <2>3 DEF Asking
  <2>4. CASE pc' \in {"over", "dead"} /\ (pc' = "over" => pc = "work")
    BY <1>0, <2>1, <2>4 DEF Asking
  <2>. QED
    BY <1>1, <2>2, <2>3, <2>4 DEF ModelGate, PendingOpened, PendingWritten, Finish, Killed, Asking
<1>2. ASSUME BeginAsk PROVE VerdictsInOrder' /\ Enacted'
  <2>1. /\ UNCHANGED <<verdict, answer, amendments>>
        /\ pc = "work" /\ pc' = "asking" /\ asked' = asked + 1 /\ asked' \in Questions
    BY <1>0, <1>2 DEF BeginAsk, told, Questions
  <2>. QED
    BY <1>0, <2>1 DEF Asking, Questions
<1>3. ASSUME NEW v \in Verdicts, pc = "waiting", pc' = "decided",
             UNCHANGED <<asked, amendments>>,
             verdict' = [verdict EXCEPT ![asked] = v],
             \A q \in Questions \ {asked} : answer'[q] = answer[q],
             v = "approve" => answer'[asked].text = "approve"
      PROVE  VerdictsInOrder' /\ Enacted'
  <2>1. asked \in Questions /\ verdict[asked] = "none" /\ asked \notin amendments
    BY <1>0, <1>3 DEF Asking, Questions
  <2>2. \A q \in Questions : verdict'[q] = IF q = asked THEN v ELSE verdict[q]
    BY <1>0, <1>3
  <2>3. VerdictsInOrder'
    BY <1>0, <1>3, <2>1, <2>2 DEF Asking, Verdicts, Texts
  <2>4. Enacted'
    BY <1>0, <1>3, <2>1, <2>2
  <2>. QED
    BY <2>3, <2>4
<1>4. ASSUME TakeDecision PROVE VerdictsInOrder' /\ Enacted'
  <2>1. decision.text \in Verdicts
    BY <1>4, IdsOfAnswers DEF TakeDecision, TypeOK, Verdicts
  <2>2. asked \in Questions
    BY <1>0, <1>4 DEF TakeDecision, Asking, Questions
  <2>3. /\ answer'[asked] = decision
        /\ \A q \in Questions \ {asked} : answer'[q] = answer[q]
    BY <1>0, <1>4, <2>2 DEF TakeDecision
  <2>. QED
    BY <1>3, <1>4, <2>1, <2>3 DEF TakeDecision
<1>5. ASSUME TimeOut PROVE VerdictsInOrder' /\ Enacted'
  BY <1>3, <1>5 DEF TimeOut, Verdicts
<1>6. ASSUME Enact PROVE VerdictsInOrder' /\ Enacted'
  <2>1. /\ UNCHANGED <<asked, verdict, answer>>
        /\ pc = "decided" /\ pc' = "work"
        /\ amendments' = IF verdict[asked] = "approve" THEN amendments \cup {asked} ELSE amendments
        /\ asked \in Questions
    BY <1>0, <1>6 DEF Enact, Questions
  <2>. QED
    BY <1>0, <2>1 DEF Asking
<1>. QED
  BY <1>1, <1>2, <1>4, <1>5, <1>6 DEF Pipeline

LEMMA InvStep == ASSUME TypeOK, ChannelInv, Next PROVE ChannelInv'
<1>1. CASE Pipeline \/ Killed
  BY <1>1, PipelineFresh, VerdictStep DEF ChannelInv
<1>2. CASE Server
  <2>1. UNCHANGED <<pc, asked, answer, verdict, amendments>>
    BY <1>2 DEF Server, RouteChecks, RouteWrites, RouteLost, told
  <2>2. (VerdictsInOrder /\ Enacted)'
    BY <2>1 DEF ChannelInv, VerdictsInOrder, Enacted
  <2>. QED
    BY <1>2, <2>2, ServerFresh DEF ChannelInv
<1>3. CASE Ended
  BY <1>3 DEF Ended, vars, files, told, route, ChannelInv, HandFresh, FileFresh, IdsBounded,
              EachAnswerCountsOnce, VerdictsInOrder, Enacted
<1>. QED
  BY <1>1, <1>2, <1>3 DEF Next

LEMMA Inductive == Spec => [](TypeOK /\ ChannelInv)
<1>1. Init => TypeOK /\ ChannelInv
  BY InitType, InitInv
<1>2. TypeOK /\ ChannelInv /\ Next => (TypeOK /\ ChannelInv)'
  BY TypeStep, InvStep DEF ChannelInv
<1>3. TypeOK /\ ChannelInv /\ UNCHANGED vars => (TypeOK /\ ChannelInv)'
  BY DEF vars, files, told, route, TypeOK, ChannelInv, HandFresh, FileFresh, IdsBounded,
         EachAnswerCountsOnce, VerdictsInOrder, Enacted
<1>. QED
  BY <1>1, <1>2, <1>3, PTL DEF Spec

-----------------------------------------------------------------------------
(* The ledger.                                                             *)

\* A verdict and its line in the ledger, or one more lost line.
LEMMA LedgerRecords ==
  ASSUME TypeOK, VerdictsInOrder, LedgerFaithful, NEW v \in Verdicts,
         pc = "waiting", UNCHANGED asked,
         verdict' = [verdict EXCEPT ![asked] = v],
         RecordDecision(asked, v)
  PROVE  LedgerFaithful'
<1> DEFINE Entry == [question |-> asked, decision |-> v]
           Entries == [question : Questions, decision : Verdicts]
<1>1. /\ asked \in Questions /\ verdict[asked] = "none" /\ Questions \subseteq Nat /\ v # "none"
      /\ verdict \in [Questions -> Verdicts \cup {"none"}]
      /\ ledger \in Seq(Entries) /\ faults \in Nat /\ Len(ledger) \in Nat
  BY ChannelAssumption DEF TypeOK, VerdictsInOrder, Asking, Questions, Verdicts, Texts
<1>2. \A q \in Questions : verdict'[q] = IF q = asked THEN v ELSE verdict[q]
  BY <1>1
<1>3. Len(ledger) + faults = asked - 1
  BY <1>1 DEF LedgerFaithful, Questions
<1>4. \A i \in DOMAIN ledger : ledger[i].question \in Questions /\ ledger[i].question < asked
  <2>1. ASSUME NEW i \in DOMAIN ledger
        PROVE  ledger[i].question \in Questions /\ ledger[i].question < asked
    <3>0. \A S : \A s \in Seq(S) : \A k \in DOMAIN s : s[k] \in S
      OBVIOUS
    <3>1. ledger[i] \in Entries
      <4> HIDE DEF Entries
      <4>. QED
        BY <1>1, <2>1, <3>0
    <3>2. verdict[ledger[i].question] = ledger[i].decision /\ ledger[i].decision # "none"
      BY <2>1, <3>1 DEF LedgerFaithful, Verdicts, Texts
    <3>. QED
      BY <1>1, <3>1, <3>2 DEF VerdictsInOrder, Questions
  <2>. QED
    BY <2>1
<1>5. CASE UNCHANGED ledger /\ faults' = faults + 1
  BY <1>1, <1>2, <1>3, <1>4, <1>5 DEF LedgerFaithful, Questions
<1>6. CASE ledger' = Append(ledger, Entry) /\ UNCHANGED faults
  <2>1. /\ DOMAIN ledger' = 1..(Len(ledger) + 1) /\ Len(ledger') = Len(ledger) + 1
        /\ DOMAIN ledger = 1..Len(ledger)
        /\ \A i \in DOMAIN ledger : ledger'[i] = ledger[i]
        /\ ledger'[Len(ledger) + 1] = Entry
    BY <1>1, <1>6
  <2>2. \A i \in DOMAIN ledger' : i \in DOMAIN ledger \/ i = Len(ledger) + 1
    BY <1>1, <2>1
  <2>3. Entry.question = asked /\ Entry.decision = v
    OBVIOUS
  <2>4. ASSUME NEW i \in DOMAIN ledger', NEW j \in DOMAIN ledger', i < j
        PROVE  ledger'[i].question < ledger'[j].question
    <3>1. i \in DOMAIN ledger
      BY <1>1, <2>1, <2>4
    <3>. QED
      BY <1>1, <1>4, <2>1, <2>2, <2>3, <2>4, <3>1 DEF LedgerFaithful
  <2>5. ASSUME NEW i \in DOMAIN ledger' PROVE verdict'[ledger'[i].question] = ledger'[i].decision
    <3>1. CASE i \in DOMAIN ledger
      <4>1. /\ ledger'[i] = ledger[i] /\ verdict[ledger[i].question] = ledger[i].decision
            /\ ledger[i].question \in Questions /\ ledger[i].question # asked
        BY <1>1, <1>4, <2>1, <3>1 DEF LedgerFaithful
      <4>. QED
        BY <1>2, <4>1
    <3>2. CASE i = Len(ledger) + 1
      BY <1>1, <1>2, <2>1, <2>3, <3>2
    <3>. QED
      BY <2>2, <3>1, <3>2
  <2>6. Len(ledger') + faults' = asked' - (IF asked' > 0 /\ verdict'[asked'] = "none" THEN 1 ELSE 0)
    <3>1. asked' = asked /\ verdict'[asked] # "none" /\ asked \in Nat
      BY <1>1, <1>2
    <3>2. Len(ledger') + faults' = asked
      BY <1>1, <1>3, <1>6, <2>1, <3>1
    <3>. QED
      BY <3>1, <3>2
  <2>. QED
    BY <2>4, <2>5, <2>6 DEF LedgerFaithful
<1>. QED
  BY <1>5, <1>6 DEF RecordDecision

LEMMA LedgerStep == ASSUME TypeOK, ChannelInv, LedgerFaithful, Next PROVE LedgerFaithful'
<1>1. VerdictsInOrder /\ NoAnswer.id = 0
  BY DEF ChannelInv, NoAnswer
<1>2. CASE TakeDecision
  <2>1. decision.text \in Verdicts
    BY <1>2, IdsOfAnswers DEF TakeDecision, TypeOK, Verdicts
  <2>. QED
    BY <1>1, <1>2, <2>1, LedgerRecords DEF TakeDecision
<1>3. CASE TimeOut
  BY <1>1, <1>3, LedgerRecords DEF TimeOut, Verdicts
<1>4. CASE BeginAsk
  <2>1. /\ UNCHANGED <<verdict, ledger, faults>> /\ asked' = asked + 1 /\ pc = "work"
        /\ asked \in Nat /\ asked + 1 \in Questions /\ faults \in Nat /\ Len(ledger) \in Nat
    BY <1>4, ChannelAssumption DEF BeginAsk, told, TypeOK, Questions
  <2>2. verdict[asked + 1] = "none" /\ (asked > 0 => verdict[asked] # "none")
    BY <1>1, <2>1 DEF VerdictsInOrder
  <2>. QED
    BY <2>1, <2>2 DEF LedgerFaithful
<1>5. ASSUME ~ TakeDecision, ~ TimeOut, ~ BeginAsk
      PROVE  UNCHANGED <<asked, verdict, ledger, faults>>
  BY <1>5 DEF Next, Pipeline, Server, Killed, Ended, ModelGate, PendingOpened, PendingWritten,
              Enact, Finish, RouteChecks, RouteWrites, RouteLost, vars, told
<1>6. CASE UNCHANGED <<asked, verdict, ledger, faults>>
  BY <1>6 DEF LedgerFaithful
<1>. QED
  BY <1>2, <1>3, <1>4, <1>5, <1>6

-----------------------------------------------------------------------------
(* Theorems.                                                               *)

\* The two files, the handler and the route keep to their values.
THEOREM ChannelTypeCorrect == Spec => []TypeOK
BY Inductive, PTL

\* One answer never decides two questions.
THEOREM EachAnswerCountsOnceHolds == Spec => []EachAnswerCountsOnce
<1>1. ChannelInv => EachAnswerCountsOnce
  BY DEF ChannelInv
<1>. QED
  BY <1>1, Inductive, PTL

\* An amendment enters only on an answer that approves, and all approved ones
\* have entered when the run is over.
THEOREM AmendmentsEarnedHolds == Spec => []AmendmentsEarned
<1>1. TypeOK /\ ChannelInv => AmendmentsEarned
  BY DEF TypeOK, ChannelInv, Enacted, AmendmentsEarned
<1>. QED
  BY <1>1, Inductive, PTL

\* The ledger tells what was decided, in order and without a missing line but
\* those whose append failed.
THEOREM LedgerFaithfulHolds == Spec => []LedgerFaithful
<1>1. Init => LedgerFaithful
  BY DEF Init, LedgerFaithful
<1>2. TypeOK /\ ChannelInv /\ LedgerFaithful /\ [Next]_vars => LedgerFaithful'
  BY LedgerStep DEF vars, told, LedgerFaithful
<1>. QED
  BY <1>1, <1>2, Inductive, PTL DEF Spec

\* A recorded answer stands until the next question is asked.
THEOREM DecisionStandsHolds == Spec => DecisionStands
<1> DEFINE Stands == decision # NoAnswer /\ decision' # decision
                       => asked' = asked + 1 /\ decision' = NoAnswer
<1>1. ASSUME ChannelInv, Next PROVE Stands
  <2>1. CASE BeginAsk
    BY <2>1 DEF BeginAsk
  <2>2. CASE RouteWrites
    BY <1>1, <2>2 DEF RouteWrites, ChannelInv, HandFresh
  <2>3. ASSUME ~ BeginAsk, ~ RouteWrites PROVE decision' = decision
    BY <1>1, <2>3 DEF Next, Pipeline, Server, Killed, Ended, ModelGate, PendingOpened,
          PendingWritten, TakeDecision, TimeOut, Enact, Finish, RouteChecks, RouteLost, vars, files
  <2>. QED
    BY <2>1, <2>2, <2>3
<1>2. UNCHANGED vars => Stands
  BY DEF vars, files
<1>3. ChannelInv /\ [Next]_vars => [Stands]_vars
  BY <1>1, <1>2
<1>. QED
  BY <1>3, Inductive, PTL DEF Spec, DecisionStands
=============================================================================
