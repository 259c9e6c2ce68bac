------------------------ MODULE PairedReview_proofs ------------------------
(***************************************************************************)
(* Proofs about PairedReview, for any documents, rules and agents, in      *)
(* serial mode and with waves: no disagreement that Python computed is     *)
(* lost, a suspended rule stays silent, and amendments are Python's.       *)
(***************************************************************************)
EXTENDS PairedReview, TLAPS

Closed == {"post", "promote", "done"}
Decided == {"computed", "band", "absence_computed"}

Found(p) ==
  \E f \in findings : f.unit = p.unit /\ f.kind = p.kind
                      /\ (f.rule = p.rule \/ <<p, f.rule>> \in reattributed)

-----------------------------------------------------------------------------
(* The invariant                                                           *)

\* A plan cites a rule in force on its unit, and each unit whose shared arithmetic
\* is wrong has its plan.
PlansFit ==
  /\ planned \subseteq Plans /\ todo \subseteq planned
  /\ \A p \in planned : p.rule \in Live(world, p.unit)
  /\ stage = "plan" => pending = {} /\ planned = {} /\ notJudged = {}
  /\ stage # "plan" =>
       \A u \in Units : world.shared[u] = "disagree" /\ Live(world, u) # {} =>
         \E p \in planned : p.unit = u /\ p.kind = "computed"

\* A question is asked of an agent of one of the rules that may judge the plan.
QuestionFits(q) ==
  /\ q.plan \in planned /\ q.plan.kind # "absence_computed"
  /\ q.rule \in JudgingRules(q.plan)
  /\ q.rule = q.plan.rule \/ <<q.plan, q.rule>> \in reattributed

\* Every plan taken was asked, found or set aside because no rule's agent can act.
PlanTaken(p) ==
  \/ p \in todo
  \/ \E q \in pending : q.plan = p
  \/ p \in notJudged
  \/ p.kind \in Decided => Found(p)

Inv ==
  /\ world \in Worlds
  /\ stage \in {"plan", "judge"} \cup Closed
  /\ PlansFit
  /\ \A q \in pending : QuestionFits(q)
  /\ \A p \in planned : PlanTaken(p)
  /\ \A p \in planned \cap notJudged : \A r \in JudgingRules(p) : world.agent[r] = NoAgent
  /\ stage \in Closed => todo = {} /\ pending = {}
  /\ SuspendedStaysSilent
  /\ AmendedOrSaid

-----------------------------------------------------------------------------
(* Rules that may judge                                                    *)

\* A rule that may judge a plan of a rule in force is not suspended on its unit.
LEMMA JudgeNotSuspended ==
  ASSUME world \in Worlds, NEW p \in Plans, p.rule \in Live(world, p.unit),
         NEW r \in JudgingRules(p)
  PROVE  r \in Rules /\ <<p.unit, r>> \notin world.suspended
<1>1. CASE r = p.rule
  BY <1>1 DEF Live, Plans
<1>2. CASE r \in Candidates(p)
  <2>1. r \in Rules /\ r \notin world.unless
    BY <1>2 DEF Candidates
  <2>2. \A s \in world.suspended : s[2] \in world.unless
    BY WorldsAssumption
  <2> QED
    BY <2>1, <2>2
<1> QED
  BY <1>1, <1>2 DEF JudgingRules

\* The planner's plans cite rules in force.
LEMMA PlannedLive ==
  ASSUME NEW w, NEW plans \in PlanCalls(w)
  PROVE  /\ plans \subseteq Plans
         /\ \A p \in plans : p.rule \in Live(w, p.unit)
         /\ \A u \in Units : w.shared[u] = "disagree" /\ Live(w, u) # {} =>
              \E p \in plans : p.unit = u /\ p.kind = "computed"
<1> DEFINE wrong == {u \in Units : w.shared[u] = "disagree" /\ Live(w, u) # {}}
           Rest(u) == AbsencePlans(w, u) \cup BandPlans(w, u) \cup TextPlans(w, u)
           Cited(cite) == {[unit |-> u, rule |-> cite[u], kind |-> "computed"] : u \in wrong}
<1>1. PICK shared \in SharedPlans(w) : plans = shared \cup UNION {Rest(u) : u \in Units}
  BY DEF PlanCalls
<1>2. PICK cite \in [wrong -> Rules] :
        (\A u \in wrong : cite[u] \in Live(w, u)) /\ shared = Cited(cite)
  BY <1>1 DEF SharedPlans
<1>3. ASSUME NEW p \in shared PROVE p \in Plans /\ p.rule \in Live(w, p.unit)
  <2>1. PICK u \in wrong : p = [unit |-> u, rule |-> cite[u], kind |-> "computed"]
    BY <1>2, <1>3
  <2> QED
    BY <1>2, <2>1 DEF Plans, Kinds
<1>4. ASSUME NEW u \in Units, NEW p \in Rest(u) PROVE p \in Plans /\ p.rule \in Live(w, p.unit)
  <2>1. PICK r \in Live(w, u), k \in Kinds : p = [unit |-> u, rule |-> r, kind |-> k]
    BY <1>4 DEF AbsencePlans, BandPlans, TextPlans, Kinds
  <2>2. r \in Rules
    BY DEF Live
  <2> QED
    BY <2>1, <2>2 DEF Plans
<1>5. ASSUME NEW u \in wrong PROVE \E p \in plans : p.unit = u /\ p.kind = "computed"
  <2>1. [unit |-> u, rule |-> cite[u], kind |-> "computed"] \in plans
    BY <1>1, <1>2
  <2> QED
    BY <2>1
<1>6. \A p \in plans : p \in shared \/ \E u \in Units : p \in Rest(u)
  BY <1>1
<1> HIDE DEF Rest
<1> QED
  BY <1>3, <1>4, <1>5, <1>6

-----------------------------------------------------------------------------
(* The steps                                                               *)

\* What a step may add to the lists without losing a plan's trace.
LEMMA TakenKept ==
  ASSUME NEW p \in planned, PlanTaken(p), planned' = planned,
         findings \subseteq findings', reattributed \subseteq reattributed',
         notJudged \subseteq notJudged',
         p \in todo => p \in todo' \/ (\E q \in pending' : q.plan = p) \/ p \in notJudged'
                       \/ (p.kind \in Decided => Found(p)'),
         \A q \in pending : q \in pending' \/ (q.plan = p /\ p.kind \in Decided => Found(p)')
  PROVE  PlanTaken(p)'
<1>1. Found(p) => Found(p)'
  BY DEF Found
<1> QED
  BY <1>1 DEF PlanTaken

LEMMA PlanInv == Inv /\ Plan => Inv'
<1> SUFFICES ASSUME Inv, Plan PROVE Inv'
  OBVIOUS
<1>1. /\ planned' \in PlanCalls(world) /\ todo' = planned' /\ stage' = "judge"
      /\ UNCHANGED <<world, pending, notJudged, reattributed, findings>>
  BY DEF Plan, lists
<1>2. pending = {} /\ planned = {} /\ notJudged' = notJudged
  BY <1>1 DEF Inv, PlansFit, Plan
<1>2a. notJudged = {}
  BY DEF Inv, PlansFit, Plan
<1>3. PlansFit'
  <2>1. /\ planned' \subseteq Plans
        /\ \A p \in planned' : p.rule \in Live(world, p.unit)
        /\ \A u \in Units : world.shared[u] = "disagree" /\ Live(world, u) # {} =>
             \E p \in planned' : p.unit = u /\ p.kind = "computed"
    BY <1>1, PlannedLive
  <2> QED
    BY <1>1, <2>1 DEF PlansFit, Live
<1>4. \A p \in planned' : PlanTaken(p)'
  BY <1>1 DEF PlanTaken
<1> QED
  BY <1>1, <1>2, <1>2a, <1>3, <1>4 DEF Inv, SuspendedStaysSilent, AmendedOrSaid, Closed

\* A step of the loop leaves the plan and its world alone.
LEMMA LoopFrame ==
  ASSUME Inv, stage = "judge", UNCHANGED <<world, stage, planned>>, todo' \subseteq todo,
         notJudged \subseteq notJudged', findings \subseteq findings',
         reattributed \subseteq reattributed'
  PROVE  /\ world' \in Worlds /\ stage' \in {"plan", "judge"} \cup Closed
         /\ PlansFit'
         /\ stage' \notin Closed /\ stage' # "done"
         /\ \A q : QuestionFits(q) => QuestionFits(q)'
         /\ \A p : JudgingRules(p)' = JudgingRules(p)
  BY DEF Inv, PlansFit, Live, QuestionFits, JudgingRules, Candidates, Closed

\* A finding under a rule that may judge the plan is silent where it must be.
LEMMA FindingSilent ==
  ASSUME Inv, NEW p \in planned, NEW r \in JudgingRules(p), NEW a
  PROVE  /\ Finding(p, r, a).kind = p.kind /\ Finding(p, r, a).unit = p.unit
         /\ Finding(p, r, a).rule = r
         /\ <<p.unit, r>> \notin world.suspended
  BY JudgeNotSuspended DEF Finding, Inv, PlansFit

LEMMA SetAsideInv == ASSUME Inv, NEW p \in Plans, SetAside(p) PROVE Inv'
<1>1. /\ stage = "judge" /\ p \in todo /\ todo' = todo \ {p} /\ notJudged' = notJudged \cup {p}
      /\ UNCHANGED <<world, stage, planned, pending, reattributed, findings>>
      /\ \A r \in JudgingRules(p) : world.agent[r] = NoAgent
  BY DEF SetAside, Takes
<1>2. \A e \in planned : PlanTaken(e)'
  <2> SUFFICES ASSUME NEW e \in planned PROVE PlanTaken(e)'
    OBVIOUS
  <2>1. PlanTaken(e)
    BY DEF Inv
  <2> QED
    BY <1>1, <2>1, TakenKept
<1>3. /\ \A e : JudgingRules(e)' = JudgingRules(e)
      /\ \A q : QuestionFits(q) => QuestionFits(q)'
      /\ PlansFit' /\ world' \in Worlds /\ stage' = "judge"
  BY <1>1, LoopFrame
<1>4. \A e \in planned' \cap notJudged' : \A r \in JudgingRules(e)' : world'.agent[r] = NoAgent
  <2> SUFFICES ASSUME NEW e \in planned' \cap notJudged', NEW r \in JudgingRules(e)'
               PROVE  world'.agent[r] = NoAgent
    OBVIOUS
  <2>1. r \in JudgingRules(e)
    BY <1>3
  <2> QED
    BY <1>1, <2>1 DEF Inv
<1>5. \A q \in pending' : QuestionFits(q)'
  BY <1>1, <1>3 DEF Inv
<1>6. SuspendedStaysSilent' /\ AmendedOrSaid'
  BY <1>1, <1>3 DEF Inv, SuspendedStaysSilent, AmendedOrSaid
<1> QED
  BY <1>1, <1>2, <1>3, <1>4, <1>5, <1>6 DEF Inv, Closed

LEMMA FoundInv ==
  ASSUME Inv, NEW p \in Plans, ComputeAbsence(p) \/ RenderExact(p)
  PROVE  Inv'
<1>0. /\ stage = "judge" /\ p \in todo /\ p \in planned /\ todo' = todo \ {p}
      /\ UNCHANGED <<world, stage, planned, pending, notJudged>>
  BY DEF ComputeAbsence, RenderExact, Takes, Inv, PlansFit
<1>1. PICK r \in JudgingRules(p) :
        /\ findings' = findings \cup {Finding(p, r, world.agent[r])}
        /\ reattributed \subseteq reattributed'
        /\ r = p.rule \/ <<p, r>> \in reattributed'
  <2>1. CASE ComputeAbsence(p)
    <3>1. p.rule \in JudgingRules(p)
      BY <2>1 DEF JudgingRules, ComputeAbsence
    <3> QED
      BY <2>1, <3>1 DEF ComputeAbsence
  <2>2. CASE RenderExact(p)
    <3>1. PICK r \in JudgingRules(p) :
            findings' = findings \cup {Finding(p, r, world.agent[r])} /\ Moved(p, r)
      BY <2>2 DEF RenderExact
    <3> QED
      BY <3>1 DEF Moved
  <2> QED
    BY <2>1, <2>2
<1> DEFINE f == Finding(p, r, world.agent[r])
<1>2. /\ f.kind = p.kind /\ f.unit = p.unit /\ f.rule = r
      /\ <<p.unit, r>> \notin world.suspended
  BY <1>0, <1>1, FindingSilent
<1> HIDE DEF f
<1>3. /\ \A e : JudgingRules(e)' = JudgingRules(e)
      /\ \A q : QuestionFits(q) => QuestionFits(q)'
      /\ PlansFit' /\ world' \in Worlds /\ stage' = "judge"
  BY <1>0, <1>1, LoopFrame
<1>4. \A e \in planned : PlanTaken(e)'
  <2> SUFFICES ASSUME NEW e \in planned PROVE PlanTaken(e)'
    OBVIOUS
  <2>1. PlanTaken(e)
    BY DEF Inv
  <2>2. f \in findings'
    BY <1>1 DEF f
  <2>3. Found(p)'
    BY <1>1, <1>2, <2>2 DEF Found
  <2> QED
    BY <1>0, <1>1, <2>1, <2>3, TakenKept
<1>5. SuspendedStaysSilent' /\ AmendedOrSaid'
  <2>1. \A g \in findings' : g \in findings \/ g = f
    BY <1>1 DEF f
  <2> QED
    BY <1>0, <1>2, <1>3, <2>1 DEF Inv, SuspendedStaysSilent, AmendedOrSaid
<1>6. \A e \in planned' \cap notJudged' : \A x \in JudgingRules(e)' : world'.agent[x] = NoAgent
  <2> SUFFICES ASSUME NEW e \in planned' \cap notJudged', NEW x \in JudgingRules(e)'
               PROVE  world'.agent[x] = NoAgent
    OBVIOUS
  <2>1. x \in JudgingRules(e)
    BY <1>3
  <2> QED
    BY <1>0, <2>1 DEF Inv
<1> QED
  BY <1>0, <1>3, <1>4, <1>5, <1>6 DEF Inv, Closed

LEMMA AskInv == ASSUME Inv, NEW p \in Plans, Ask(p) PROVE Inv'
<1>0. /\ stage = "judge" /\ p \in todo /\ p \in planned /\ todo' = todo \ {p}
      /\ p.kind # "absence_computed"
      /\ UNCHANGED <<world, stage, planned, notJudged, findings>>
  BY DEF Ask, Takes, Inv, PlansFit
<1>1. PICK r \in JudgingRules(p) :
        pending' = pending \cup {Question(p, r, world.agent[r])} /\ Moved(p, r)
  BY DEF Ask
<1>2. reattributed \subseteq reattributed' /\ (r = p.rule \/ <<p, r>> \in reattributed')
  BY <1>1 DEF Moved
<1>3. PICK new : new = Question(p, r, world.agent[r]) /\ new.plan = p /\ new.rule = r
  <2>1. /\ Question(p, r, world.agent[r]).plan = p
        /\ Question(p, r, world.agent[r]).rule = r
    BY DEF Question
  <2>2. \E x : x = Question(p, r, world.agent[r])
    OBVIOUS
  <2> QED
    BY <2>1, <2>2
<1>4. \A q \in pending' : q \in pending \/ q = new
  BY <1>1, <1>3
<1>4a. new \in pending'
  BY <1>1, <1>3
<1>5. /\ \A e : JudgingRules(e)' = JudgingRules(e)
      /\ \A q : QuestionFits(q) => QuestionFits(q)'
      /\ PlansFit' /\ world' \in Worlds /\ stage' = "judge"
  BY <1>0, <1>2, LoopFrame
<1>6. \A e \in planned : PlanTaken(e)'
  <2> SUFFICES ASSUME NEW e \in planned PROVE PlanTaken(e)'
    OBVIOUS
  <2>1. PlanTaken(e)
    BY DEF Inv
  <2> QED
    BY <1>0, <1>1, <1>2, <1>3, <1>4a, <2>1, TakenKept
<1>7. \A q \in pending' : QuestionFits(q)'
  <2>1. QuestionFits(new)'
    BY <1>0, <1>1, <1>2, <1>3, <1>5 DEF QuestionFits
  <2> QED
    BY <1>4, <1>5, <2>1 DEF Inv
<1>8. SuspendedStaysSilent' /\ AmendedOrSaid'
  <2>1. <<new.plan.unit, new.rule>> \notin world.suspended
    BY <1>0, <1>1, <1>3, FindingSilent
  <2> QED
    BY <1>0, <1>4, <1>5, <2>1 DEF Inv, SuspendedStaysSilent, AmendedOrSaid
<1>9. \A e \in planned' \cap notJudged' : \A x \in JudgingRules(e)' : world'.agent[x] = NoAgent
  <2> SUFFICES ASSUME NEW e \in planned' \cap notJudged', NEW x \in JudgingRules(e)'
               PROVE  world'.agent[x] = NoAgent
    OBVIOUS
  <2>1. x \in JudgingRules(e)
    BY <1>5
  <2> QED
    BY <1>0, <2>1 DEF Inv
<1> QED
  BY <1>0, <1>5, <1>6, <1>7, <1>8, <1>9 DEF Inv, Closed

LEMMA ConsumeInv ==
  ASSUME Inv, NEW q \in pending, ConsumeOpinion(q) \/ ConsumeJudgment(q)
  PROVE  Inv'
<1> DEFINE p == q.plan
           f == Finding(p, q.rule, q.agent)
<1>0. /\ stage = "judge" /\ pending' = pending \ {q}
      /\ UNCHANGED <<world, stage, planned, todo, notJudged, reattributed>>
      /\ \/ p.kind \in {"computed", "band"} /\ findings' = findings \cup {f}
         \/ p.kind \notin {"computed", "band"} /\ findings' = findings
  BY DEF ConsumeOpinion, ConsumeJudgment
<1>1. /\ p \in planned /\ p.kind # "absence_computed" /\ q.rule \in JudgingRules(p)
      /\ q.rule = p.rule \/ <<p, q.rule>> \in reattributed
  BY DEF Inv, QuestionFits
<1>2. /\ f.kind = p.kind /\ f.unit = p.unit /\ f.rule = q.rule
      /\ <<p.unit, q.rule>> \notin world.suspended
  BY <1>1, FindingSilent
<1>2a. findings \subseteq findings' /\ \A g \in findings' : g \in findings \/ g = f
  BY <1>0
<1>2b. p.kind \in {"computed", "band"} => f \in findings'
  BY <1>0
<1> HIDE DEF f
<1>3. /\ \A e : JudgingRules(e)' = JudgingRules(e)
      /\ \A x : QuestionFits(x) => QuestionFits(x)'
      /\ PlansFit' /\ world' \in Worlds /\ stage' = "judge"
  BY <1>0, <1>2a, LoopFrame
<1>4. \A e \in planned : PlanTaken(e)'
  <2> SUFFICES ASSUME NEW e \in planned PROVE PlanTaken(e)'
    OBVIOUS
  <2>1. PlanTaken(e)
    BY DEF Inv
  <2>2. p.kind \in Decided => Found(p)'
    BY <1>0, <1>1, <1>2, <1>2b DEF Found, Decided
  <2>3. \A x \in pending : x \in pending' \/ x = q
    BY <1>0
  <2>4. CASE \E x \in pending : x.plan = e
    <3>1. PICK x \in pending : x.plan = e
      BY <2>4
    <3> QED
      BY <2>2, <2>3, <3>1 DEF PlanTaken
  <2>5. CASE ~\E x \in pending : x.plan = e
    <3>1. Found(e) => Found(e)'
      BY <1>0, <1>2a DEF Found
    <3> QED
      BY <1>0, <2>1, <2>5, <3>1 DEF PlanTaken
  <2> QED
    BY <2>4, <2>5
<1>5. SuspendedStaysSilent' /\ AmendedOrSaid'
  BY <1>0, <1>2, <1>2a, <1>3 DEF Inv, SuspendedStaysSilent, AmendedOrSaid
<1>6. \A x \in pending' : QuestionFits(x)'
  BY <1>0, <1>3 DEF Inv
<1>7. \A e \in planned' \cap notJudged' : \A x \in JudgingRules(e)' : world'.agent[x] = NoAgent
  <2> SUFFICES ASSUME NEW e \in planned' \cap notJudged', NEW x \in JudgingRules(e)'
               PROVE  world'.agent[x] = NoAgent
    OBVIOUS
  <2>1. x \in JudgingRules(e)
    BY <1>3
  <2> QED
    BY <1>0, <2>1 DEF Inv
<1> QED
  BY <1>0, <1>3, <1>4, <1>5, <1>6, <1>7 DEF Inv, Closed

LEMMA CloseInv == Inv /\ (MissingUnits \/ Post \/ Promote) => Inv'
<1> SUFFICES ASSUME Inv, MissingUnits \/ Post \/ Promote PROVE Inv'
  OBVIOUS
<1>1. UNCHANGED <<world, planned, todo, pending, reattributed>>
  BY DEF MissingUnits, Post, Promote, lists
<1>2. /\ stage' \in Closed /\ stage # "plan" /\ todo = {} /\ pending = {}
      /\ findings \subseteq findings' /\ notJudged \subseteq notJudged'
      /\ \A f \in findings' : f \in findings \/ f.kind = "missing_field"
      /\ \A e \in notJudged' : e \in notJudged \/ e.kind = "missing_field"
  <2>1. CASE MissingUnits
    BY <2>1 DEF MissingUnits, Closed, Finding
  <2>2. CASE Post \/ Promote
    BY <2>2 DEF Post, Promote, Closed, lists, Inv
  <2> QED
    BY <2>1, <2>2
<1>3. PlansFit'
  BY <1>1, <1>2 DEF Inv, PlansFit, Live, Closed
<1>4. \A e \in planned : PlanTaken(e)'
  <2> SUFFICES ASSUME NEW e \in planned PROVE PlanTaken(e)'
    OBVIOUS
  <2>1. PlanTaken(e)
    BY DEF Inv
  <2> QED
    BY <1>1, <1>2, <2>1, TakenKept
<1>5. \A e \in planned' \cap notJudged' : \A x \in JudgingRules(e)' : world'.agent[x] = NoAgent
  <2> SUFFICES ASSUME NEW e \in planned' \cap notJudged', NEW x \in JudgingRules(e)'
               PROVE  world'.agent[x] = NoAgent
    OBVIOUS
  <2>1. e \in planned /\ e.kind \in Kinds
    BY <1>1 DEF Inv, PlansFit, Plans
  <2>2. e \in notJudged
    BY <1>2, <2>1 DEF Kinds
  <2>3. x \in JudgingRules(e)
    BY <1>1 DEF JudgingRules, Candidates
  <2> QED
    BY <1>1, <2>1, <2>2, <2>3 DEF Inv
<1>6. SuspendedStaysSilent'
  BY <1>1, <1>2 DEF Inv, SuspendedStaysSilent
<1>7. AmendedOrSaid'
  <2>1. CASE Promote
    BY <2>1 DEF Promote, AmendedOrSaid
  <2>2. CASE MissingUnits \/ Post
    BY <2>2 DEF MissingUnits, Post, AmendedOrSaid
  <2> QED
    BY <2>1, <2>2
<1> QED
  BY <1>1, <1>2, <1>3, <1>4, <1>5, <1>6, <1>7 DEF Inv

LEMMA InvAlways == Spec => []Inv
<1>1. Init => Inv
  BY DEF Init, Inv, PlansFit, SuspendedStaysSilent, AmendedOrSaid, Closed
<1>2. Inv /\ [Next]_vars => Inv'
  <2> SUFFICES ASSUME Inv, [Next]_vars PROVE Inv'
    OBVIOUS
  <2>1. CASE UNCHANGED vars
    <3>1. UNCHANGED <<world, stage, planned, todo, pending, notJudged, reattributed, findings,
                      amendments, refusals>>
      BY <2>1 DEF vars, lists, outputs
    <3>2. \A p : JudgingRules(p)' = JudgingRules(p) /\ (PlanTaken(p) => PlanTaken(p)')
      BY <3>1 DEF JudgingRules, Candidates, PlanTaken, Found
    <3>3. \A q : QuestionFits(q) => QuestionFits(q)'
      BY <3>1 DEF QuestionFits, JudgingRules, Candidates
    <3>4. PlansFit' /\ SuspendedStaysSilent' /\ AmendedOrSaid'
      BY <3>1 DEF Inv, PlansFit, Live, SuspendedStaysSilent, AmendedOrSaid
    <3>5. \A p \in planned' \cap notJudged' : \A r \in JudgingRules(p)' : world'.agent[r] = NoAgent
      <4> SUFFICES ASSUME NEW p \in planned' \cap notJudged', NEW r \in JudgingRules(p)'
                   PROVE  world'.agent[r] = NoAgent
        OBVIOUS
      <4>1. r \in JudgingRules(p)
        BY <3>2
      <4> QED
        BY <3>1, <4>1 DEF Inv
    <3> QED
      BY <3>1, <3>2, <3>3, <3>4, <3>5 DEF Inv
  <2> QED
    BY <2>1, PlanInv, SetAsideInv, FoundInv, AskInv, ConsumeInv, CloseInv DEF Next
<1> QED
  BY <1>1, <1>2, PTL DEF Spec

-----------------------------------------------------------------------------
\* A rule suspended on a unit says nothing of it, whatever moves between rules.
THEOREM SuspendedStaysSilentHolds == Spec => []SuspendedStaysSilent
<1>1. Inv => SuspendedStaysSilent
  BY DEF Inv
<1> QED
  BY <1>1, InvAlways, PTL

\* Every finding of Python's becomes an amendment or a refusal on record, and
\* nothing else does.
THEOREM AmendedOrSaidHolds == Spec => []AmendedOrSaid
<1>1. Inv => AmendedOrSaid
  BY DEF Inv
<1> QED
  BY <1>1, InvAlways, PTL

\* A computed disagreement is a finding of its unit, unless no rule in force there
\* can be judged by an agent.
THEOREM NoDisagreementLostHolds == Spec => []NoDisagreementLost
<1>1. Inv => NoDisagreementLost
  <2> SUFFICES ASSUME Inv, stage = "done" PROVE
        /\ \A p \in planned : p.kind \in Decided => Found(p) \/ p \in notJudged
        /\ \A u \in Units :
             (/\ world.shared[u] = "disagree"
              /\ \E r \in Live(world, u) : world.agent[r] # NoAgent /\ r \notin world.unless)
             => \E f \in findings : f.unit = u /\ f.kind = "computed"
    BY DEF NoDisagreementLost, Found, Decided
  <2>1. todo = {} /\ pending = {}
    BY DEF Inv, Closed
  <2>2. ASSUME NEW p \in planned, p.kind \in Decided PROVE Found(p) \/ p \in notJudged
    BY <2>1, <2>2 DEF Inv, PlanTaken
  <2>3. ASSUME NEW u \in Units, world.shared[u] = "disagree",
               NEW r \in Live(world, u), world.agent[r] # NoAgent, r \notin world.unless
        PROVE  \E f \in findings : f.unit = u /\ f.kind = "computed"
    <3>1. PICK p \in planned : p.unit = u /\ p.kind = "computed"
      BY <2>3 DEF Inv, PlansFit
    <3>2. r \in Rules /\ <<u, r>> \in world.paired
      BY WorldsAssumption DEF Live, Inv
    <3>3. \E x \in JudgingRules(p) : world.agent[x] # NoAgent
      <4>1. CASE world.agent[p.rule] # NoAgent
        BY <4>1 DEF JudgingRules
      <4>2. CASE world.agent[p.rule] = NoAgent
        <5>1. r \in Candidates(p)
          BY <2>3, <3>1, <3>2, <4>2 DEF Candidates
        <5> QED
          BY <2>3, <3>1, <4>2, <5>1 DEF JudgingRules
      <4> QED
        BY <4>1, <4>2
    <3>4. p \notin notJudged
      BY <3>3 DEF Inv
    <3>5. Found(p)
      BY <2>2, <3>1, <3>4 DEF Decided
    <3> QED
      BY <3>1, <3>5 DEF Found
  <2> QED
    BY <2>2, <2>3
<1> QED
  BY <1>1, InvAlways, PTL

-----------------------------------------------------------------------------
(* The accounting of plans                                                 *)

\* A plan has one question at most: it left todo when it was asked.
Accounted ==
  /\ EachPlanAccounted
  /\ \A q, x \in pending : q.plan = x.plan => q = x

\* What each place of the fates holds, one by one, before and after a step.
LEMMA FatesAre ==
  /\ Fates[1] = todo /\ Fates[2] = {q.plan : q \in pending} /\ Fates[3] = called
  /\ Fates[4] = notJudged \cap Plans
  /\ Fates[5] = {p \in absence : p.kind = "absence_computed"}
  /\ Fates[6] = rendered
  /\ Fates[1]' = todo' /\ Fates[2]' = {q.plan : q \in pending'} /\ Fates[3]' = called'
  /\ Fates[4]' = notJudged' \cap Plans
  /\ Fates[5]' = {p \in absence' : p.kind = "absence_computed"}
  /\ Fates[6]' = rendered'
  BY DEF Fates

\* Moving one element from a place to another of disjoint sets keeps them disjoint,
\* and their union.
LEMMA MoveKeeps ==
  ASSUME NEW D, NEW f, NEW g, NEW i \in D, NEW j \in D, i # j, NEW p,
         \A k, l \in D : k # l => f[k] \cap f[l] = {},
         p \in f[i], g[i] = f[i] \ {p}, g[j] = f[j] \cup {p},
         \A k \in D \ {i, j} : g[k] = f[k]
  PROVE  /\ \A k, l \in D : k # l => g[k] \cap g[l] = {}
         /\ UNION {g[k] : k \in D} = UNION {f[k] : k \in D}
<1>1. ASSUME NEW k \in D, NEW l \in D, k # l PROVE g[k] \cap g[l] = {}
  <2>1. \A m \in D : \A e \in g[m] : e \in f[m] \/ (m = j /\ e = p)
    OBVIOUS
  <2>2. \A m \in D : p \in g[m] => m = j
    <3> SUFFICES ASSUME NEW m \in D, p \in g[m] PROVE m = j
      OBVIOUS
    <3>1. m # i
      OBVIOUS
    <3>2. m # j => p \in f[m]
      BY <2>1
    <3> QED
      BY <3>1, <3>2
  <2> QED
    BY <1>1, <2>1, <2>2
<1>2. \A e : (\E k \in D : e \in g[k]) <=> (\E k \in D : e \in f[k])
  <2> SUFFICES ASSUME NEW e PROVE (\E k \in D : e \in g[k]) <=> (\E k \in D : e \in f[k])
    OBVIOUS
  <2>1. CASE e = p
    BY <2>1
  <2>2. CASE e # p
    <3>1. \A k \in D : e \in g[k] <=> e \in f[k]
      BY <2>2
    <3> QED
      BY <3>1
  <2> QED
    BY <2>1, <2>2
<1> QED
  BY <1>1, <1>2

\* Taking a plan moves it to the place the action gives it.
LEMMA TakeAccounts ==
  ASSUME Inv, Accounted, NEW p \in Plans,
         SetAside(p) \/ ComputeAbsence(p) \/ RenderExact(p) \/ Ask(p)
  PROVE  Accounted'
<1>1. /\ stage = "judge" /\ p \in todo /\ todo' = todo \ {p} /\ p \in Fates[1]
      /\ UNCHANGED <<world, stage, planned>>
  BY FatesAre DEF SetAside, ComputeAbsence, RenderExact, Ask, Takes
<1>2. Fates[1]' = Fates[1] \ {p} /\ \A k \in 2..6 : Fates[1] \cap Fates[k] = {}
  BY <1>1, FatesAre DEF Accounted, EachPlanAccounted
<1>3. PICK j \in 2..6 : Fates[j]' = Fates[j] \cup {p} /\ \A k \in 2..6 \ {j} : Fates[k]' = Fates[k]
  <2>1. CASE SetAside(p)
    <3>1. Fates[4]' = Fates[4] \cup {p} /\ \A k \in {2, 3, 5, 6} : Fates[k]' = Fates[k]
      BY <2>1, FatesAre DEF SetAside
    <3> QED
      BY <3>1
  <2>2. CASE ComputeAbsence(p)
    <3>1. Fates[5]' = Fates[5] \cup {p} /\ \A k \in {2, 3, 4, 6} : Fates[k]' = Fates[k]
      BY <2>2, FatesAre DEF ComputeAbsence
    <3> QED
      BY <3>1
  <2>3. CASE RenderExact(p)
    <3>1. Fates[6]' = Fates[6] \cup {p} /\ \A k \in {2, 3, 4, 5} : Fates[k]' = Fates[k]
      BY <2>3, FatesAre DEF RenderExact
    <3> QED
      BY <3>1
  <2>4. CASE Ask(p)
    <3>1. PICK r : pending' = pending \cup {Question(p, r, world.agent[r])}
      BY <2>4 DEF Ask
    <3>2. {q.plan : q \in pending'} = {q.plan : q \in pending} \cup {p}
      <4>1. PICK new : pending' = pending \cup {new} /\ new.plan = p
        <5>1. Question(p, r, world.agent[r]).plan = p
          BY DEF Question
        <5>2. \E new : new = Question(p, r, world.agent[r])
          OBVIOUS
        <5> QED
          BY <3>1, <5>1, <5>2
      <4> QED
        BY <4>1
    <3>3. Fates[2]' = Fates[2] \cup {p} /\ \A k \in {3, 4, 5, 6} : Fates[k]' = Fates[k]
      BY <2>4, <3>2, FatesAre DEF Ask
    <3> QED
      BY <3>3
  <2> QED
    BY <2>1, <2>2, <2>3, <2>4
<1>4. /\ \A k, l \in 1..6 : k # l => Fates[k]' \cap Fates[l]' = {}
      /\ UNION {Fates[k]' : k \in 1..6} = planned'
  <2> DEFINE f == Fates
             g == Fates'
  <2>1. /\ 1 \in 1..6 /\ j \in 1..6 /\ 1 # j
        /\ \A k, l \in 1..6 : k # l => f[k] \cap f[l] = {}
        /\ p \in f[1] /\ g[1] = f[1] \ {p} /\ g[j] = f[j] \cup {p}
        /\ planned = UNION {f[k] : k \in 1..6}
    BY <1>1, <1>2, <1>3 DEF Accounted, EachPlanAccounted
  <2>2. \A k \in (1..6) \ {1, j} : g[k] = f[k]
    BY <1>3
  <2> HIDE DEF f, g
  <2>3. /\ \A k, l \in 1..6 : k # l => g[k] \cap g[l] = {}
        /\ UNION {g[k] : k \in 1..6} = UNION {f[k] : k \in 1..6}
    BY <2>1, <2>2, MoveKeeps
  <2> QED
    BY <1>1, <2>1, <2>3 DEF f, g
<1>5. \A e \in absence' : e.kind = "absence_computed" \/ e \in called'
  <2>1. /\ called' = called
        /\ \/ absence' = absence
           \/ absence' = absence \cup {p} /\ p.kind = "absence_computed"
    BY DEF SetAside, ComputeAbsence, RenderExact, Ask
  <2> QED
    BY <2>1 DEF Accounted, EachPlanAccounted
<1>6. \A q, x \in pending' : q.plan = x.plan => q = x
  <2>1. CASE pending' = pending
    BY <2>1 DEF Accounted
  <2>2. CASE Ask(p)
    <3>1. PICK r : pending' = pending \cup {Question(p, r, world.agent[r])}
      BY <2>2 DEF Ask
    <3>2. \A q \in pending : q.plan # p
      <4>1. Fates[1] \cap Fates[2] = {}
        BY <1>2
      <4> QED
        BY <1>1, <4>1, FatesAre
    <3>3. Question(p, r, world.agent[r]).plan = p
      BY DEF Question
    <3> QED
      BY <3>1, <3>2, <3>3 DEF Accounted
  <2> QED
    BY <2>1, <2>2 DEF SetAside, ComputeAbsence, RenderExact
<1> QED
  BY <1>1, <1>4, <1>5, <1>6 DEF Accounted, EachPlanAccounted

\* An answer moves its plan from the questions to the calls.
LEMMA ConsumeAccounts ==
  ASSUME Inv, Accounted, NEW q \in pending, ConsumeOpinion(q) \/ ConsumeJudgment(q)
  PROVE  Accounted'
<1> DEFINE p == q.plan
<1>1. /\ stage = "judge" /\ pending' = pending \ {q} /\ called' = called \cup {p}
      /\ UNCHANGED <<world, stage, planned, todo, notJudged, rendered>>
      /\ \/ absence' = absence
         \/ p.kind = "absence_judged" /\ absence' = absence \cup {p}
  BY DEF ConsumeOpinion, ConsumeJudgment
<1>2. {x.plan : x \in pending'} = {x.plan : x \in pending} \ {p}
  BY <1>1 DEF Accounted
<1>3. /\ p \in Fates[2] /\ Fates[2]' = Fates[2] \ {p} /\ Fates[3]' = Fates[3] \cup {p}
      /\ \A k \in {1, 4, 5, 6} : Fates[k]' = Fates[k]
  BY <1>1, <1>2, FatesAre
<1>4. /\ \A k, l \in 1..6 : k # l => Fates[k]' \cap Fates[l]' = {}
      /\ UNION {Fates[k]' : k \in 1..6} = planned'
  <2> DEFINE f == Fates
             g == Fates'
  <2>1. /\ 2 \in 1..6 /\ 3 \in 1..6 /\ 2 # 3
        /\ \A k, l \in 1..6 : k # l => f[k] \cap f[l] = {}
        /\ p \in f[2] /\ g[2] = f[2] \ {p} /\ g[3] = f[3] \cup {p}
        /\ planned = UNION {f[k] : k \in 1..6}
    BY <1>3 DEF Accounted, EachPlanAccounted
  <2>2. \A k \in (1..6) \ {2, 3} : g[k] = f[k]
    <3>1. \A k \in (1..6) \ {2, 3} : k \in {1, 4, 5, 6}
      OBVIOUS
    <3> QED
      BY <1>3, <3>1
  <2> HIDE DEF f, g, p
  <2>3. /\ \A k, l \in 1..6 : k # l => g[k] \cap g[l] = {}
        /\ UNION {g[k] : k \in 1..6} = UNION {f[k] : k \in 1..6}
    BY <2>1, <2>2, MoveKeeps
  <2> QED
    BY <1>1, <2>1, <2>3 DEF f, g
<1>5. \A e \in absence' : e.kind = "absence_computed" \/ e \in called'
  BY <1>1 DEF Accounted, EachPlanAccounted
<1>6. \A y, x \in pending' : y.plan = x.plan => y = x
  BY <1>1 DEF Accounted
<1> QED
  BY <1>1, <1>4, <1>5, <1>6 DEF Accounted, EachPlanAccounted

\* Closing the loop moves no plan: the units matched to nothing are no plans.
LEMMA CloseAccounts ==
  ASSUME Inv, Accounted, MissingUnits \/ Post \/ Promote
  PROVE  Accounted'
<1>1. /\ UNCHANGED <<planned, todo, pending, called, absence, rendered>>
      /\ todo = {} /\ pending = {}
  BY DEF MissingUnits, Post, Promote, lists, Inv, Closed
<1>2. notJudged' \cap Plans = notJudged \cap Plans
  <2>1. notJudged \subseteq notJudged'
        /\ \A e \in notJudged' : e \in notJudged \/ e.kind = "missing_field"
    BY DEF MissingUnits, Post, Promote, lists
  <2>2. \A e \in Plans : e.kind # "missing_field"
    BY DEF Plans, Kinds
  <2> QED
    BY <2>1, <2>2
<1>3. Fates' = Fates
  BY <1>1, <1>2 DEF Fates
<1> QED
  BY <1>1, <1>3 DEF Accounted, EachPlanAccounted

LEMMA AccountedAlways == Spec => []Accounted
<1>1. Init => Accounted
  <2> SUFFICES ASSUME Init PROVE Accounted
    OBVIOUS
  <2>1. planned = {} /\ pending = {} /\ absence = {} /\ todo = {} /\ \A i \in 1..6 : Fates[i] = {}
    BY FatesAre DEF Init
  <2> QED
    BY <2>1 DEF Accounted, EachPlanAccounted
<1>2. Inv /\ Accounted /\ [Next]_vars => Accounted'
  <2> SUFFICES ASSUME Inv, Accounted, [Next]_vars PROVE Accounted'
    OBVIOUS
  <2>1. CASE Plan
    <3>1. /\ planned = {} /\ pending = {} /\ todo' = planned' /\ stage' = "judge"
          /\ planned' \subseteq Plans
          /\ UNCHANGED <<pending, called, absence, rendered, notJudged>>
      BY <2>1, PlannedLive DEF Plan, lists, Inv, PlansFit
    <3>2. \A i \in 1..6 : Fates[i] = {}
      BY <3>1 DEF Accounted, EachPlanAccounted
    <3>3. Fates[1]' = planned' /\ \A i \in 2..6 : Fates[i]' = {}
      <4>1. \A i \in {2, 3, 4, 5, 6} : Fates[i]' = Fates[i]
        BY <3>1, FatesAre
      <4> QED
        BY <3>1, <3>2, <4>1, FatesAre
    <3>4. \A e \in absence : e.kind = "absence_computed" \/ e \in called
      BY DEF Accounted, EachPlanAccounted
    <3> QED
      BY <3>1, <3>3, <3>4 DEF Accounted, EachPlanAccounted
  <2>2. CASE UNCHANGED vars
    <3>1. Fates' = Fates /\ UNCHANGED <<planned, absence, called, stage, todo, pending>>
      BY <2>2 DEF vars, lists, Fates
    <3> QED
      BY <3>1 DEF Accounted, EachPlanAccounted
  <2> QED
    BY <2>1, <2>2, TakeAccounts, ConsumeAccounts, CloseAccounts DEF Next
<1> QED
  BY <1>1, <1>2, InvAlways, PTL DEF Spec

\* No plan is dropped silently, and none is dealt with twice: at every moment each has
\* exactly one fate, and none is left waiting when the loop is over.
THEOREM EachPlanAccountedHolds == Spec => []EachPlanAccounted
<1>1. Accounted => EachPlanAccounted
  BY DEF Accounted
<1> QED
  BY <1>1, AccountedAlways, PTL

-----------------------------------------------------------------------------
(* Type correctness                                                        *)

\* A rule that may judge is a rule, and its agent is one unless there is none.
LEMMA JudgeType ==
  ASSUME TypeOK, NEW p \in Plans, NEW r \in JudgingRules(p)
  PROVE  /\ r \in Rules
         /\ world.agent[r] # NoAgent => world.agent[r] \in Agents
<1>1. r \in Rules
  BY DEF JudgingRules, Candidates, Plans
<1> QED
  BY <1>1 DEF TypeOK, WorldType

LEMMA FindingType ==
  ASSUME NEW p \in Answers, NEW r \in Rules, NEW a \in Agents
  PROVE  Finding(p, r, a) \in Findings
  BY DEF Finding, Findings, Answers, Plans

LEMMA TypeStep ==
  ASSUME TypeOK, Inv, Accounted, [Next]_vars
  PROVE  TypeOK'
<1> USE DEF TypeOK
<1>0. Plans \subseteq Answers
  BY DEF Answers
<1>1. CASE Plan
  <2>1. /\ planned = {} /\ pending = {} /\ planned' \subseteq Plans /\ todo' = planned'
        /\ called = {} /\ absence = {} /\ rendered = {} /\ stage' = "judge"
    <3>1. planned = {} /\ pending = {} /\ planned' \subseteq Plans /\ todo' = planned' /\ stage' = "judge"
      BY <1>1, PlannedLive DEF Plan, Inv, PlansFit
    <3> QED
      BY <3>1
  <2>2. refused = {}
    BY <2>1
  <2> QED
    BY <1>1, <2>1, <2>2 DEF Plan, lists, outputs
<1>2. ASSUME NEW p \in Plans, SetAside(p) PROVE TypeOK'
  BY <1>0, <1>2 DEF SetAside, Takes, outputs
<1>3. ASSUME NEW p \in Plans, ComputeAbsence(p) PROVE TypeOK'
  <2>1. /\ p \in planned /\ todo' = todo \ {p} /\ absence' = absence \cup {p}
        /\ findings' = findings \cup {Finding(p, p.rule, world.agent[p.rule])}
        /\ world.agent[p.rule] # NoAgent
    BY <1>3 DEF ComputeAbsence, Takes
  <2>2. p.rule \in Rules /\ world.agent[p.rule] \in Agents
    BY <2>1 DEF Plans, WorldType
  <2>3. findings' \subseteq Findings
    BY <1>0, <2>1, <2>2, FindingType
  <2> QED
    BY <1>3, <2>1, <2>3 DEF ComputeAbsence, outputs
<1>4. ASSUME NEW p \in Plans, RenderExact(p) PROVE TypeOK'
  <2>1. PICK r \in JudgingRules(p) :
          /\ world.agent[r] # NoAgent
          /\ findings' = findings \cup {Finding(p, r, world.agent[r])}
          /\ Moved(p, r)
    BY <1>4 DEF RenderExact
  <2>2. findings' \subseteq Findings /\ reattributed' \subseteq Plans \X Rules
    BY <1>0, <2>1, JudgeType, FindingType DEF Moved
  <2>3. p \in planned /\ todo' = todo \ {p} /\ rendered' = rendered \cup {p}
    BY <1>4 DEF RenderExact, Takes
  <2> QED
    BY <1>4, <2>2, <2>3 DEF RenderExact, outputs
<1>5. ASSUME NEW p \in Plans, Ask(p) PROVE TypeOK'
  <2>1. PICK r \in JudgingRules(p) :
          /\ world.agent[r] # NoAgent
          /\ pending' = pending \cup {Question(p, r, world.agent[r])}
          /\ Moved(p, r)
    BY <1>5 DEF Ask
  <2>2. p \in planned /\ todo' = todo \ {p}
    BY <1>5 DEF Ask, Takes
  <2>3. Question(p, r, world.agent[r]) \in [plan : planned, rule : Rules, agent : Agents]
    BY <2>1, <2>2, JudgeType DEF Question
  <2>4. reattributed' \subseteq Plans \X Rules
    BY <2>1, JudgeType DEF Moved
  <2> QED
    BY <1>5, <2>1, <2>2, <2>3, <2>4 DEF Ask, outputs
<1>6. ASSUME NEW q \in pending, ConsumeOpinion(q) PROVE TypeOK'
  <2>1. q.plan \in planned /\ q.plan \in Answers /\ q.rule \in Rules /\ q.agent \in Agents
    BY <1>0
  <2>2. findings' \subseteq Findings
    BY <1>6, <2>1, FindingType DEF ConsumeOpinion
  <2> QED
    BY <1>6, <2>1, <2>2 DEF ConsumeOpinion, outputs
<1>7. ASSUME NEW q \in pending, ConsumeJudgment(q) PROVE TypeOK'
  <2>1. q.plan \in planned /\ q.plan \in Answers /\ q.rule \in Rules /\ q.agent \in Agents
    BY <1>0
  <2>2. Finding(q.plan, q.rule, q.agent) \in Findings
    BY <2>1, FindingType
  <2>3. judged' \subseteq Findings \X Claims /\ refused' \subseteq planned \X Claims
    BY <1>7, <2>1, <2>2 DEF ConsumeJudgment
  <2> QED
    BY <1>7, <2>1, <2>3 DEF ConsumeJudgment, outputs
<1>8. CASE MissingUnits
  <2> DEFINE heard == {m \in world.missing : world.agent[m[2]] # NoAgent}
             Plain(m) == [unit |-> m[1], rule |-> m[2], kind |-> "missing_field"]
  <2>1. ASSUME NEW m \in world.missing
        PROVE  /\ Plain(m) \in Answers /\ m[2] \in Rules
               /\ m \in heard => world.agent[m[2]] \in Agents
    BY DEF WorldType, Pairs, Answers
  <2>2. /\ findings' = findings \cup {Finding(Plain(m), m[2], world.agent[m[2]]) : m \in heard}
        /\ notJudged' = notJudged \cup {Plain(m) : m \in world.missing \ heard}
    BY <1>8 DEF MissingUnits
  <2>3. \A m \in heard : m \in world.missing
    OBVIOUS
  <2> HIDE DEF heard, Plain
  <2>4. findings' \subseteq Findings /\ notJudged' \subseteq Answers
    BY <2>1, <2>2, <2>3, FindingType
  <2> QED
    BY <1>8, <2>4 DEF MissingUnits, outputs
<1>9. CASE Post
  <2>1. PICK computed, opinions \in SUBSET Agents :
          bus' = {f \in findings : f.agent \in computed}
                 \cup {j[1] : j \in {x \in judged : x[1].agent \in opinions}}
    BY <1>9 DEF Post
  <2>2. bus' \subseteq Findings
    BY <2>1
  <2> QED
    BY <1>9, <2>2 DEF Post, lists
<1>10. CASE Promote
  <2>1. \A f \in findings : <<f.unit, f.rule>> \in Pairs
    BY DEF Findings, Pairs
  <2>2. amendments' \subseteq Pairs /\ refusals' \subseteq Pairs
    BY <1>10, <2>1 DEF Promote
  <2> QED
    BY <1>10, <2>2 DEF Promote, lists
<1>11. CASE UNCHANGED vars
  BY <1>11 DEF vars, lists, outputs
<1> QED
  BY <1>1, <1>2, <1>3, <1>4, <1>5, <1>6, <1>7, <1>8, <1>9, <1>10, <1>11 DEF Next

\* Every list holds what its name says: what is computed, rendered, called or refused
\* was planned, and what is found, posted or judged names a unit, a rule and an agent.
THEOREM PairedTypeCorrect == Spec => []TypeOK
<1>1. Init => TypeOK
  BY WorldsAssumption DEF Init, TypeOK
<1>2. TypeOK /\ Inv /\ Accounted /\ [Next]_vars => TypeOK'
  BY TypeStep
<1> QED
  BY <1>1, <1>2, InvAlways, AccountedAlways, PTL DEF Spec
=============================================================================
