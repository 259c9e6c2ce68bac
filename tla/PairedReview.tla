---------------------------- MODULE PairedReview ----------------------------
(***************************************************************************)
(* Phase 5.5 in paired mode (scripts/pipeline.py, paired_review.py): what  *)
(* becomes of every question a document raises.  Python plans one question *)
(* per computed disagreement and per pair it cannot compute, routes each   *)
(* to the agent its rule is assigned to, asks, renders or computes it, and *)
(* turns its own findings into amendments.                                 *)
(*                                                                         *)
(* A world is what the document and the rules say, abstracted to what the  *)
(* planner tells apart; the answers of the models are any.  In serial mode *)
(* a question is answered before the next is planned; with waves all are   *)
(* asked first and consumed afterwards.                                    *)
(***************************************************************************)
EXTENDS Naturals, FiniteSets

CONSTANTS
  Units, Rules,   \* the document's units and the registry's rules
  Agents,         \* the convention-review agents
  NoAgent,        \* a rule whose consumers hold no convention-review agent
  Worlds          \* the documents considered

Pairs == Units \X Rules
Verdicts == {"none", "agree", "disagree"}

ASSUME NoAgentAssumption == NoAgent \notin Agents

(* paired: the pairing map; kept: the pairs under the cap; unless: the rules that
   declare a suspension; suspended: where it holds; scoped, required: the rules that
   declare a scope, and a required field; lacks: where that field is missing; shared:
   the arithmetic no rule's text enters; band: the bound or duration a rule names;
   missing: the units the map matched to nothing, with their nearest rule. *)
WorldType ==
  [paired : SUBSET Pairs, kept : SUBSET Pairs, agent : [Rules -> Agents \cup {NoAgent}],
   unless : SUBSET Rules, suspended : SUBSET Pairs, scoped : SUBSET Rules,
   required : SUBSET Rules, lacks : SUBSET Pairs, shared : [Units -> Verdicts],
   band : [Pairs -> Verdicts], advisory : SUBSET Rules, missing : SUBSET Pairs]

ASSUME WorldsAssumption ==
  \A w \in Worlds : /\ w \in WorldType /\ w.kept \subseteq w.paired
                    /\ \A p \in w.suspended : p \in w.kept /\ p[2] \in w.unless

Kinds == {"absence_computed", "absence_judged", "computed", "band", "uncomputable"}
Plans == [unit : Units, rule : Rules, kind : Kinds]

(* What a judged absence claim rests on. *)
Claims == {"grounded", "no_quote", "no_field", "field_present", "misquoted"}

VARIABLES
  world, waves,
  stage,       \* plan, judge, post, promote, done
  planned,     \* what the planner returned
  todo,        \* the plans not yet taken
  pending,     \* the questions asked and not consumed, with their agent
  notJudged, reattributed, absence, rendered, called,
  findings,    \* Python's typed findings, by agent
  judged,      \* the models' own absence findings that were kept
  refused,     \* and those that were refused
  bus,         \* the findings the run bus accepted
  amendments, refusals

lists == <<notJudged, reattributed, absence, rendered, called>>
outputs == <<bus, amendments, refusals>>
vars == <<world, waves, stage, planned, todo, pending, lists, findings, judged, refused, outputs>>

Question(p, rule, agent) == [plan |-> p, rule |-> rule, agent |-> agent]
Finding(p, rule, agent) == [unit |-> p.unit, rule |-> rule, kind |-> p.kind, agent |-> agent]

-----------------------------------------------------------------------------
(* Plausible slips, used to show that the properties can fail               *)

(* Any rule with an agent takes the arithmetic over, a suspended one too. *)
AnyCandidate(p) ==
  {r \in Rules \ {p.rule} : <<p.unit, r>> \in world.paired /\ world.agent[r] # NoAgent}

(* The sentence of the model is required for the finding. *)
ConsumeAnswered(q) ==
  /\ stage = "judge" /\ q \in pending /\ (waves => todo = {}) /\ q.plan.kind # "absence_judged"
  /\ \E answered \in BOOLEAN :
       findings' = IF answered /\ q.plan.kind \in {"computed", "band"}
                   THEN findings \cup {Finding(q.plan, q.rule, q.agent)} ELSE findings
  /\ called' = called \cup {q.plan} /\ pending' = pending \ {q}
  /\ UNCHANGED <<world, waves, stage, planned, todo, notJudged, reattributed, absence, rendered,
                 judged, refused, outputs>>

(* A plan without an agent is skipped and left out of the map. *)
ForgetAside(p) ==
  /\ stage = "judge" /\ p \in todo /\ (waves \/ pending = {}) /\ todo' = todo \ {p}
  /\ world.agent[p.rule] = NoAgent
  /\ UNCHANGED <<world, waves, stage, planned, pending, lists, findings, judged, refused, outputs>>

(* Amendments are promoted from what reached the bus. *)
PromoteFromBus ==
  /\ stage = "promote"
  /\ amendments' = {<<f.unit, f.rule>> : f \in {g \in bus : g.rule \notin world.advisory}}
  /\ refusals' = {<<f.unit, f.rule>> : f \in {g \in bus : g.rule \in world.advisory}}
  /\ stage' = "done"
  /\ UNCHANGED <<world, waves, planned, todo, pending, lists, findings, judged, refused, bus>>

-----------------------------------------------------------------------------
(* The plan: pure arithmetic over the world (plan_calls)                    *)

(* The rules in force on a unit: paired under the cap and not suspended there. *)
Live(w, u) == {r \in Rules : <<u, r>> \in w.kept \ w.suspended}

Settled(w, u, r) == w.band[<<u, r>>] # "none"

(* Declared absences: computed when the rule names its field, else asked, unless a
   bound of the same rule has answered. *)
AbsencePlans(w, u) ==
  {[unit |-> u, rule |-> r, kind |-> "absence_computed"] :
      r \in {x \in Live(w, u) \cap w.scoped \cap w.required : <<u, x>> \in w.lacks}}
  \cup
  {[unit |-> u, rule |-> r, kind |-> "absence_judged"] :
      r \in {x \in (Live(w, u) \cap w.scoped) \ w.required : ~Settled(w, u, x)}}

BandPlans(w, u) ==
  {[unit |-> u, rule |-> r, kind |-> "band"] :
      r \in {x \in Live(w, u) : w.band[<<u, x>>] = "disagree"}}

(* The text goes to a model only where nothing at all was computed. *)
TextPlans(w, u) ==
  {[unit |-> u, rule |-> r, kind |-> "uncomputable"] :
      r \in {x \in Live(w, u) \ w.scoped : w.shared[u] = "none" /\ ~Settled(w, u, x)}}

(* One plan per unit for the arithmetic shared by its rules, attributed to one of
   them; with no rule in force there is none to cite and the plan is dropped. *)
SharedPlans(w) ==
  LET wrong == {u \in Units : w.shared[u] = "disagree" /\ Live(w, u) # {}}
  IN  {{[unit |-> u, rule |-> cite[u], kind |-> "computed"] : u \in wrong} :
         cite \in {f \in [wrong -> Rules] : \A u \in wrong : f[u] \in Live(w, u)}}

PlanCalls(w) ==
  {shared \cup UNION {AbsencePlans(w, u) \cup BandPlans(w, u) \cup TextPlans(w, u) : u \in Units} :
     shared \in SharedPlans(w)}

-----------------------------------------------------------------------------
Init ==
  /\ world \in Worlds /\ waves \in BOOLEAN
  /\ stage = "plan" /\ planned = {} /\ todo = {} /\ pending = {}
  /\ notJudged = {} /\ reattributed = {} /\ absence = {} /\ rendered = {} /\ called = {}
  /\ findings = {} /\ judged = {} /\ refused = {}
  /\ bus = {} /\ amendments = {} /\ refusals = {}

Plan ==
  /\ stage = "plan"
  /\ planned' \in PlanCalls(world) /\ todo' = planned'
  /\ stage' = "judge"
  /\ UNCHANGED <<world, waves, pending, lists, findings, judged, refused, outputs>>

(* A plan is taken when, in serial mode, the one before it was consumed. *)
Takes(p) == stage = "judge" /\ p \in todo /\ (waves \/ pending = {}) /\ todo' = todo \ {p}

(* Shared arithmetic whose rule nobody judges moves to another rule paired on the
   unit that has an agent and declares no suspension of its own. *)
Candidates(p) ==
  {r \in Rules \ {p.rule} : <<p.unit, r>> \in world.paired
                            /\ world.agent[r] # NoAgent /\ r \notin world.unless}

JudgingRules(p) ==
  IF world.agent[p.rule] = NoAgent /\ p.kind = "computed" /\ Candidates(p) # {}
  THEN Candidates(p) ELSE {p.rule}

Moved(p, r) == reattributed' = reattributed \cup {<<p, r>> : x \in {r} \ {p.rule}}

(* No agent can act on the rule: no call, and the map says so. *)
SetAside(p) ==
  /\ Takes(p)
  /\ \A r \in JudgingRules(p) : world.agent[r] = NoAgent
  /\ notJudged' = notJudged \cup {p}
  /\ UNCHANGED <<world, waves, stage, planned, pending, reattributed, absence, rendered, called,
                 findings, judged, refused, outputs>>

(* A declared required field the unit lacks: Python decides, no call. *)
ComputeAbsence(p) ==
  /\ Takes(p)
  /\ p.kind = "absence_computed" /\ world.agent[p.rule] # NoAgent
  /\ findings' = findings \cup {Finding(p, p.rule, world.agent[p.rule])}
  /\ absence' = absence \cup {p}
  /\ UNCHANGED <<world, waves, stage, planned, pending, notJudged, reattributed, rendered, called,
                 judged, refused, outputs>>

(* With waves an exact numeric disagreement needs no sentence from a model. *)
RenderExact(p) ==
  /\ Takes(p)
  /\ waves /\ p.kind \in {"computed", "band"}
  /\ \E r \in JudgingRules(p) :
       /\ world.agent[r] # NoAgent
       /\ findings' = findings \cup {Finding(p, r, world.agent[r])}
       /\ Moved(p, r)
  /\ rendered' = rendered \cup {p}
  /\ UNCHANGED <<world, waves, stage, planned, pending, notJudged, absence, called, judged, refused, outputs>>

Ask(p) ==
  /\ Takes(p)
  /\ p.kind # "absence_computed"
  /\ \E r \in JudgingRules(p) :
       /\ world.agent[r] # NoAgent
       /\ pending' = pending \cup {Question(p, r, world.agent[r])}
       /\ Moved(p, r)
  /\ UNCHANGED <<world, waves, stage, planned, notJudged, absence, rendered, called, findings, judged,
                 refused, outputs>>

Consumable(q) == q \in pending /\ (waves => todo = {})

(* The model adds a sentence to a disagreement; the finding is Python's, whether
   the call was answered or failed. *)
ConsumeOpinion(q) ==
  /\ stage = "judge" /\ Consumable(q) /\ q.plan.kind # "absence_judged"
  /\ findings' = IF q.plan.kind \in {"computed", "band"}
                 THEN findings \cup {Finding(q.plan, q.rule, q.agent)} ELSE findings
  /\ called' = called \cup {q.plan} /\ pending' = pending \ {q}
  /\ UNCHANGED <<world, waves, stage, planned, todo, notJudged, reattributed, absence, rendered,
                 judged, refused, outputs>>

(* An absence claim stands only with words quoted from this unit and a field named
   that the unit does not carry. *)
Stands(claim) == claim = "grounded"

ConsumeJudgment(q) ==
  /\ stage = "judge" /\ Consumable(q) /\ q.plan.kind = "absence_judged"
  /\ \E claims \in {c \in SUBSET Claims : Cardinality(c) <= 1} :
       /\ judged' = judged \cup {<<Finding(q.plan, q.rule, q.agent), c>> : c \in {x \in claims : Stands(x)}}
       /\ refused' = refused \cup {<<q.plan, c>> : c \in {x \in claims : ~Stands(x)}}
  /\ absence' = absence \cup {q.plan}
  /\ called' = called \cup {q.plan} /\ pending' = pending \ {q}
  /\ UNCHANGED <<world, waves, stage, planned, todo, notJudged, reattributed, rendered, findings, outputs>>

(* Units matched to nothing are findings too, of the nearest rule's agent. *)
MissingUnits ==
  /\ stage = "judge" /\ todo = {} /\ pending = {}
  /\ LET heard == {m \in world.missing : world.agent[m[2]] # NoAgent}
         Plain(m) == [unit |-> m[1], rule |-> m[2], kind |-> "missing_field"]
     IN  /\ findings' = findings \cup {Finding(Plain(m), m[2], world.agent[m[2]]) : m \in heard}
         /\ notJudged' = notJudged \cup {Plain(m) : m \in world.missing \ heard}
  /\ stage' = "post"
  /\ UNCHANGED <<world, waves, planned, todo, pending, reattributed, absence, rendered, called, judged,
                 refused, outputs>>

(* Each agent's findings go out in one message, its judged ones in another under the
   model's own name; a bus that refuses one does not stop the review. *)
Post ==
  /\ stage = "post"
  /\ \E computed, opinions \in SUBSET Agents :
       bus' = {f \in findings : f.agent \in computed}
              \cup {j[1] : j \in {x \in judged : x[1].agent \in opinions}}
  /\ stage' = "promote"
  /\ UNCHANGED <<world, waves, planned, todo, pending, lists, findings, judged, refused, amendments, refusals>>

(* Phase 6 builds one amendment per unit and rule from Python's findings; those of an
   advisory rule are refused and said. *)
Promote ==
  /\ stage = "promote"
  /\ amendments' = {<<f.unit, f.rule>> : f \in {g \in findings : g.rule \notin world.advisory}}
  /\ refusals' = {<<f.unit, f.rule>> : f \in {g \in findings : g.rule \in world.advisory}}
  /\ stage' = "done"
  /\ UNCHANGED <<world, waves, planned, todo, pending, lists, findings, judged, refused, bus>>

Next ==
  \/ Plan
  \/ \E p \in Plans : SetAside(p) \/ ComputeAbsence(p) \/ RenderExact(p) \/ Ask(p)
  \/ \E q \in pending : ConsumeOpinion(q) \/ ConsumeJudgment(q)
  \/ MissingUnits \/ Post \/ Promote

Spec == Init /\ [][Next]_vars

-----------------------------------------------------------------------------
(* Properties                                                               *)

Answers == Plans \cup [unit : Units, rule : Rules, kind : {"missing_field"}]
Findings == [unit : Units, rule : Rules, kind : Kinds \cup {"missing_field"}, agent : Agents]

(* Every list holds what its name says (_paired_convention_review). *)
TypeOK ==
  /\ world \in WorldType /\ waves \in BOOLEAN
  /\ stage \in {"plan", "judge", "post", "promote", "done"}
  /\ planned \subseteq Plans /\ todo \subseteq planned
  /\ pending \subseteq [plan : planned, rule : Rules, agent : Agents]
  /\ notJudged \subseteq Answers
  /\ reattributed \subseteq Plans \X Rules
  /\ absence \subseteq planned /\ rendered \subseteq planned /\ called \subseteq planned
  /\ findings \subseteq Findings /\ bus \subseteq Findings
  /\ judged \subseteq Findings \X Claims /\ refused \subseteq planned \X Claims
  /\ amendments \subseteq Pairs /\ refusals \subseteq Pairs

(* What may become of a plan: not taken yet, asked, called, set aside, computed by
   Python, rendered. *)
Fates ==
  <<todo, {q.plan : q \in pending}, called, notJudged \cap Plans,
    {p \in absence : p.kind = "absence_computed"}, rendered>>

(* "Never silently dropped": once the loop is over every plan was called, set aside,
   computed or rendered, and exactly one of these; before, the rest is still to be
   taken or waits for its answer; an absence was computed or its judge was called
   (the accounting logged after the loop). *)
EachPlanAccounted ==
  /\ planned = UNION {Fates[i] : i \in 1..6}
  /\ \A i, j \in 1..6 : i # j => Fates[i] \cap Fates[j] = {}
  /\ \A p \in absence : p.kind = "absence_computed" \/ p \in called
  /\ stage \in {"post", "promote", "done"} => todo = {} /\ pending = {}

(* A disagreement Python computed is a finding of its unit whatever the models
   answer: lost only when no ordinary rule in force there has a judging agent, and
   then the map records it (plan_calls, _reattribute_computed_plan,
   consume_judgment). *)
NoDisagreementLost ==
  stage = "done" =>
    /\ \A p \in planned : p.kind \in {"computed", "band", "absence_computed"} =>
         \/ \E f \in findings : f.unit = p.unit /\ f.kind = p.kind
                               /\ (f.rule = p.rule \/ <<p, f.rule>> \in reattributed)
         \/ p \in notJudged
    /\ \A u \in Units :
         (/\ world.shared[u] = "disagree"
          /\ \E r \in Live(world, u) : world.agent[r] # NoAgent /\ r \notin world.unless)
         => \E f \in findings : f.unit = u /\ f.kind = "computed"

(* A rule withdrawn from a unit by its own suspension says nothing of that unit: no
   finding cites it, no model is asked under it, not even for arithmetic moved there
   from another rule (resolve_unless, _reattribute_computed_plan). *)
SuspendedStaysSilent ==
  /\ \A f \in findings : f.kind # "missing_field" => <<f.unit, f.rule>> \notin world.suspended
  /\ \A q \in pending : <<q.plan.unit, q.rule>> \notin world.suspended

(* Amendments come from Python's findings and from nothing a model wrote, and every
   such finding becomes one or a refusal on record, also when the bus refused the
   message (computed_finding_items, ensure_amendments_for_findings). *)
AmendedOrSaid ==
  stage = "done" =>
    amendments \cup refusals = {<<f.unit, f.rule>> : f \in findings}
=============================================================================
