--------------------------- MODULE MCPairedReview ---------------------------
(* Worlds for TLC: three rules on one unit, each of any of the kinds below, over
   arithmetic that is absent, agrees or disagrees; with two units, two rules. *)
EXTENDS PairedReview

CONSTANTS u1, u2, r1, r2, r3, a1, a2

(* What a rule is on a unit: in order, paired under the cap, agent, unless,
   suspended, scoped, required, lacking, band, advisory. *)
Trait(kept, agent, unless, suspended, scoped, required, lacks, band, advisory) ==
  [kept |-> kept, agent |-> agent, unless |-> unless, suspended |-> suspended,
   scoped |-> scoped, required |-> required, lacks |-> lacks, band |-> band,
   advisory |-> advisory]

Traits ==
  {Trait(TRUE, a1, FALSE, FALSE, FALSE, FALSE, FALSE, "none", FALSE),
   Trait(TRUE, NoAgent, FALSE, FALSE, FALSE, FALSE, FALSE, "none", FALSE),
   Trait(TRUE, a1, TRUE, TRUE, FALSE, FALSE, FALSE, "none", FALSE),
   Trait(TRUE, a2, TRUE, FALSE, FALSE, FALSE, FALSE, "disagree", FALSE),
   Trait(TRUE, a2, FALSE, FALSE, TRUE, TRUE, TRUE, "none", FALSE),
   Trait(TRUE, a2, FALSE, FALSE, TRUE, FALSE, FALSE, "none", FALSE),
   Trait(TRUE, NoAgent, FALSE, FALSE, TRUE, TRUE, TRUE, "none", FALSE),
   Trait(TRUE, a1, FALSE, FALSE, TRUE, FALSE, FALSE, "agree", FALSE),
   Trait(TRUE, a1, FALSE, FALSE, FALSE, FALSE, FALSE, "disagree", TRUE),
   Trait(FALSE, a1, FALSE, FALSE, FALSE, FALSE, FALSE, "none", FALSE)}

WorldOf(t, shared, missing) ==
  LET On(P(_)) == {<<u, r>> \in Units \X Rules : u = u1 /\ P(t[r])}
      Of(P(_)) == {r \in Rules : P(t[r])}
  IN  [paired |-> On(LAMBDA x : TRUE), kept |-> On(LAMBDA x : x.kept),
       agent |-> [r \in Rules |-> t[r].agent],
       unless |-> Of(LAMBDA x : x.unless), suspended |-> On(LAMBDA x : x.suspended),
       scoped |-> Of(LAMBDA x : x.scoped), required |-> Of(LAMBDA x : x.required),
       lacks |-> On(LAMBDA x : x.lacks), shared |-> [u \in Units |-> IF u = u1 THEN shared ELSE "none"],
       band |-> [p \in Units \X Rules |-> IF p[1] = u1 THEN t[p[2]].band ELSE "none"],
       advisory |-> Of(LAMBDA x : x.advisory), missing |-> missing]

MCWorlds ==
  {WorldOf(t, shared, missing) : t \in [Rules -> Traits], shared \in Verdicts,
                                 missing \in {{}, {<<u2, r1>>}}}
=============================================================================
