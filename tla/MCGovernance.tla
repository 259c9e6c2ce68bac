---------------------------- MODULE MCGovernance ----------------------------
(* Instances of Governance for TLC.                                        *)
EXTENDS Governance, TLC

\* Pipelines differ in nothing but their names.
Symmetry == Permutations(Pipelines)
=============================================================================
