--------------------------- MODULE MCEquivalence ---------------------------
(* Two places, two new rules, of which one has a severity in the spec, two  *)
(* legacy rules and every map between them; three new rows and two legacy   *)
(* rows, so that a repeated row, a second candidate and a miss meet.        *)
EXTENDS Equivalence, TLC

MCRuleSeverities == <<"low", None>>
MCSymmetry == Permutations(Places) \cup Permutations(LegacyRules)
=============================================================================
