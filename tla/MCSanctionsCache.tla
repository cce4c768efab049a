-------------------------- MODULE MCSanctionsCache --------------------------
(* A name, the same name with another alias, and a second name; the sync    *)
(* processes are interchangeable.                                           *)
EXTENDS SanctionsCache, TLC

CONSTANTS ann, annAlias, bob
MCRows == {ann, annAlias, bob}
MCKeyOf == [r \in MCRows |-> IF r = bob THEN "bob" ELSE "ann"]
MCSymmetry == Permutations(Syncs)
============================================================================
