----------------------------- MODULE MCRunStore -----------------------------
(* Workers, tenants, run ids and rules are each interchangeable.            *)
EXTENDS RunStore, TLC

MCSymmetry == Permutations(Workers) \cup Permutations(Tenants)
                \cup Permutations(RunIds) \cup Permutations(Rules)
=============================================================================
