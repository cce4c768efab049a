----------------------------- MODULE MCApiGate -----------------------------
(* Three clients, two of whom are tracked; the clients are interchangeable. *)
EXTENDS ApiGate, TLC

MCSymmetry == Permutations(Clients)
=============================================================================
