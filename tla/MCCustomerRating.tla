-------------------------- MODULE MCCustomerRating --------------------------
(* Two customers with one name.                                             *)
EXTENDS CustomerRating, TLC

CONSTANTS c1, c2

MCNameOf == c1 :> "n1" @@ c2 :> "n1"
=============================================================================
