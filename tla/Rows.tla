-------------------------------- MODULE Rows --------------------------------
(***************************************************************************)
(* A list comprehension with a condition: of a sequence, the elements at   *)
(* the positions in a set, in their order.                                 *)
(***************************************************************************)
EXTENDS Integers, FiniteSets

(* The position that comes i-th among those of places.                      *)
Position(places, i) == CHOOSE k \in places : Cardinality({j \in places : j <= k}) = i

Picked(rows, places) == [i \in 1..Cardinality(places) |-> rows[Position(places, i)]]
=============================================================================
