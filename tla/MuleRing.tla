------------------------------ MODULE MuleRing ------------------------------
(***************************************************************************)
(* The search for mule rings: customers who share a phone, a device or     *)
(* another linking attribute are linked pairwise, and a union-find with    *)
(* path compression gathers them into communities, pair by pair in sorted  *)
(* order.  A community that is large and dense enough is reported.         *)
(* Customer ids are numbers in the order the ids sort.                     *)
(***************************************************************************)
EXTENDS Integers, FiniteSets

CONSTANTS
    Customers,
    MinRingSize,            \* min_ring_size
    DensityNum, DensityDen  \* min_density, as a fraction

ASSUME CustomersAssumption == Customers \subseteq Nat
ASSUME ThresholdsAssumption ==
    {MinRingSize, DensityNum} \subseteq Nat /\ DensityDen \in Nat \ {0}

VARIABLES
    links,      \* the distinct pairs of resolved_entity_link, the smaller id first
    todo,       \* the pairs the union has not come to
    parent,     \* the union-find forest
    rings,      \* the reported communities
    reported    \* the search has ended
vars == <<links, todo, parent, rings, reported>>

Pairs == {p \in Customers \X Customers : p[1] < p[2]}
Nodes == {n \in Customers : \E p \in links : n \in {p[1], p[2]}}

(* Six linking attributes make any graph of five customers.                 *)
Init ==
    /\ links \in SUBSET Pairs
    /\ todo = links
    /\ parent = [n \in Nodes |-> n]
    /\ rings = {} /\ reported = FALSE

----------------------------------------------------------------------------
(* The forest.                                                              *)
Closed(S, up) == \A n \in S : up[n] \in S

(* The nodes from n up to its root: those no set closed under up leaves out.*)
Above(up, n) == {m \in DOMAIN up : \A S \in SUBSET DOMAIN up : n \in S /\ Closed(S, up) => m \in S}

(* What _find returns, if the walk up from n ends.                          *)
IsRoot(up, n, r) == r \in Above(up, n) /\ up[r] = r

(* A find hangs every node it passed directly under the root.               *)
Compressed(up, n, r) == [m \in DOMAIN up |-> IF m \in Above(up, n) THEN r ELSE up[m]]

First(p) == \A q \in todo : p[1] < q[1] \/ (p[1] = q[1] /\ p[2] <= q[2])

(* Mutant: the second customer is hung under the first one's root, and what *)
(* its old root held is left behind.                                        *)
UnionOfLeaves(p) ==
    \E ra, rb \in DOMAIN parent :
        LET up == Compressed(Compressed(parent, p[1], ra), p[2], rb) IN
        /\ IsRoot(parent, p[1], ra) /\ IsRoot(parent, p[2], rb)
        /\ p \in todo /\ First(p)
        /\ parent' = IF ra = rb THEN up ELSE [up EXCEPT ![p[2]] = ra]
        /\ todo' = todo \ {p}
        /\ UNCHANGED <<links, rings, reported>>

(* The larger root is hung under the smaller one.                           *)
Union(p) ==
    \E ra, rb \in DOMAIN parent :
        LET up == Compressed(Compressed(parent, p[1], ra), p[2], rb) IN
        /\ IsRoot(parent, p[1], ra) /\ IsRoot(parent, p[2], rb)
        /\ p \in todo /\ First(p)
        /\ parent' = IF ra < rb THEN [up EXCEPT ![rb] = ra]
                     ELSE IF rb < ra THEN [up EXCEPT ![ra] = rb]
                     ELSE up
        /\ todo' = todo \ {p}
        /\ UNCHANGED <<links, rings, reported>>

----------------------------------------------------------------------------
Members(r) == {n \in Nodes : IsRoot(parent, n, r)}

(* Mutant: the links are counted by parent, not by root.                    *)
EdgesByParent(r) == {p \in links : parent[p[1]] = r}

(* A link counts for the root both its ends have.                           *)
EdgesOf(r) == {p \in links : IsRoot(parent, p[1], r)}
Possible(size) == (size * (size - 1)) \div 2

(* max_edges is zero for a lone node, whose density is then zero.           *)
Dense(edges, size) ==
    IF Possible(size) = 0 THEN DensityNum = 0
    ELSE edges * DensityDen >= DensityNum * Possible(size)

Report ==
    /\ todo = {} /\ ~reported
    /\ reported' = TRUE
    /\ rings' = {Members(r) : r \in {n \in Nodes :
                    /\ parent[n] = n
                    /\ Cardinality(Members(n)) >= MinRingSize
                    /\ Dense(Cardinality(EdgesOf(n)), Cardinality(Members(n)))}}
    /\ UNCHANGED <<links, todo, parent>>

Next == (\E p \in todo : Union(p)) \/ Report

Spec == Init /\ [][Next]_vars

----------------------------------------------------------------------------
(* No cut of the nodes that a pair of the given ones does not cross keeps   *)
(* the two apart.                                                           *)
Together(a, b, pairs) ==
    \A S \in SUBSET Nodes : a \in S /\ b \notin S => \E p \in pairs : (p[1] \in S) # (p[2] \in S)

(* Two customers have the same root exactly if the pairs united so far      *)
(* connect them, whatever the unions and compressions did to the forest.    *)
RootsAreCommunities ==
    \A a, b \in Nodes :
        (\E r \in Nodes : IsRoot(parent, a, r) /\ IsRoot(parent, b, r))
            <=> Together(a, b, links \ todo)

(* What is reported is exactly the connected sets, not extensible, that     *)
(* hold enough customers and enough of their possible links.                *)
RingsAreDenseCommunities ==
    reported =>
        rings = {C \in SUBSET Nodes :
            /\ C # {} /\ \A a \in C, b \in Nodes : b \in C <=> Together(a, b, links)
            /\ Cardinality(C) >= MinRingSize
            /\ Dense(Cardinality({p \in links : p[1] \in C}), Cardinality(C))}
=============================================================================
