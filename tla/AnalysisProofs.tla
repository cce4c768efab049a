--------------------------- MODULE AnalysisProofs ---------------------------
(* The two analyses of what a run left.  The union-find of MuleRing is      *)
(* correct on every graph of links: two customers have one root exactly if  *)
(* the pairs united so far connect them.  The argument carries a map R from *)
(* each node to the root a find would return; a compression leaves it alone *)
(* and a union redirects one class.  The comparison of Equivalence depends  *)
(* on its two exports as sets: the cells so far answer the legacy rows      *)
(* walked, each with the best alert of its own, which no other row can take.*)
EXTENDS MuleRing, Equivalence, WellFoundedInduction, FiniteSetTheorems, TLAPS

Forest(up, N) == up \in [N -> N] /\ \A n \in N : up[n] <= n

(* R names a root for every node, the same one as for its parent.          *)
RootMap(up, N, R) ==
    /\ up \in [N -> N]
    /\ R \in [N -> N]
    /\ \A n \in N : R[up[n]] = R[n]
    /\ \A n \in N : up[n] = n => R[n] = n

LEMMA AboveIsClosed ==
    ASSUME NEW N, NEW up \in [N -> N], NEW n \in N
    PROVE n \in Above(up, n) /\ Closed(Above(up, n), up)
  BY DEF Above, Closed

LEMMA AboveIsLeast ==
    ASSUME NEW N, NEW up \in [N -> N], NEW n \in N, NEW S \in SUBSET N, n \in S, Closed(S, up)
    PROVE Above(up, n) \subseteq S
  BY DEF Above

LEMMA LeastOfASet ==
    ASSUME NEW A \in SUBSET Nat, A # {}
    PROVE \E r \in A : \A m \in A : r <= m
  <1> DEFINE R == {s \in Nat \X Nat : s[1] < s[2]}
  <1>1. IsWellFoundedOn(R, Nat) BY NatLessThanWellFounded DEF OpToRel
  <1> HIDE DEF R
  <1>2. PICK r \in A : \A m \in A : <<m, r>> \notin R BY <1>1, WFMin
  <1>3. ASSUME NEW m \in A PROVE r <= m
    <2>1. <<m, r>> \notin R BY <1>2
    <2>2. m \in Nat /\ r \in Nat OBVIOUS
    <2>3. ~ (m < r) BY <2>1, <2>2 DEF R
    <2> QED BY <2>2, <2>3
  <1> QED BY <1>3

(* A walk up a forest ends: the least node above n is its own parent.      *)
LEMMA RootExists ==
    ASSUME NEW N \in SUBSET Nat, NEW up, Forest(up, N), NEW n \in N
    PROVE \E r \in N : IsRoot(up, n, r)
  <1>1. up \in [N -> N] BY DEF Forest
  <1>2. n \in Above(up, n) /\ Closed(Above(up, n), up) BY <1>1, AboveIsClosed
  <1>3. Above(up, n) \subseteq N BY <1>1 DEF Above
  <1>4. PICK r \in Above(up, n) : \A m \in Above(up, n) : r <= m
    <2> DEFINE A == Above(up, n)
    <2>1. A # {} /\ A \in SUBSET Nat BY <1>2, <1>3
    <2> HIDE DEF A
    <2>2. \E r \in A : \A m \in A : r <= m BY <2>1, LeastOfASet
    <2> QED BY <2>2 DEF A
  <1>5. up[r] \in Above(up, n) BY <1>2 DEF Closed
  <1>6. up[r] <= r BY <1>3, <1>4 DEF Forest
  <1>7. r <= up[r] BY <1>4, <1>5
  <1>8. r \in Nat /\ up[r] \in Nat BY <1>3, <1>4, <1>5
  <1>9. up[r] = r BY <1>6, <1>7, <1>8
  <1> QED BY <1>3, <1>9 DEF IsRoot

(* The map gives the root of everything above a node.                      *)
LEMMA RootMapAbove ==
    ASSUME NEW N, NEW up, NEW R, RootMap(up, N, R), NEW n \in N
    PROVE \A m \in Above(up, n) : m \in N /\ R[m] = R[n]
  <1>0. up \in [N -> N] BY DEF RootMap
  <1> DEFINE S == {x \in N : R[x] = R[n]}
  <1>1. n \in S /\ Closed(S, up) BY DEF RootMap, Closed
  <1>2. Above(up, n) \subseteq S BY <1>0, <1>1, AboveIsLeast
  <1> QED BY <1>2

LEMMA RootMapIsRoot ==
    ASSUME NEW N \in SUBSET Nat, NEW up, Forest(up, N), NEW R, RootMap(up, N, R), NEW n \in N
    PROVE /\ IsRoot(up, n, R[n])
          /\ \A r : IsRoot(up, n, r) => r = R[n]
          /\ R[n] \in N /\ R[n] <= n /\ up[R[n]] = R[n] /\ R[R[n]] = R[n]
  <1>1. up \in [N -> N] BY DEF Forest
  <1>2. ASSUME NEW r, IsRoot(up, n, r) PROVE r = R[n]
    <2>0. r \in Above(up, n) BY <1>2 DEF IsRoot
    <2>9. \A m \in Above(up, n) : m \in N /\ R[m] = R[n] BY RootMapAbove
    <2>1. r \in N /\ R[r] = R[n] BY <2>0, <2>9
    <2>2. R[r] = r BY <1>2, <2>1 DEF IsRoot, RootMap
    <2> QED BY <2>1, <2>2
  <1>3. IsRoot(up, n, R[n]) BY <1>2, RootExists
  <1>4. R[n] \in N BY DEF RootMap
  <1>5. up[R[n]] = R[n] BY <1>3 DEF IsRoot
  <1>6. R[R[n]] = R[n] BY <1>4, <1>5 DEF RootMap
  <1> DEFINE S == {x \in N : x <= n}
  <1>7. n \in S /\ Closed(S, up)
    <2>1. n \in S OBVIOUS
    <2>2. ASSUME NEW x \in S PROVE up[x] \in S
      <3>1. up[x] \in N /\ up[x] <= x BY <1>1 DEF Forest
      <3>2. x \in Nat /\ n \in Nat /\ up[x] \in Nat /\ x <= n BY <3>1
      <3> QED BY <3>1, <3>2
    <2> QED BY <2>1, <2>2 DEF Closed
  <1>8. Above(up, n) \subseteq S BY ZenonT(30), <1>1, <1>7, AboveIsLeast
  <1>9. R[n] <= n BY <1>3, <1>8 DEF IsRoot
  <1> QED BY <1>2, <1>3, <1>4, <1>5, <1>6, <1>9

(* A find changes no root.                                                 *)
LEMMA CompressedKeepsRoots ==
    ASSUME NEW N \in SUBSET Nat, NEW up, Forest(up, N), NEW R, RootMap(up, N, R), NEW n \in N
    PROVE /\ Forest(Compressed(up, n, R[n]), N)
          /\ RootMap(Compressed(up, n, R[n]), N, R)
  <1> DEFINE new == Compressed(up, n, R[n])
  <1>0. up \in [N -> N] BY DEF Forest
  <1>1. new = [m \in N |-> IF m \in Above(up, n) THEN R[n] ELSE up[m]]
    BY <1>0 DEF Compressed
  <1>2. ASSUME NEW m \in N, m \in Above(up, n)
        PROVE new[m] = R[n] /\ R[m] = R[n] /\ R[n] \in N /\ R[n] <= m /\ R[R[n]] = R[n]
    <2>1. new[m] = R[n] BY <1>1, <1>2
    <2>9. \A x \in Above(up, n) : x \in N /\ R[x] = R[n] BY RootMapAbove
    <2>2. R[m] = R[n] BY <1>2, <2>9
    <2>3. R[m] \in N /\ R[m] <= m /\ R[R[m]] = R[m] BY RootMapIsRoot
    <2> QED BY <2>1, <2>2, <2>3
  <1>3. ASSUME NEW m \in N, m \notin Above(up, n) PROVE new[m] = up[m]
    BY <1>1, <1>3
  <1>4. ASSUME NEW m \in N
        PROVE new[m] \in N /\ new[m] <= m /\ R[new[m]] = R[m] /\ (new[m] = m => R[m] = m)
    <2>1. CASE m \in Above(up, n) BY <1>2, <2>1
    <2>2. CASE m \notin Above(up, n) BY <1>0, <1>3, <2>2 DEF Forest, RootMap
    <2> QED BY <2>1, <2>2
  <1>5. new \in [N -> N] BY <1>1, <1>4
  <1> HIDE DEF new
  <1>6. Forest(new, N) BY <1>4, <1>5 DEF Forest
  <1>7. RootMap(new, N, R) BY <1>4, <1>5 DEF RootMap
  <1> QED BY <1>6, <1>7 DEF new

Hung(up, hi, lo) == [up EXCEPT ![hi] = lo]
Redirected(N, R, hi, lo) == [m \in N |-> IF R[m] = hi THEN lo ELSE R[m]]

(* Hanging one root under a smaller one redirects the nodes of its class.  *)
LEMMA HungUnder ==
    ASSUME NEW N \in SUBSET Nat, NEW up, Forest(up, N), NEW R, RootMap(up, N, R),
           NEW lo \in N, NEW hi \in N, lo < hi, R[lo] = lo, R[hi] = hi
    PROVE /\ Forest(Hung(up, hi, lo), N)
          /\ RootMap(Hung(up, hi, lo), N, Redirected(N, R, hi, lo))
  <1> DEFINE new == Hung(up, hi, lo)
  <1> DEFINE Q == Redirected(N, R, hi, lo)
  <1>0. up \in [N -> N] BY DEF Forest
  <1>1. new[hi] = lo /\ \A m \in N : m # hi => new[m] = up[m] BY <1>0 DEF Hung
  <1>2. new \in [N -> N] BY <1>0 DEF Hung
  <1>3. \A m \in N : Q[m] = IF R[m] = hi THEN lo ELSE R[m] BY DEF Redirected
  <1>4. Q \in [N -> N] BY DEF RootMap, Redirected
  <1> HIDE DEF new, Q
  <1>5. ASSUME NEW m \in N
        PROVE new[m] <= m /\ Q[new[m]] = Q[m] /\ (new[m] = m => Q[m] = m)
    <2>1. CASE m = hi
      <3>1. Q[lo] = lo /\ Q[hi] = lo BY <1>3
      <3> QED BY <1>1, <2>1, <3>1
    <2>2. CASE m # hi
      <3>1. new[m] = up[m] /\ up[m] \in N /\ up[m] <= m BY <1>0, <1>1, <2>2 DEF Forest
      <3>2. R[up[m]] = R[m] BY DEF RootMap
      <3>3. Q[up[m]] = Q[m] BY <1>3, <3>1, <3>2
      <3>4. up[m] = m => Q[m] = m BY <1>3, <2>2 DEF RootMap
      <3> QED BY <3>1, <3>3, <3>4
    <2> QED BY <2>1, <2>2
  <1>6. Forest(new, N) BY <1>2, <1>5 DEF Forest
  <1>7. RootMap(new, N, Q) BY <1>2, <1>4, <1>5 DEF RootMap
  <1> QED BY <1>6, <1>7 DEF new, Q

----------------------------------------------------------------------------
(* Together over given nodes, and what a further pair makes of it.         *)
Connected(N, a, b, D) ==
    \A S \in SUBSET N : a \in S /\ b \notin S => \E p \in D : (p[1] \in S) # (p[2] \in S)

Classes(N, R, D) == \A a, b \in N : R[a] = R[b] <=> Connected(N, a, b, D)

LEMMA ConnectedGrows ==
    ASSUME NEW N, NEW D, NEW p, NEW a, NEW b, Connected(N, a, b, D)
    PROVE Connected(N, a, b, D \cup {p})
  BY DEF Connected

(* Nodes of one class stay on one side of every cut no pair crosses.       *)
LEMMA SameSide ==
    ASSUME NEW N, NEW D, NEW a \in N, NEW b \in N, NEW Q,
           \A q \in D : Q[q[1]] = Q[q[2]] /\ q[1] \in N /\ q[2] \in N,
           Connected(N, a, b, D)
    PROVE Q[a] = Q[b]
  <1> DEFINE S == {m \in N : Q[m] = Q[a]}
  <1>1. S \in SUBSET N /\ a \in S OBVIOUS
  <1>2. \A q \in D : (q[1] \in S) = (q[2] \in S) OBVIOUS
  <1> HIDE DEF S
  <1>3. b \in S BY <1>1, <1>2 DEF Connected
  <1> QED BY <1>3 DEF S

LEMMA EndsConnected ==
    ASSUME NEW N, NEW D, NEW q \in D
    PROVE Connected(N, q[1], q[2], D)
  BY DEF Connected

LEMMA ClassesKept ==
    ASSUME NEW N, NEW D, NEW R, Classes(N, R, D), NEW p,
           \A q \in D \cup {p} : q[1] \in N /\ q[2] \in N,
           R[p[1]] = R[p[2]]
    PROVE Classes(N, R, D \cup {p})
  <1>1. ASSUME NEW q \in D \cup {p} PROVE R[q[1]] = R[q[2]]
    <2>1. CASE q = p BY <2>1
    <2>2. CASE q \in D BY <2>2, EndsConnected DEF Classes
    <2> QED BY <2>1, <2>2
  <1>2. ASSUME NEW a \in N, NEW b \in N
        PROVE R[a] = R[b] <=> Connected(N, a, b, D \cup {p})
    <2>1. R[a] = R[b] => Connected(N, a, b, D \cup {p}) BY ConnectedGrows DEF Classes
    <2>2. \A q \in D \cup {p} : R[q[1]] = R[q[2]] /\ q[1] \in N /\ q[2] \in N BY <1>1
    <2>3. Connected(N, a, b, D \cup {p}) => R[a] = R[b] BY <2>2, SameSide
    <2> QED BY <2>1, <2>3
  <1> QED BY <1>2 DEF Classes

LEMMA ClassesMerged ==
    ASSUME NEW N, NEW D, NEW R, Classes(N, R, D), NEW p,
           \A q \in D \cup {p} : q[1] \in N /\ q[2] \in N,
           NEW lo, NEW hi, {R[p[1]], R[p[2]]} = {lo, hi}
    PROVE Classes(N, Redirected(N, R, hi, lo), D \cup {p})
  <1> DEFINE Q == Redirected(N, R, hi, lo)
  <1>0. \A m \in N : Q[m] = IF R[m] = hi THEN lo ELSE R[m] BY DEF Redirected
  <1> HIDE DEF Q
  <1>1. ASSUME NEW q \in D \cup {p} PROVE Q[q[1]] = Q[q[2]]
    <2>1. CASE q = p BY <1>0, <2>1
    <2>2. CASE q \in D
      <3>1. R[q[1]] = R[q[2]] BY <2>2, EndsConnected DEF Classes
      <3> QED BY <1>0, <3>1
    <2> QED BY <2>1, <2>2
  <1>2. ASSUME NEW a \in N, NEW b \in N, NEW x \in N, NEW y \in N,
               {x, y} = {p[1], p[2]}, R[a] = R[x], R[b] = R[y]
        PROVE Connected(N, a, b, D \cup {p})
    <2>1. Connected(N, a, x, D) /\ Connected(N, y, b, D) BY <1>2 DEF Classes
    <2>2. ASSUME NEW S \in SUBSET N, a \in S, b \notin S,
                 ~ \E q \in D : (q[1] \in S) # (q[2] \in S)
          PROVE (p[1] \in S) # (p[2] \in S)
      <3>1. x \in S BY <2>1, <2>2 DEF Connected
      <3>2. y \notin S BY <2>1, <2>2 DEF Connected
      <3> QED BY <1>2, <3>1, <3>2
    <2> QED BY <2>2 DEF Connected
  <1>3. ASSUME NEW a \in N, NEW b \in N, Q[a] = Q[b] PROVE Connected(N, a, b, D \cup {p})
    <2>1. CASE R[a] = R[b] BY <2>1, ConnectedGrows DEF Classes
    <2>2. CASE R[a] # R[b]
      <3>1. {R[a], R[b]} = {lo, hi} BY <1>0, <1>3, <2>2
      <3>2. {R[a], R[b]} = {R[p[1]], R[p[2]]} BY <3>1
      <3>3. CASE R[a] = R[p[1]]
        <4>1. R[b] = R[p[2]] BY <2>2, <3>2, <3>3
        <4> QED BY <1>2, <3>3, <4>1
      <3>4. CASE R[a] = R[p[2]]
        <4>1. R[b] = R[p[1]] BY <2>2, <3>2, <3>4
        <4> QED BY <1>2, <3>4, <4>1
      <3> QED BY <3>2, <3>3, <3>4
    <2> QED BY <2>1, <2>2
  <1>4. ASSUME NEW a \in N, NEW b \in N, Connected(N, a, b, D \cup {p}) PROVE Q[a] = Q[b]
    BY <1>1, <1>4, SameSide
  <1>5. Classes(N, Q, D \cup {p}) BY <1>3, <1>4 DEF Classes
  <1> QED BY <1>5 DEF Q

----------------------------------------------------------------------------
(* The inductive invariant: a root map whose classes are the communities.  *)
RingInv ==
    /\ links \subseteq Pairs /\ todo \subseteq links
    /\ Forest(parent, Nodes)
    /\ \E R : RootMap(parent, Nodes, R) /\ Classes(Nodes, R, links \ todo)

LEMMA NodesAreNat == Nodes \in SUBSET Nat
  BY CustomersAssumption DEF Nodes

LEMMA EndsAreNodes ==
    ASSUME links \subseteq Pairs, NEW q \in links
    PROVE q[1] \in Nodes /\ q[2] \in Nodes
  BY DEF Nodes, Pairs

LEMMA RingInit == Init => RingInv
  <1> SUFFICES ASSUME Init PROVE RingInv OBVIOUS
  <1> USE DEF Init
  <1>1. links \subseteq Pairs /\ todo \subseteq links OBVIOUS
  <1>2. Forest(parent, Nodes) BY NodesAreNat DEF Forest
  <1>3. RootMap(parent, Nodes, parent) BY DEF RootMap
  <1>4. ASSUME NEW a \in Nodes, NEW b \in Nodes
        PROVE parent[a] = parent[b] <=> Connected(Nodes, a, b, links \ todo)
    <2>1. links \ todo = {} OBVIOUS
    <2>2. parent[a] = a /\ parent[b] = b OBVIOUS
    <2>3. a # b => ~ Connected(Nodes, a, b, {}) BY {a} \in SUBSET Nodes DEF Connected
    <2>4. Connected(Nodes, a, a, {}) BY DEF Connected
    <2> QED BY <2>1, <2>2, <2>3, <2>4
  <1>5. Classes(Nodes, parent, links \ todo) BY <1>4 DEF Classes
  <1> QED BY <1>1, <1>2, <1>3, <1>5 DEF RingInv

(* Whatever the order of the two roots, the forest of a union has a map    *)
(* whose classes are those of one more pair.                               *)
LEMMA UnionKeeps ==
    ASSUME RingInv, NEW p \in todo, Union(p)
    PROVE RingInv'
  <1> USE DEF RingInv
  <1>0. Nodes \in SUBSET Nat BY NodesAreNat
  <1>1. links' = links /\ todo' = todo \ {p} /\ Nodes' = Nodes BY DEF Union, Nodes
  <1>2. \A q \in (links \ todo) \cup {p} : q[1] \in Nodes /\ q[2] \in Nodes
    BY EndsAreNodes
  <1>3. links' \ todo' = (links \ todo) \cup {p} BY <1>1
  <1>4. PICK R : RootMap(parent, Nodes, R) /\ Classes(Nodes, R, links \ todo) OBVIOUS
  <1>5. p[1] \in Nodes /\ p[2] \in Nodes BY <1>2
  <1>6. PICK ra \in DOMAIN parent, rb \in DOMAIN parent :
            LET up == Compressed(Compressed(parent, p[1], ra), p[2], rb) IN
            /\ IsRoot(parent, p[1], ra) /\ IsRoot(parent, p[2], rb)
            /\ parent' = IF ra < rb THEN [up EXCEPT ![rb] = ra]
                         ELSE IF rb < ra THEN [up EXCEPT ![ra] = rb]
                         ELSE up
    BY DEF Union
  <1>7. /\ ra = R[p[1]] /\ ra \in Nodes /\ R[ra] = ra
        /\ rb = R[p[2]] /\ rb \in Nodes /\ R[rb] = rb
    BY <1>0, <1>4, <1>5, <1>6, RootMapIsRoot
  <1>n. ra \in Nat /\ rb \in Nat BY <1>0, <1>7
  <1> DEFINE up == Compressed(Compressed(parent, p[1], ra), p[2], rb)
  <1>8. Forest(up, Nodes) /\ RootMap(up, Nodes, R)
    <2>1. /\ Forest(Compressed(parent, p[1], ra), Nodes)
          /\ RootMap(Compressed(parent, p[1], ra), Nodes, R)
      BY <1>0, <1>4, <1>5, <1>7, CompressedKeepsRoots
    <2> QED BY <1>0, <1>5, <1>7, <2>1, CompressedKeepsRoots
  <1>9. parent' = IF ra < rb THEN [up EXCEPT ![rb] = ra]
                  ELSE IF rb < ra THEN [up EXCEPT ![ra] = rb]
                  ELSE up
    BY <1>6
  <1> HIDE DEF up
  <1>10. Forest(parent', Nodes) /\ \E Q : RootMap(parent', Nodes, Q)
                                  /\ Classes(Nodes, Q, (links \ todo) \cup {p})
    <2>1. CASE ra < rb
      <3> DEFINE Q == Redirected(Nodes, R, rb, ra)
      <3>0. {R[p[1]], R[p[2]]} = {ra, rb} BY <1>7
      <3>1. parent' = Hung(up, rb, ra) BY <1>9, <2>1 DEF Hung
      <3>2. Forest(parent', Nodes) /\ RootMap(parent', Nodes, Q)
        BY <1>0, <1>7, <1>8, <2>1, <3>1, HungUnder
      <3>3. Classes(Nodes, Q, (links \ todo) \cup {p})
        BY <1>2, <1>4, <3>0, ClassesMerged
      <3> QED BY <3>2, <3>3
    <2>2. CASE rb < ra
      <3> DEFINE Q == Redirected(Nodes, R, ra, rb)
      <3>0. {R[p[1]], R[p[2]]} = {rb, ra} BY <1>7
      <3>1. parent' = Hung(up, ra, rb) BY <1>n, <1>9, <2>2 DEF Hung
      <3>2. Forest(parent', Nodes) /\ RootMap(parent', Nodes, Q)
        BY <1>0, <1>7, <1>8, <2>2, <3>1, HungUnder
      <3>3. Classes(Nodes, Q, (links \ todo) \cup {p})
        BY <1>2, <1>4, <3>0, ClassesMerged
      <3> QED BY <3>2, <3>3
    <2>3. CASE ra = rb
      <3>1. parent' = up BY <1>n, <1>9, <2>3
      <3>2. Classes(Nodes, R, (links \ todo) \cup {p})
        BY <1>2, <1>4, <1>7, <2>3, ClassesKept
      <3> QED BY <1>8, <3>1, <3>2
    <2> QED BY <1>n, <2>1, <2>2, <2>3
  <1>11. links' \subseteq Pairs /\ todo' \subseteq links' BY <1>1 DEF Pairs
  <1> QED BY <1>1, <1>3, <1>10, <1>11

LEMMA RingStep == RingInv /\ [Next]_vars => RingInv'
  <1> SUFFICES ASSUME RingInv, [Next]_vars PROVE RingInv' OBVIOUS
  <1>1. CASE \E p \in todo : Union(p) BY <1>1, UnionKeeps
  <1>2. CASE Report
    <2>1. UNCHANGED <<links, todo, parent>> /\ Nodes' = Nodes BY <1>2 DEF Report, Nodes
    <2> QED BY <2>1 DEF RingInv, Pairs
  <1>3. CASE UNCHANGED vars
    <2>1. UNCHANGED <<links, todo, parent>> /\ Nodes' = Nodes BY <1>3 DEF vars, Nodes
    <2> QED BY <2>1 DEF RingInv, Pairs
  <1> QED BY <1>1, <1>2, <1>3 DEF Next

LEMMA RingInvRoots == RingInv => RootsAreCommunities
  <1> SUFFICES ASSUME RingInv, NEW a \in Nodes, NEW b \in Nodes
               PROVE (\E r \in Nodes : IsRoot(parent, a, r) /\ IsRoot(parent, b, r))
                         <=> Together(a, b, links \ todo)
    BY DEF RootsAreCommunities
  <1>1. PICK R : RootMap(parent, Nodes, R) /\ Classes(Nodes, R, links \ todo) BY DEF RingInv
  <1>2. /\ IsRoot(parent, a, R[a]) /\ \A r : IsRoot(parent, a, r) => r = R[a]
        /\ IsRoot(parent, b, R[b]) /\ \A r : IsRoot(parent, b, r) => r = R[b]
        /\ R[a] \in Nodes
    BY <1>1, NodesAreNat, RootMapIsRoot DEF RingInv
  <1>3. (\E r \in Nodes : IsRoot(parent, a, r) /\ IsRoot(parent, b, r)) <=> R[a] = R[b]
    BY <1>2
  <1>4. R[a] = R[b] <=> Connected(Nodes, a, b, links \ todo) BY <1>1 DEF Classes
  <1>5. Connected(Nodes, a, b, links \ todo) <=> Together(a, b, links \ todo)
    BY DEF Connected, Together
  <1> QED BY <1>3, <1>4, <1>5

(* On every graph of links, after every union, two customers share a root  *)
(* exactly if the pairs united so far connect them.                        *)
THEOREM RootsCorrect == Spec => []RootsAreCommunities
  <1>1. Spec => []RingInv BY RingInit, RingStep, PTL DEF Spec
  <1>2. RingInv => RootsAreCommunities BY RingInvRoots
  <1> QED BY <1>1, <1>2, PTL

----------------------------------------------------------------------------
(* RingsAreDenseCommunities.  When no pair is left, the classes of the root *)
(* map are the connected sets, and a report lists the large and dense ones. *)
Community(C) ==
    /\ C # {} /\ \A a \in C, b \in Nodes : b \in C <=> Together(a, b, links)
    /\ Cardinality(C) >= MinRingSize
    /\ Dense(Cardinality({p \in links : p[1] \in C}), Cardinality(C))

Reportable(n) ==
    /\ parent[n] = n
    /\ Cardinality(Members(n)) >= MinRingSize
    /\ Dense(Cardinality(EdgesOf(n)), Cardinality(Members(n)))

ReportInv ==
    reported => todo = {} /\ rings = {C \in SUBSET Nodes : Community(C)}

(* The members of a root are its class, and its edges start in the class.  *)
LEMMA RootsClass ==
    ASSUME RingInv, NEW R, RootMap(parent, Nodes, R), NEW r \in Nodes
    PROVE /\ Members(r) = {n \in Nodes : R[n] = r}
          /\ EdgesOf(r) = {p \in links : p[1] \in Members(r)}
  <1>1. \A n \in Nodes : /\ IsRoot(parent, n, R[n])
                         /\ \A x : IsRoot(parent, n, x) => x = R[n]
    BY NodesAreNat, RootMapIsRoot DEF RingInv
  <1>2. \A n \in Nodes : IsRoot(parent, n, r) <=> R[n] = r BY <1>1
  <1>3. Members(r) = {n \in Nodes : R[n] = r} BY <1>2 DEF Members
  <1>4. \A p \in links : p[1] \in Nodes BY EndsAreNodes DEF RingInv
  <1>5. \A p \in links : IsRoot(parent, p[1], r) <=> p[1] \in Members(r)
    BY <1>2, <1>3, <1>4
  <1> QED BY <1>3, <1>5 DEF EdgesOf

(* With every pair united, one class is one connected set.                 *)
LEMMA ClassesAreTogether ==
    ASSUME todo = {}, NEW R, Classes(Nodes, R, links \ todo),
           NEW a \in Nodes, NEW b \in Nodes
    PROVE R[a] = R[b] <=> Together(a, b, links)
  <1>1. links \ todo = links OBVIOUS
  <1> QED BY <1>1 DEF Classes, Connected, Together

LEMMA ReportedAreCommunities ==
    ASSUME RingInv, todo = {}, NEW r \in Nodes, Reportable(r)
    PROVE Members(r) \in SUBSET Nodes /\ Community(Members(r))
  <1>1. PICK R : RootMap(parent, Nodes, R) /\ Classes(Nodes, R, links \ todo) BY DEF RingInv
  <1>2. R[r] = r BY <1>1 DEF RootMap, Reportable
  <1>3. /\ Members(r) = {n \in Nodes : R[n] = r}
        /\ EdgesOf(r) = {p \in links : p[1] \in Members(r)}
    BY <1>1, RootsClass
  <1>4. Members(r) # {} BY <1>2, <1>3
  <1>5. ASSUME NEW a \in Members(r), NEW b \in Nodes
        PROVE b \in Members(r) <=> Together(a, b, links)
    <2>1. a \in Nodes /\ R[a] = r BY <1>3
    <2>2. R[a] = R[b] <=> Together(a, b, links) BY <1>1, <2>1, ClassesAreTogether
    <2>3. b \in Members(r) <=> R[b] = r BY <1>3
    <2> QED BY <2>1, <2>2, <2>3
  <1>6. Members(r) \in SUBSET Nodes BY <1>3
  <1> QED BY <1>3, <1>4, <1>5, <1>6 DEF Community, Reportable

LEMMA CommunitiesAreReported ==
    ASSUME RingInv, todo = {}, NEW C \in SUBSET Nodes, Community(C)
    PROVE \E r \in Nodes : Reportable(r) /\ C = Members(r)
  <1>1. PICK R : RootMap(parent, Nodes, R) /\ Classes(Nodes, R, links \ todo) BY DEF RingInv
  <1>2. PICK a \in C : TRUE BY DEF Community
  <1>3. a \in Nodes BY <1>2
  <1>4. R[a] \in Nodes /\ parent[R[a]] = R[a]
    BY <1>1, <1>3, NodesAreNat, RootMapIsRoot DEF RingInv
  <1>5. /\ Members(R[a]) = {n \in Nodes : R[n] = R[a]}
        /\ EdgesOf(R[a]) = {p \in links : p[1] \in Members(R[a])}
    BY <1>1, <1>4, RootsClass
  <1>6. ASSUME NEW b \in Nodes PROVE b \in C <=> b \in Members(R[a])
    <2>1. b \in C <=> Together(a, b, links) BY <1>2 DEF Community
    <2>2. R[a] = R[b] <=> Together(a, b, links) BY <1>1, <1>3, ClassesAreTogether
    <2> QED BY <1>5, <2>1, <2>2
  <1>7. C = Members(R[a])
    <2>1. C \subseteq Members(R[a]) BY <1>6
    <2>2. Members(R[a]) \subseteq C BY <1>5, <1>6
    <2> QED BY <2>1, <2>2
  <1>8. Reportable(R[a]) BY <1>4, <1>5, <1>7 DEF Reportable, Community
  <1> QED BY <1>4, <1>7, <1>8

LEMMA ReportStep == RingInv /\ ReportInv /\ [Next]_vars => ReportInv'
  <1> SUFFICES ASSUME RingInv, ReportInv, [Next]_vars, reported' PROVE ReportInv'
    BY DEF ReportInv
  <1>1. ASSUME UNCHANGED links
        PROVE {C \in SUBSET Nodes : Community(C)}' = {C \in SUBSET Nodes : Community(C)}
    BY <1>1 DEF Community, Together, Nodes
  <1>2. CASE \E p \in todo : Union(p)
    <2>1. PICK p \in todo : Union(p) BY <1>2
    <2>2. reported BY <2>1 DEF Union
    <2> QED BY <2>1, <2>2 DEF ReportInv
  <1>3. CASE Report
    <2>1. /\ todo = {} /\ todo' = {} /\ UNCHANGED links
          /\ rings' = {Members(r) : r \in {n \in Nodes : Reportable(n)}}
      BY <1>3 DEF Report, Reportable
    <2> DEFINE Listed == {Members(r) : r \in {n \in Nodes : Reportable(n)}}
               Wanted == {C \in SUBSET Nodes : Community(C)}
    <2>2. Listed \subseteq Wanted BY <2>1, ReportedAreCommunities
    <2>3. Wanted \subseteq Listed
      <3>1. ASSUME NEW C \in Wanted PROVE C \in Listed
        <4>1. C \in SUBSET Nodes /\ Community(C) OBVIOUS
        <4>2. \E r \in Nodes : Reportable(r) /\ C = Members(r)
          BY <2>1, <4>1, CommunitiesAreReported
        <4> QED BY <4>2
      <3> QED BY <3>1
    <2>4. rings' = Wanted BY <2>1, <2>2, <2>3
    <2> QED BY <1>1, <2>1, <2>4 DEF ReportInv
  <1>4. CASE UNCHANGED vars
    <2>1. UNCHANGED <<links, todo, rings, reported>> BY <1>4 DEF vars
    <2> QED BY <1>1, <2>1 DEF ReportInv
  <1> QED BY <1>2, <1>3, <1>4 DEF Next

(* Whatever the graph of links and the thresholds, the search reports every *)
(* connected set that is large and dense enough, whole, and nothing else.   *)
THEOREM RingsCorrect == Spec => []RingsAreDenseCommunities
  <1>1. Spec => []RingInv BY RingInit, RingStep, PTL DEF Spec
  <1>2. Init => ReportInv BY DEF Init, ReportInv
  <1>3. Spec => []ReportInv BY <1>1, <1>2, ReportStep, PTL DEF Spec
  <1>4. ReportInv => RingsAreDenseCommunities
    BY DEF ReportInv, Community, RingsAreDenseCommunities
  <1> QED BY <1>3, <1>4, PTL

----------------------------------------------------------------------------
(* The comparison.  What it compares: the rows kept of either side.         *)
Kept == ToSet(Deduped(new_alerts))
Walked == Deduped(legacy_alerts)

(* The alerts a legacy row may be paired with, and whether one is the best. *)
Pool(kept, map, l) == {a \in kept : a.place = l.place /\ map[a.rule] = l.rule}
Fits(a, l) == l.severity # None /\ Severity(a) = l.severity
Best(a, l, pool) ==
    \A b \in pool : /\ Fits(b, l) => Fits(a, l)
                    /\ Fits(a, l) = Fits(b, l) => a.rule <= b.rule

(* The cell of a legacy row that had this pool: the best of it, if any.     *)
Answers(cell, l, pool) ==
    /\ cell.place = l.place /\ cell.legacy = l.rule
    /\ \/ pool = {} /\ cell.class = "LEGACY_ONLY"
       \/ \E a \in pool : /\ Best(a, l, pool) /\ cell.new = a.rule
                          /\ cell.class = IF Differ(Severity(a), l.severity) THEN "DIFF" ELSE "MATCH"

PairedIn(row, n, a) ==
    \E i \in 1..n : row[i].class # "LEGACY_ONLY" /\ row[i].place = a.place /\ row[i].new = a.rule

Lone(map, a) == Cell(a.place, a.rule, map[a.rule], "NEW_ONLY")

CellShape == [place : Places, new : NewRules \cup {None}, legacy : LegacyRules \cup {None},
              class : {"LEGACY_ONLY", "NEW_ONLY", "MATCH", "DIFF"}]

InputInv ==
    /\ rule_map \in [NewRules -> LegacyRules \cup {None}]
    /\ new_alerts \in Seq(NewRows) /\ legacy_alerts \in Seq(LegacyRows)
    /\ cells \in Seq(CellShape)
    /\ DOMAIN new_index = Places \X LegacyRules

(* Both indexes hold the rows kept, by place and legacy rule.               *)
IndexInv ==
    /\ \A a \in Kept : a \in NewRows /\ a.place \in Places
    /\ \A p \in Places, r \in LegacyRules :
          /\ new_index[<<p, r>>] \in Seq(NewRows)
          /\ ToSet(new_index[<<p, r>>]) = {a \in Kept : a.place = p /\ rule_map[a.rule] = r}
    /\ ToSet(unmapped_new) = {a \in Kept : rule_map[a.rule] = None}

(* The first n cells are those of the first n legacy rows.                  *)
FrontInv(n) ==
    /\ n <= Len(cells) /\ n <= Len(Walked)
    /\ \A i \in 1..n : Answers(cells[i], Walked[i], Pool(Kept, rule_map, Walked[i]))
    /\ consumed = {a \in Kept : PairedIn(cells, n, a)}

(* The other cells are those of the new alerts that none of them took.      *)
TailInv(n) ==
    /\ \A i \in (n + 1)..Len(cells) : \E a \in Kept \ consumed : cells[i] = Lone(rule_map, a)
    /\ \A a \in Kept \ consumed : \E i \in (n + 1)..Len(cells) : cells[i] = Lone(rule_map, a)
    /\ \A i, j \in (n + 1)..Len(cells) : cells[i] = cells[j] => i = j

CompareInv ==
    /\ InputInv
    /\ phase \in {"index", "raised", "walk", "done"}
    /\ phase \in {"index", "raised"} => cells = <<>> /\ consumed = {}
    /\ phase \in {"walk", "done"} => IndexInv
    /\ phase = "walk" => /\ FrontInv(Len(cells))
                         /\ unwalked = SubSeq(Walked, Len(cells) + 1, Len(Walked))
    /\ phase = "done" => FrontInv(Len(Walked)) /\ TailInv(Len(Walked))

(* Positions in a sequence: each of a set has one rank in it.               *)
LEMMA PositionFacts ==
    ASSUME NEW n \in Nat, NEW P \in SUBSET (1..n)
    PROVE  /\ IsFiniteSet(P) /\ Cardinality(P) \in Nat
           /\ \A i \in 1..Cardinality(P) : Position(P, i) \in P
           /\ \A i, j \in 1..Cardinality(P) : Position(P, i) = Position(P, j) => i = j
           /\ \A k \in P : \E i \in 1..Cardinality(P) : Position(P, i) = k
  <1> DEFINE Below(k) == {j \in P : j <= k}
             m == Cardinality(P)
             rank == [k \in P |-> Cardinality(Below(k))]
  <1>1. IsFiniteSet(P) /\ m \in Nat
    <2>1. IsFiniteSet(1..n) BY FS_Interval
    <2> QED BY <2>1, FS_Subset, FS_CardinalityType
  <1>2. \A k \in P : IsFiniteSet(Below(k)) /\ Cardinality(Below(k)) \in Nat
    <2> SUFFICES ASSUME NEW k \in P
                 PROVE  IsFiniteSet(Below(k)) /\ Cardinality(Below(k)) \in Nat
      OBVIOUS
    <2>1. Below(k) \subseteq P OBVIOUS
    <2> HIDE DEF Below
    <2>2. IsFiniteSet(Below(k)) BY <1>1, <2>1, FS_Subset
    <2> QED BY <2>2, FS_CardinalityType
  <1>3. ASSUME NEW j \in P, NEW k \in P, j < k PROVE rank[j] < rank[k]
    <2>0. \A i \in P : i \in Int OBVIOUS
    <2>1. Below(j) \subseteq Below(k) \ {k} /\ k \in Below(k)
      <3>1. \A i \in P : i <= j => i <= k /\ i # k BY <1>3, <2>0
      <3>2. k <= k BY <2>0
      <3> QED BY <3>1, <3>2
    <2>2. IsFiniteSet(Below(k)) /\ Cardinality(Below(k)) \in Nat /\ Cardinality(Below(j)) \in Nat
      BY <1>2
    <2> HIDE DEF Below
    <2>3. /\ IsFiniteSet(Below(k) \ {k})
          /\ Cardinality(Below(k) \ {k}) = Cardinality(Below(k)) - 1
      BY <2>1, <2>2, FS_RemoveElement
    <2>4. Cardinality(Below(j)) <= Cardinality(Below(k) \ {k}) BY <2>1, <2>3, FS_Subset
    <2> QED BY <2>2, <2>3, <2>4
  <1>4. \A k \in P : rank[k] \in 1..m
    <2> SUFFICES ASSUME NEW k \in P PROVE rank[k] \in 1..m OBVIOUS
    <2>1. k \in Below(k) /\ Below(k) \subseteq P OBVIOUS
    <2>2. rank[k] \in Nat /\ rank[k] = Cardinality(Below(k)) /\ IsFiniteSet(Below(k)) BY <1>2
    <2> HIDE DEF Below, rank
    <2>3. Cardinality(Below(k)) # 0 BY <2>1, <2>2, FS_EmptySet
    <2>4. Cardinality(Below(k)) <= m BY <1>1, <2>1, FS_Subset
    <2> QED BY <1>1, <2>2, <2>3, <2>4
  <1>5. \A j, k \in P : rank[j] = rank[k] => j = k
    <2> SUFFICES ASSUME NEW j \in P, NEW k \in P, j # k PROVE rank[j] # rank[k] OBVIOUS
    <2>1. rank[j] < rank[k] \/ rank[k] < rank[j] BY <1>3
    <2>2. rank[j] \in Int /\ rank[k] \in Int BY <1>4
    <2> HIDE DEF rank
    <2> QED BY <2>1, <2>2
  <1>6. rank \in Surjection(P, 1..m)
    <2>1. rank \in Injection(P, 1..m) BY <1>4, <1>5 DEF Injection, IsInjective
    <2>2. IsFiniteSet(1..m) /\ Cardinality(1..m) = m
      <3> HIDE DEF m
      <3>1. IsFiniteSet(1..m) /\ Cardinality(1..m) = IF 1 > m THEN 0 ELSE m - 1 + 1
        BY <1>1, FS_Interval
      <3> QED BY <1>1, <3>1
    <2> HIDE DEF rank
    <2> QED BY <2>1, <2>2, FS_Injection
  <1>7. \A i \in 1..m : \E k \in P : rank[k] = i
    <2> HIDE DEF rank
    <2> QED BY <1>6 DEF Surjection
  <1>8. \A i \in 1..m : Position(P, i) \in P /\ rank[Position(P, i)] = i
    BY <1>7 DEF Position
  <1>9. \A i, j \in 1..m : Position(P, i) = Position(P, j) => i = j
    <2> HIDE DEF rank
    <2> QED BY <1>8
  <1>10. \A k \in P : \E i \in 1..m : Position(P, i) = k
    <2> SUFFICES ASSUME NEW k \in P PROVE Position(P, rank[k]) = k BY <1>4
    <2>1. rank[k] \in 1..m BY <1>4
    <2>2. Position(P, rank[k]) \in P /\ rank[Position(P, rank[k])] = rank[k] BY <1>8, <2>1
    <2> HIDE DEF rank
    <2> QED BY <1>5, <2>2
  <1> QED BY <1>1, <1>8, <1>9, <1>10

(* What a comprehension keeps, and that it repeats no position.             *)
LEMMA PickedFacts ==
    ASSUME NEW S, NEW s \in Seq(S), NEW P \in SUBSET DOMAIN s
    PROVE  /\ Picked(s, P) \in Seq(S)
           /\ ToSet(Picked(s, P)) = {s[k] : k \in P}
           /\ \A i, j \in DOMAIN Picked(s, P) :
                 \E k, l \in P : /\ Picked(s, P)[i] = s[k] /\ Picked(s, P)[j] = s[l]
                                 /\ k = l => i = j
  <1> DEFINE m == Cardinality(P)
             t == Picked(s, P)
  <1>1. Len(s) \in Nat /\ DOMAIN s = 1..Len(s) /\ \A k \in DOMAIN s : s[k] \in S OBVIOUS
  <1>2. /\ m \in Nat
        /\ \A i \in 1..m : Position(P, i) \in P
        /\ \A i, j \in 1..m : Position(P, i) = Position(P, j) => i = j
        /\ \A k \in P : \E i \in 1..m : Position(P, i) = k
    BY ZenonT(30), <1>1, PositionFacts
  <1>3. t = [i \in 1..m |-> s[Position(P, i)]] BY DEF Picked
  <1> HIDE DEF m, t
  <1>4. t \in [1..m -> S] BY <1>1, <1>2, <1>3
  <1>5. t \in Seq(S) /\ DOMAIN t = 1..m BY <1>2, <1>4
  <1>6. ToSet(t) = {s[k] : k \in P}
    <2>1. ToSet(t) = {s[Position(P, i)] : i \in 1..m} BY <1>3, <1>5 DEF ToSet
    <2> QED BY <1>2, <2>1
  <1>7. ASSUME NEW i \in DOMAIN t, NEW j \in DOMAIN t
        PROVE  \E k, l \in P : t[i] = s[k] /\ t[j] = s[l] /\ (k = l => i = j)
    <2>1. i \in 1..m /\ j \in 1..m BY <1>5
    <2>2. t[i] = s[Position(P, i)] /\ t[j] = s[Position(P, j)] BY <1>3, <2>1
    <2> QED BY <1>2, <2>1, <2>2
  <1> QED BY <1>5, <1>6, <1>7 DEF t

(* Of the rows of a cell the first stays, and no other.                     *)
LEMMA DedupedFacts ==
    ASSUME NEW S, NEW rows \in Seq(S)
    PROVE  /\ Deduped(rows) \in Seq(S)
           /\ ToSet(Deduped(rows)) \subseteq ToSet(rows)
           /\ \A i, j \in DOMAIN Deduped(rows) :
                 /\ Deduped(rows)[i].place = Deduped(rows)[j].place
                 /\ Deduped(rows)[i].rule = Deduped(rows)[j].rule
                 => i = j
           /\ \A r \in ToSet(rows) : \E k \in ToSet(Deduped(rows)) :
                 k.place = r.place /\ k.rule = r.rule
  <1> DEFINE Same(i, j) == rows[j].place = rows[i].place /\ rows[j].rule = rows[i].rule
             P == {i \in DOMAIN rows : \A j \in 1..(i - 1) :
                      <<rows[j].place, rows[j].rule>> # <<rows[i].place, rows[i].rule>>}
             d == Deduped(rows)
  <1>1. d = Picked(rows, P) BY DEF Deduped
  <1>2. P \subseteq DOMAIN rows /\ Len(rows) \in Nat /\ DOMAIN rows = 1..Len(rows) OBVIOUS
  <1>3. \A i \in P : \A j \in 1..(i - 1) : ~Same(i, j) OBVIOUS
  <1>4. \A i \in DOMAIN rows : (\A j \in 1..(i - 1) : ~Same(i, j)) => i \in P OBVIOUS
  <1> HIDE DEF P, d
  <1>5. /\ d \in Seq(S) /\ ToSet(d) = {rows[k] : k \in P}
        /\ \A i, j \in DOMAIN d : \E k, l \in P : d[i] = rows[k] /\ d[j] = rows[l] /\ (k = l => i = j)
    BY <1>1, <1>2, PickedFacts
  <1>6. ASSUME NEW k \in P, NEW l \in P, Same(k, l) PROVE k = l
    <2>1. k \in 1..Len(rows) /\ l \in 1..Len(rows) /\ Same(l, k) BY <1>2, <1>6
    <2>2. ~(l < k) BY <1>3, <1>6, <2>1
    <2>3. ~(k < l) BY <1>3, <2>1
    <2> QED BY <2>1, <2>2, <2>3
  <1>7. ASSUME NEW i \in DOMAIN d, NEW j \in DOMAIN d, d[i].place = d[j].place, d[i].rule = d[j].rule
        PROVE  i = j
    <2>1. PICK k \in P, l \in P : d[i] = rows[k] /\ d[j] = rows[l] /\ (k = l => i = j) BY <1>5
    <2>2. Same(k, l) BY <1>7, <2>1
    <2> QED BY <1>6, <2>1, <2>2
  <1>8. ASSUME NEW r \in ToSet(rows)
        PROVE  \E k \in ToSet(d) : k.place = r.place /\ k.rule = r.rule
    <2>1. PICK n \in DOMAIN rows : r = rows[n] BY DEF ToSet
    <2> DEFINE A == {i \in DOMAIN rows : Same(n, i)}
    <2>2. A \in SUBSET Nat /\ n \in A BY <1>2
    <2>3. A # {} BY <2>2
    <2>4. \A i \in DOMAIN rows : i \in A <=> Same(n, i) OBVIOUS
    <2>5. PICK f \in A : \A i \in A : f <= i
      <3> HIDE DEF A
      <3> QED BY <2>2, <2>3, LeastOfASet
    <2>6. f \in 1..Len(rows) /\ Same(n, f) BY <1>2
    <2> HIDE DEF A
    <2>7. \A j \in 1..(f - 1) : ~Same(f, j)
      <3> SUFFICES ASSUME NEW j \in 1..(f - 1), Same(f, j) PROVE FALSE OBVIOUS
      <3>1. j \in DOMAIN rows /\ j < f BY <1>2, <2>6
      <3>2. Same(n, j) BY <2>6
      <3>3. f <= j BY <2>4, <2>5, <3>1, <3>2
      <3> QED BY <2>6, <3>1, <3>3
    <2>8. f \in P BY <1>2, <1>4, <2>6, <2>7
    <2>9. rows[f] \in ToSet(d) BY <1>5, <2>8
    <2> QED BY <2>1, <2>6, <2>9
  <1>9. ToSet(d) \subseteq ToSet(rows) BY <1>2, <1>5 DEF ToSet
  <1> QED BY <1>5, <1>7, <1>8, <1>9 DEF d

(* The kept rows of a condition are those of the set that meet it.          *)
LEMMA PickedIf ==
    ASSUME NEW S, NEW s \in Seq(S), NEW P \in SUBSET DOMAIN s, NEW T \in SUBSET ToSet(s),
           \A i \in DOMAIN s : i \in P <=> s[i] \in T
    PROVE  Picked(s, P) \in Seq(S) /\ ToSet(Picked(s, P)) = T
  <1>1. Picked(s, P) \in Seq(S) /\ ToSet(Picked(s, P)) = {s[k] : k \in P} BY PickedFacts
  <1>2. {s[k] : k \in P} = T BY DEF ToSet
  <1> QED BY <1>1, <1>2

(* The rows kept of either side: one for each key, and a key for each row.  *)
LEMMA KeptFacts ==
    ASSUME InputInv
    PROVE  /\ Kept \subseteq News
           /\ \A a, b \in Kept : a.place = b.place /\ a.rule = b.rule => a = b
           /\ \A a \in News : \E k \in Kept : k.place = a.place /\ k.rule = a.rule
           /\ IsFiniteSet(Kept)
  <1>1. new_alerts \in Seq(NewRows) BY DEF InputInv
  <1> DEFINE d == Deduped(new_alerts)
  <1>2. /\ d \in Seq(NewRows) /\ ToSet(d) \subseteq ToSet(new_alerts)
        /\ \A i, j \in DOMAIN d : d[i].place = d[j].place /\ d[i].rule = d[j].rule => i = j
        /\ \A r \in ToSet(new_alerts) : \E k \in ToSet(d) : k.place = r.place /\ k.rule = r.rule
    BY <1>1, DedupedFacts
  <1>3. Kept = ToSet(d) BY DEF Kept
  <1> HIDE DEF d
  <1>4. ToSet(d) = {d[i] : i \in DOMAIN d} BY DEF ToSet
  <1>5. \A a, b \in Kept : a.place = b.place /\ a.rule = b.rule => a = b BY <1>2, <1>3, <1>4
  <1>6. IsFiniteSet(Kept)
    <2>1. Len(d) \in Nat /\ DOMAIN d = 1..Len(d) BY <1>2
    <2>2. IsFiniteSet(DOMAIN d)
      <3> DEFINE m == Len(d)
      <3>1. m \in Nat /\ DOMAIN d = 1..m BY <2>1
      <3> HIDE DEF m
      <3> QED BY <3>1, FS_Interval
    <2> DEFINE f == [i \in DOMAIN d |-> d[i]]
    <2>3. f \in Surjection(DOMAIN d, Kept)
      BY <1>3, <1>4 DEF Surjection
    <2> HIDE DEF f
    <2> QED BY <2>2, <2>3, FS_Surjection
  <1> QED BY <1>2, <1>3, <1>5, <1>6 DEF News

LEMMA WalkedFacts ==
    ASSUME InputInv
    PROVE  /\ Walked \in Seq(LegacyRows)
           /\ \A i \in 1..Len(Walked) : Walked[i] \in LegacyRows /\ Walked[i] \in Legacies
           /\ \A i, j \in 1..Len(Walked) :
                 Walked[i].place = Walked[j].place /\ Walked[i].rule = Walked[j].rule => i = j
           /\ \A l \in Legacies : \E i \in 1..Len(Walked) :
                 Walked[i].place = l.place /\ Walked[i].rule = l.rule
  <1>1. legacy_alerts \in Seq(LegacyRows) BY DEF InputInv
  <1> DEFINE d == Walked
  <1>2. /\ d \in Seq(LegacyRows) /\ ToSet(d) \subseteq ToSet(legacy_alerts)
        /\ \A i, j \in DOMAIN d : d[i].place = d[j].place /\ d[i].rule = d[j].rule => i = j
        /\ \A r \in ToSet(legacy_alerts) : \E k \in ToSet(d) : k.place = r.place /\ k.rule = r.rule
    BY <1>1, DedupedFacts DEF Walked
  <1> HIDE DEF d
  <1>3. ToSet(d) = {d[i] : i \in DOMAIN d} BY DEF ToSet
  <1>4. DOMAIN d = 1..Len(d) /\ \A i \in 1..Len(d) : d[i] \in LegacyRows BY <1>2
  <1> QED BY <1>2, <1>3, <1>4 DEF Legacies, d

(* Of the alerts a legacy row may have, it is given the best.               *)
LEMMA PairedIsBest ==
    ASSUME NEW left, NEW l, ToSet(left) # {}, \A a \in ToSet(left) : a.rule \in Nat
    PROVE  Paired(left, l) \in ToSet(left) /\ Best(Paired(left, l), l, ToSet(left))
  <1> DEFINE all == ToSet(left)
             agreeing == {a \in all : Fits(a, l)}
             pool == IF agreeing = {} THEN all ELSE agreeing
  <1>1. Paired(left, l) = CHOOSE a \in pool : \A b \in pool : a.rule <= b.rule
    BY DEF Paired, Fits
  <1>2. pool # {} /\ pool \subseteq all OBVIOUS
  <1>3. \E a \in pool : \A b \in pool : a.rule <= b.rule
    <2> DEFINE R == {a.rule : a \in pool}
    <2>1. R \in SUBSET Nat /\ R # {} BY <1>2
    <2> HIDE DEF R
    <2>2. PICK r \in R : \A m \in R : r <= m BY <2>1, LeastOfASet
    <2> QED BY <2>2 DEF R
  <1>4. \A a \in all : a \in agreeing <=> Fits(a, l) OBVIOUS
  <1>5. \/ pool = all /\ \A a \in all : ~Fits(a, l)
        \/ pool = agreeing
    OBVIOUS
  <1> DEFINE p == Paired(left, l)
  <1> HIDE DEF pool
  <1>6. p \in pool /\ \A b \in pool : p.rule <= b.rule BY <1>1, <1>3
  <1> HIDE DEF p, agreeing
  <1>7. p \in all BY <1>2, <1>6
  <1>8. Best(p, l, all)
    <2> HIDE DEF all
    <2>1. CASE pool = all /\ \A a \in all : ~Fits(a, l) BY <1>6, <1>7, <2>1 DEF Best
    <2>2. CASE pool = agreeing
      <3>1. Fits(p, l) BY <1>4, <1>6, <1>7, <2>2
      <3> QED BY <1>4, <1>6, <2>2, <3>1 DEF Best
    <2> QED BY <1>5, <2>1, <2>2
  <1> QED BY <1>7, <1>8 DEF p

(* Who is in a cell of the front: the one of his key.                       *)
LEMMA PairedWith ==
    ASSUME InputInv, NEW n \in Nat, FrontInv(n), NEW i \in 1..n, NEW a \in Kept,
           cells[i].class # "LEGACY_ONLY", cells[i].place = a.place, cells[i].new = a.rule
    PROVE  Walked[i].place = a.place /\ Walked[i].rule = rule_map[a.rule]
  <1>1. Answers(cells[i], Walked[i], Pool(Kept, rule_map, Walked[i])) BY DEF FrontInv
  <1>2. PICK b \in Pool(Kept, rule_map, Walked[i]) : cells[i].new = b.rule BY <1>1 DEF Answers
  <1>3. b \in Kept /\ b.place = Walked[i].place /\ rule_map[b.rule] = Walked[i].rule BY <1>2 DEF Pool
  <1>4. cells[i].place = Walked[i].place BY <1>1 DEF Answers
  <1>5. b = a BY ZenonT(30), <1>2, <1>3, <1>4, KeptFacts
  <1> QED BY <1>3, <1>5

(* A legacy row walked: none of its alerts has gone to another row.         *)
LEMMA WalkKeeps == CompareInv /\ Walk => CompareInv'
  <1> SUFFICES ASSUME CompareInv, Walk PROVE CompareInv'
    OBVIOUS
  <1> DEFINE n == Len(cells)
             l == Walked[n + 1]
             pool == Pool(Kept, rule_map, l)
             candidates == new_index[<<l.place, l.rule>>]
             places == {i \in DOMAIN candidates : candidates[i] \notin consumed}
             left == Picked(candidates, places)
  <1>1. /\ InputInv /\ IndexInv /\ FrontInv(n) /\ phase = "walk"
        /\ unwalked = SubSeq(Walked, n + 1, Len(Walked)) /\ unwalked # <<>>
    BY DEF CompareInv, Walk
  <1>2. n \in Nat /\ cells \in Seq(CellShape) /\ Walked \in Seq(LegacyRows) /\ Len(Walked) \in Nat
    BY <1>1, WalkedFacts DEF InputInv
  <1>3. n + 1 <= Len(Walked)
    BY <1>1, <1>2
  <1>4. Head(unwalked) = l /\ Tail(unwalked) = SubSeq(Walked, n + 2, Len(Walked))
    BY <1>1, <1>2, <1>3
  <1>5. l \in LegacyRows /\ l.place \in Places /\ l.rule \in LegacyRules
    <2>1. n + 1 \in 1..Len(Walked) BY <1>2, <1>3
    <2>2. l \in LegacyRows BY <1>1, <2>1, WalkedFacts
    <2> HIDE DEF l
    <2> QED BY <2>2 DEF LegacyRows
  <1>6. candidates \in Seq(NewRows) /\ ToSet(candidates) = pool
    BY <1>1, <1>5 DEF IndexInv, Pool
  <1>7. \A a \in pool : a \in Kept /\ a.place = l.place /\ rule_map[a.rule] = l.rule
    BY DEF Pool
  <1>8. \A a \in pool : a \notin consumed
    <2> SUFFICES ASSUME NEW a \in pool, a \in consumed PROVE FALSE
      OBVIOUS
    <2>1. a \in Kept /\ PairedIn(cells, n, a) BY <1>1 DEF FrontInv
    <2>2. PICK i \in 1..n : cells[i].class # "LEGACY_ONLY" /\ cells[i].place = a.place /\ cells[i].new = a.rule
      BY <2>1 DEF PairedIn
    <2> HIDE DEF n
    <2>3. Walked[i].place = a.place /\ Walked[i].rule = rule_map[a.rule]
      BY <1>1, <1>2, <2>1, <2>2, PairedWith
    <2>4. i \in 1..Len(Walked) /\ n + 1 \in 1..Len(Walked) /\ i # n + 1 BY <1>2, <1>3
    <2> HIDE DEF l
    <2>5. Walked[i].place = l.place /\ Walked[i].rule = l.rule BY <1>7, <2>3
    <2> QED BY <1>1, <2>4, <2>5, WalkedFacts DEF l
  <1> HIDE DEF candidates, l, n, pool
  <1>9. ToSet(left) = pool /\ left \in Seq(NewRows)
    <2>1. \A i \in DOMAIN candidates : i \in places <=> candidates[i] \in pool
      BY <1>6, <1>8 DEF ToSet
    <2>2. places \in SUBSET DOMAIN candidates OBVIOUS
    <2> HIDE DEF places
    <2> QED BY <1>6, <2>1, <2>2, PickedIf
  <1>10. left = <<>> <=> pool = {}
    <2> HIDE DEF left
    <2>1. ToSet(left) = {left[i] : i \in 1..Len(left)} /\ Len(left) \in Nat BY <1>9 DEF ToSet
    <2>2. left = <<>> <=> Len(left) = 0 BY <1>9
    <2> QED BY <1>9, <2>1, <2>2
  <1>11. /\ IF left = <<>>
            THEN /\ cells' = Append(cells, Cell(l.place, Attribution(l), l.rule, "LEGACY_ONLY"))
                 /\ consumed' = consumed
            ELSE LET a == Paired(left, l) IN
                 /\ cells' = Append(cells, Cell(l.place, a.rule, l.rule,
                        IF Differ(Severity(a), l.severity) THEN "DIFF" ELSE "MATCH"))
                 /\ consumed' = consumed \cup {a}
         /\ unwalked' = Tail(unwalked)
         /\ UNCHANGED <<rule_map, new_alerts, legacy_alerts, new_index, unmapped_new, phase>>
    BY <1>4 DEF Walk, inputs, candidates
  <1> HIDE DEF left, places
  <1>12. Kept' = Kept /\ Walked' = Walked BY <1>11 DEF Kept, Walked
  <1>13. PICK c \in CellShape :
           /\ cells' = Append(cells, c) /\ Answers(c, l, pool)
           /\ consumed' = consumed \cup {a \in Kept : /\ c.class # "LEGACY_ONLY"
                                                      /\ c.place = a.place /\ c.new = a.rule}
    <2>1. CASE left = <<>>
      <3> DEFINE c == Cell(l.place, Attribution(l), l.rule, "LEGACY_ONLY")
      <3>1. Attribution(l) \in NewRules \cup {None}
        <4> DEFINE C == {x \in NewRules : rule_map[x] = l.rule}
        <4>1. Attribution(l) = IF Cardinality(C) = 1 THEN CHOOSE x \in C : TRUE ELSE None
          BY DEF Attribution
        <4>2. C \subseteq NewRules OBVIOUS
        <4> HIDE DEF C
        <4>3. Cardinality(C) = 1 => C # {} BY FS_EmptySet
        <4> QED BY <4>1, <4>2, <4>3
      <3>2. c \in CellShape BY <1>5, <3>1 DEF Cell, CellShape
      <3>3. c.place = l.place /\ c.legacy = l.rule /\ c.class = "LEGACY_ONLY" BY DEF Cell
      <3>4. cells' = Append(cells, c) /\ consumed' = consumed BY <1>11, <2>1
      <3> HIDE DEF c
      <3>5. Answers(c, l, pool) BY <1>10, <2>1, <3>3 DEF Answers
      <3> QED BY <3>2, <3>3, <3>4, <3>5
    <2>2. CASE left # <<>>
      <3> DEFINE a == Paired(left, l)
                 class == IF Differ(Severity(a), l.severity) THEN "DIFF" ELSE "MATCH"
                 c == Cell(l.place, a.rule, l.rule, class)
      <3>1. \A x \in pool : x \in NewRows /\ x.rule \in NewRules /\ x.rule \in Nat
        BY <1>1, <1>7, RulesAssumption DEF IndexInv, NewRows
      <3>2. a \in pool /\ Best(a, l, pool)
        BY <1>9, <1>10, <2>2, <3>1, PairedIsBest
      <3>3. cells' = Append(cells, c) /\ consumed' = consumed \cup {a} BY <1>11, <2>2
      <3> HIDE DEF a
      <3>4. c \in CellShape /\ c.place = l.place /\ c.legacy = l.rule /\ c.new = a.rule /\ c.class = class
        BY <1>5, <3>1, <3>2 DEF Cell, CellShape
      <3>5. class # "LEGACY_ONLY" OBVIOUS
      <3> HIDE DEF c
      <3>6. Answers(c, l, pool) BY <3>2, <3>4 DEF Answers
      <3> HIDE DEF class
      <3>7. {x \in Kept : c.class # "LEGACY_ONLY" /\ c.place = x.place /\ c.new = x.rule} = {a}
        <4>1. a \in Kept /\ a.place = l.place BY <1>7, <3>2
        <4>2. \A x \in Kept : x.place = a.place /\ x.rule = a.rule => x = a BY <1>1, <4>1, KeptFacts
        <4> QED BY <3>4, <3>5, <4>1, <4>2
      <3> QED BY <3>3, <3>4, <3>6, <3>7
    <2> QED BY <2>1, <2>2
  <1>14. /\ Len(cells') = n + 1 /\ cells'[n + 1] = c /\ cells' \in Seq(CellShape)
         /\ \A i \in 1..n : cells'[i] = cells[i]
    BY <1>2, <1>13 DEF n
  <1>15. InputInv' BY <1>1, <1>11, <1>14 DEF InputInv
  <1>16. IndexInv' BY <1>1, <1>11, <1>12 DEF IndexInv
  <1>17. \A i \in 1..(n + 1) : Answers(cells'[i], Walked[i], Pool(Kept, rule_map, Walked[i]))
    <2>1. \A i \in 1..n : Answers(cells[i], Walked[i], Pool(Kept, rule_map, Walked[i])) BY <1>1 DEF FrontInv
    <2>2. Answers(cells'[n + 1], Walked[n + 1], Pool(Kept, rule_map, Walked[n + 1]))
      BY <1>13, <1>14 DEF l, pool
    <2>3. \A i \in 1..(n + 1) : i \in 1..n \/ i = n + 1 BY <1>2
    <2> QED BY <1>14, <2>1, <2>2, <2>3
  <1>18. consumed' = {a \in Kept : PairedIn(cells', n + 1, a)}
    <2>1. consumed = {a \in Kept : PairedIn(cells, n, a)} BY <1>1 DEF FrontInv
    <2>2. \A a : PairedIn(cells', n + 1, a) <=>
             \/ PairedIn(cells, n, a)
             \/ c.class # "LEGACY_ONLY" /\ c.place = a.place /\ c.new = a.rule
      <3>1. \A i : i \in 1..(n + 1) <=> i \in 1..n \/ i = n + 1 BY <1>2
      <3> QED BY <1>14, <3>1 DEF PairedIn
    <2> QED BY <1>13, <2>1, <2>2
  <1>20. FrontInv(Len(cells))'
    <2>1. n + 1 <= Len(cells') /\ n + 1 <= Len(Walked') BY <1>2, <1>3, <1>12, <1>14
    <2>2. \A i \in 1..(n + 1) :
             Answers(cells'[i], Walked'[i], Pool(Kept', rule_map', Walked'[i]))
      BY <1>11, <1>12, <1>17
    <2>3. consumed' = {a \in Kept' : PairedIn(cells', n + 1, a)} BY <1>12, <1>18
    <2> QED BY <1>14, <2>1, <2>2, <2>3 DEF FrontInv
  <1>21. unwalked' = SubSeq(Walked', Len(cells') + 1, Len(Walked'))
    BY <1>2, <1>4, <1>11, <1>12, <1>14
  <1> QED BY <1>1, <1>11, <1>15, <1>16, <1>20, <1>21 DEF CompareInv

(* A set laid out: each element has one position.                           *)
LEMMA LaidOut ==
    ASSUME NEW S, IsFiniteSet(S)
    PROVE  /\ SetToSeq(S) \in Seq(S)
           /\ \A i, j \in 1..Len(SetToSeq(S)) : SetToSeq(S)[i] = SetToSeq(S)[j] => i = j
           /\ \A a \in S : \E i \in 1..Len(SetToSeq(S)) : SetToSeq(S)[i] = a
  <1> DEFINE m == Cardinality(S)
             t == SetToSeq(S)
  <1>1. m \in Nat BY FS_CardinalityType
  <1>2. PICK g : g \in Bijection(1..m, S) BY FS_CardinalityType DEF ExistsBijection
  <1>3. g \in [1..m -> S] /\ IsInjective(g)
    <2> HIDE DEF m
    <2> QED BY <1>2 DEF Bijection, Injection, IsInjective
  <1>4. t = CHOOSE f \in [1..m -> S] : IsInjective(f) BY DEF SetToSeq
  <1> HIDE DEF t
  <1>5. t \in [1..m -> S] /\ IsInjective(t) BY <1>3, <1>4
  <1>6. IsFiniteSet(1..m) /\ Cardinality(1..m) = m
    <2> HIDE DEF m
    <2>1. IsFiniteSet(1..m) /\ Cardinality(1..m) = IF 1 > m THEN 0 ELSE m - 1 + 1
      BY <1>1, FS_Interval
    <2> QED BY <1>1, <2>1
  <1>7. t \in Surjection(1..m, S)
    <2>1. t \in Injection(1..m, S) BY <1>5 DEF Injection, IsInjective
    <2> QED BY <1>6, <2>1, FS_Injection
  <1> HIDE DEF m
  <1>8. t \in Seq(S) /\ Len(t) = m BY <1>1, <1>5
  <1>9. \A i, j \in 1..m : t[i] = t[j] => i = j BY <1>5 DEF IsInjective
  <1>10. \A a \in S : \E i \in 1..m : t[i] = a BY <1>7 DEF Surjection
  <1> QED BY <1>8, <1>9, <1>10 DEF t

LEMMA CompareStart == CompareInit => CompareInv
  <1> SUFFICES ASSUME CompareInit PROVE CompareInv
    OBVIOUS
  <1>1. new_alerts \in Seq(NewRows) /\ legacy_alerts \in Seq(LegacyRows)
    BY SMTT(20) DEF CompareInit, SeqOf
  <1>2. InputInv BY <1>1 DEF CompareInit, InputInv
  <1> QED BY <1>2 DEF CompareInit, CompareInv

LEMMA IndexKeeps == CompareInv /\ Index => CompareInv'
  <1> SUFFICES ASSUME CompareInv, Index PROVE CompareInv'
    OBVIOUS
  <1>1. /\ InputInv /\ phase = "index" /\ cells = <<>> /\ consumed = {}
        /\ UNCHANGED <<rule_map, new_alerts, legacy_alerts, consumed, cells>>
    BY DEF CompareInv, Index, inputs
  <1>2. Kept' = Kept /\ Walked' = Walked BY <1>1 DEF Kept, Walked
  <1>3. CASE \E i \in DOMAIN new_alerts : new_alerts[i].place = NoPlace
    <2>1. phase' = "raised" /\ new_index' = new_index BY <1>3 DEF Index
    <2>2. InputInv' BY <1>1, <2>1 DEF InputInv
    <2> QED BY <1>1, <2>1, <2>2 DEF CompareInv
  <1>4. CASE ~ \E i \in DOMAIN new_alerts : new_alerts[i].place = NoPlace
    <2> DEFINE kept == Deduped(new_alerts)
               In(p, r) == {i \in DOMAIN kept : kept[i].place = p /\ rule_map[kept[i].rule] = r}
               out == {i \in DOMAIN kept : rule_map[kept[i].rule] = None}
    <2>1. /\ new_index' = [k \in DOMAIN new_index |-> Picked(kept, In(k[1], k[2]))]
          /\ unmapped_new' = Picked(kept, out)
          /\ unwalked' = Walked /\ phase' = "walk"
      BY <1>4 DEF Index, Walked
    <2>2. kept \in Seq(NewRows) /\ ToSet(kept) = Kept
      BY <1>1, DedupedFacts DEF InputInv, Kept
    <2>3. \A a \in Kept : a \in NewRows /\ a.place \in Places
      <3> SUFFICES ASSUME NEW a \in Kept PROVE a \in NewRows /\ a.place \in Places
        OBVIOUS
      <3>1. a \in News BY <1>1, KeptFacts
      <3>2. PICK i \in DOMAIN new_alerts : a = new_alerts[i] BY <3>1 DEF News, ToSet
      <3>3. a \in NewRows /\ a.place # NoPlace BY <1>1, <1>4, <3>2 DEF InputInv
      <3> QED BY <3>3 DEF NewRows
    <2>4. ASSUME NEW p \in Places, NEW r \in LegacyRules
          PROVE  /\ new_index'[<<p, r>>] \in Seq(NewRows)
                 /\ ToSet(new_index'[<<p, r>>]) = {a \in Kept : a.place = p /\ rule_map[a.rule] = r}
      <3> DEFINE T == {a \in Kept : a.place = p /\ rule_map[a.rule] = r}
      <3>1. new_index'[<<p, r>>] = Picked(kept, In(p, r)) BY <1>1, <2>1 DEF InputInv
      <3>2. In(p, r) \in SUBSET DOMAIN kept /\ T \in SUBSET ToSet(kept) BY <2>2
      <3>3. \A i \in DOMAIN kept : kept[i] \in Kept BY <2>2 DEF ToSet
      <3> HIDE DEF kept
      <3>4. \A i \in DOMAIN kept : i \in In(p, r) <=> kept[i] \in T BY <3>3
      <3> HIDE DEF T, In
      <3>5. Picked(kept, In(p, r)) \in Seq(NewRows) /\ ToSet(Picked(kept, In(p, r))) = T
        BY <2>2, <3>2, <3>4, PickedIf
      <3>6. new_index'[<<p, r>>] \in Seq(NewRows) /\ ToSet(new_index'[<<p, r>>]) = T
        BY <3>1, <3>5
      <3> QED BY <3>6 DEF T
    <2>5. ToSet(unmapped_new') = {a \in Kept : rule_map[a.rule] = None}
      <3> DEFINE T == {a \in Kept : rule_map[a.rule] = None}
      <3>2. out \in SUBSET DOMAIN kept /\ T \in SUBSET ToSet(kept) BY <2>2
      <3>3. \A i \in DOMAIN kept : kept[i] \in Kept BY <2>2 DEF ToSet
      <3> HIDE DEF kept
      <3>4. \A i \in DOMAIN kept : i \in out <=> kept[i] \in T BY <3>3
      <3> HIDE DEF T, out
      <3> QED BY ZenonT(30), <2>1, <2>2, <3>2, <3>4, PickedIf DEF T
    <2>6. InputInv' BY <1>1, <2>1 DEF InputInv
    <2>7. IndexInv' BY <1>1, <1>2, <2>3, <2>4, <2>5 DEF IndexInv
    <2>8. Len(cells') = 0 BY <1>1
    <2>9. Walked \in Seq(LegacyRows) /\ Len(Walked) \in Nat BY <1>1, WalkedFacts
    <2>10. FrontInv(Len(cells))'
      <3>1. \A i \in 1..0 : FALSE OBVIOUS
      <3>2. ~ \E a : PairedIn(cells', 0, a) BY <3>1 DEF PairedIn
      <3> QED BY <1>1, <1>2, <2>8, <2>9, <3>1, <3>2 DEF FrontInv
    <2>11. unwalked' = SubSeq(Walked', Len(cells') + 1, Len(Walked'))
      BY <1>2, <2>1, <2>8, <2>9
    <2> QED BY <2>1, <2>6, <2>7, <2>10, <2>11 DEF CompareInv
  <1> QED BY <1>3, <1>4

(* The rest of the cells: the new alerts that no legacy row took.           *)
LEMMA RestKeeps == CompareInv /\ Rest => CompareInv'
  <1> SUFFICES ASSUME CompareInv, Rest PROVE CompareInv'
    OBVIOUS
  <1> DEFINE n == Len(Walked)
             spare == {a \in UNION {ToSet(new_index[k]) : k \in DOMAIN new_index} : a \notin consumed}
             over == Kept \ consumed
             S == {Lone(rule_map, a) : a \in over}
             tail == SetToSeq(S)
  <1>1. /\ InputInv /\ IndexInv /\ FrontInv(Len(cells)) /\ phase = "walk"
        /\ SubSeq(Walked, Len(cells) + 1, n) = <<>>
    BY DEF CompareInv, Rest
  <1>2. /\ cells' = cells \o SetToSeq({Lone(rule_map, a) : a \in spare \cup ToSet(unmapped_new)})
        /\ phase' = "done"
        /\ UNCHANGED <<rule_map, new_alerts, legacy_alerts, new_index, unmapped_new, unwalked, consumed>>
    BY DEF Rest, Lone, inputs
  <1>3. Kept' = Kept /\ Walked' = Walked BY <1>2 DEF Kept, Walked
  <1>4. Len(cells) \in Nat /\ cells \in Seq(CellShape) /\ Walked \in Seq(LegacyRows) /\ n \in Nat
    BY <1>1, WalkedFacts DEF InputInv
  <1>5. Len(cells) = n
    <2> DEFINE k == Len(cells)
    <2>1. k \in Nat /\ k <= n BY <1>1, <1>4 DEF FrontInv
    <2>2. ASSUME k < n PROVE FALSE
      <3> HIDE DEF k
      <3>1. Len(SubSeq(Walked, k + 1, Len(Walked))) # 0 BY <1>4, <2>1, <2>2
      <3>2. SubSeq(Walked, k + 1, Len(Walked)) = <<>> BY <1>1 DEF k
      <3> QED BY <3>1, <3>2
    <2> HIDE DEF n, k
    <2>3. k = n BY <1>4, <2>1, <2>2
    <2> QED BY <2>3 DEF k
  <1>6. consumed = {a \in Kept : PairedIn(cells, n, a)} BY <1>1, <1>5 DEF FrontInv
  <1>7. \A a \in Kept : a.place \in Places /\ a.rule \in NewRules /\ rule_map[a.rule] \in LegacyRules \cup {None}
    BY <1>1 DEF IndexInv, InputInv, NewRows
  <1>8. ASSUME NEW a \in consumed PROVE rule_map[a.rule] \in LegacyRules
    <2>1. a \in Kept /\ PairedIn(cells, n, a) BY <1>6
    <2>2. PICK i \in 1..n : cells[i].class # "LEGACY_ONLY" /\ cells[i].place = a.place /\ cells[i].new = a.rule
      BY <2>1 DEF PairedIn
    <2>3. Walked[i].rule = rule_map[a.rule] /\ Walked[i] \in LegacyRows
      <3> HIDE DEF n
      <3>1. FrontInv(n) BY <1>1, <1>5
      <3>2. Walked[i].rule = rule_map[a.rule] BY <1>1, <1>4, <2>1, <2>2, <3>1, PairedWith
      <3> QED BY <1>1, <3>2, WalkedFacts DEF n
    <2> QED BY <2>3 DEF LegacyRows
  <1>9. spare \cup ToSet(unmapped_new) = over
    <2>1. \A a \in ToSet(unmapped_new) : a \in over
      BY <1>1, <1>8, MarkersAssumption DEF IndexInv
    <2>2. \A a \in spare : a \in over
      <3> SUFFICES ASSUME NEW k \in DOMAIN new_index, NEW a \in ToSet(new_index[k]) PROVE a \in Kept
        OBVIOUS
      <3>1. PICK p \in Places, r \in LegacyRules : k = <<p, r>> BY <1>1 DEF InputInv
      <3> QED BY <1>1, <3>1 DEF IndexInv
    <2>3. ASSUME NEW a \in over, a \notin ToSet(unmapped_new) PROVE a \in spare
      <3>1. a \in Kept /\ a \notin consumed OBVIOUS
      <3>2. rule_map[a.rule] \in LegacyRules BY <1>1, <1>7, <2>3, <3>1 DEF IndexInv
      <3> DEFINE k == <<a.place, rule_map[a.rule]>>
      <3>3. k \in DOMAIN new_index BY <1>1, <1>7, <3>1, <3>2 DEF InputInv
      <3>4. a \in ToSet(new_index[k]) BY <1>1, <1>7, <3>1, <3>2 DEF IndexInv
      <3> HIDE DEF k
      <3> QED BY <3>1, <3>3, <3>4
    <2> HIDE DEF spare, over
    <2> QED BY <2>1, <2>2, <2>3
  <1> HIDE DEF n, spare
  <1>10. cells' = cells \o tail BY <1>2, <1>9
  <1>11. IsFiniteSet(S)
    <2>1. IsFiniteSet(Kept) BY <1>1, KeptFacts
    <2>2. IsFiniteSet(over)
      <3>1. over \subseteq Kept OBVIOUS
      <3> HIDE DEF over
      <3> QED BY <2>1, <3>1, FS_Subset
    <2> DEFINE f == [a \in over |-> Lone(rule_map, a)]
    <2>3. f \in Surjection(over, S) BY DEF Surjection
    <2> HIDE DEF f, over, S
    <2> QED BY <2>2, <2>3, FS_Surjection
  <1>12. S \subseteq CellShape BY <1>7 DEF Lone, Cell, CellShape
  <1>13. /\ tail \in Seq(S)
         /\ \A i, j \in 1..Len(tail) : tail[i] = tail[j] => i = j
         /\ \A a \in S : \E i \in 1..Len(tail) : tail[i] = a
    <2> HIDE DEF S
    <2> QED BY <1>11, LaidOut
  <1> DEFINE m == Len(tail)
  <1>14. m \in Nat /\ \A i \in 1..m : tail[i] \in S
    <2> HIDE DEF S, tail
    <2> QED BY <1>13
  <1> HIDE DEF tail
  <1>15. /\ cells' \in Seq(CellShape) /\ Len(cells') = n + m
         /\ \A i \in 1..n : cells'[i] = cells[i]
         /\ \A i \in 1..m : cells'[n + i] = tail[i]
    <2>1. tail \in Seq(CellShape) BY <1>12, <1>13
    <2> HIDE DEF S
    <2>2. Len(cells \o tail) = n + m /\ cells \o tail \in Seq(CellShape) BY <1>4, <1>5, <2>1
    <2>3. \A i \in 1..n : (cells \o tail)[i] = cells[i] BY <1>4, <1>5, <2>1
    <2>4. \A i \in 1..m : (cells \o tail)[n + i] = tail[i]
      <3>1. \A i \in 1..m : n + i \in 1..(n + m) /\ ~(n + i <= n) /\ (n + i) - n = i BY <1>4, <1>14
      <3> QED BY <1>4, <1>5, <2>1, <3>1
    <2> QED BY <1>10, <2>2, <2>3, <2>4
  <1>16. InputInv' BY <1>1, <1>2, <1>15 DEF InputInv
  <1>17. IndexInv' BY <1>1, <1>2, <1>3 DEF IndexInv
  <1>18. FrontInv(Len(Walked))'
    <2>1. \A i \in 1..n : Answers(cells'[i], Walked[i], Pool(Kept, rule_map, Walked[i]))
      BY <1>1, <1>5, <1>15 DEF FrontInv
    <2>2. \A a : PairedIn(cells', n, a) <=> PairedIn(cells, n, a) BY <1>15 DEF PairedIn
    <2>3. Len(Walked') = n /\ n <= Len(cells') /\ n <= n BY <1>3, <1>4, <1>14, <1>15 DEF n
    <2> QED BY <1>2, <1>3, <1>6, <2>1, <2>2, <2>3 DEF FrontInv
  <1>19. TailInv(Len(Walked))'
    <2>1. \A i \in (n + 1)..(n + m) : i - n \in 1..m /\ cells'[i] = tail[i - n]
      <3>1. \A i \in (n + 1)..(n + m) : i - n \in 1..m /\ n + (i - n) = i BY <1>4, <1>14
      <3> QED BY <1>15, <3>1
    <2>2. \A i \in 1..m : n + i \in (n + 1)..(n + m) BY <1>4, <1>14
    <2>3. \A i \in (n + 1)..(n + m) : \E a \in over : cells'[i] = Lone(rule_map, a) BY <1>14, <2>1
    <2>4. \A a \in over : \E i \in (n + 1)..(n + m) : cells'[i] = Lone(rule_map, a)
      <3> SUFFICES ASSUME NEW a \in over
                   PROVE  \E i \in (n + 1)..(n + m) : cells'[i] = Lone(rule_map, a)
        OBVIOUS
      <3>1. Lone(rule_map, a) \in S OBVIOUS
      <3>2. PICK i \in 1..m : tail[i] = Lone(rule_map, a) BY <1>13, <3>1
      <3> QED BY <1>15, <2>2, <3>2
    <2>5. \A i, j \in (n + 1)..(n + m) : cells'[i] = cells'[j] => i = j
      <3> SUFFICES ASSUME NEW i \in (n + 1)..(n + m), NEW j \in (n + 1)..(n + m), cells'[i] = cells'[j]
                   PROVE  i = j
        OBVIOUS
      <3>1. i - n = j - n BY <1>13, <2>1
      <3> QED BY <1>4, <1>14, <3>1
    <2>6. Len(Walked') = n /\ Len(cells') = n + m BY <1>3, <1>15 DEF n
    <2>7. Kept' \ consumed' = over BY <1>2, <1>3
    <2> HIDE DEF over, S, m
    <2>8. /\ \A i \in (Len(Walked') + 1)..Len(cells') :
               \E a \in Kept' \ consumed' : cells'[i] = Lone(rule_map', a)
          /\ \A a \in Kept' \ consumed' :
               \E i \in (Len(Walked') + 1)..Len(cells') : cells'[i] = Lone(rule_map', a)
      BY ZenonT(30), <1>2, <2>3, <2>4, <2>6, <2>7
    <2>9. \A i, j \in (Len(Walked') + 1)..Len(cells') : cells'[i] = cells'[j] => i = j
      BY <2>5, <2>6
    <2> QED BY <2>8, <2>9 DEF TailInv
  <1> QED BY <1>2, <1>16, <1>17, <1>18, <1>19 DEF CompareInv

LEMMA CompareStands == CompareInv /\ UNCHANGED compareVars => CompareInv'
  BY DEF CompareInv, compareVars, InputInv, IndexInv, FrontInv, TailInv, Kept, Walked

(* What the invariant says at the end.                                      *)
LEMMA AtEnd ==
    ASSUME CompareInv, phase = "done"
    PROVE  /\ InputInv /\ IndexInv /\ FrontInv(Len(Walked)) /\ TailInv(Len(Walked))
           /\ Len(Walked) \in Nat /\ Len(cells) \in Nat /\ Len(Walked) <= Len(cells)
           /\ DOMAIN cells = 1..Len(cells)
  <1>1. InputInv /\ IndexInv /\ FrontInv(Len(Walked)) /\ TailInv(Len(Walked)) BY DEF CompareInv
  <1>2. Walked \in Seq(LegacyRows) BY <1>1, WalkedFacts
  <1>3. Len(Walked) \in Nat BY <1>2
  <1>4. cells \in Seq(CellShape) BY <1>1 DEF InputInv
  <1>5. Len(cells) \in Nat /\ DOMAIN cells = 1..Len(cells) BY <1>4
  <1>6. Len(Walked) <= Len(cells) BY <1>1 DEF FrontInv
  <1> QED BY <1>1, <1>3, <1>5, <1>6

(* At the end: the cell a new alert is in, and the cell of a legacy one.    *)
LEMMA OneWithNew ==
    ASSUME CompareInv, phase = "done", NEW a \in News
    PROVE  \E i \in DOMAIN cells : WithNew(a) = {i}
  <1> DEFINE n == Len(Walked)
             z == Len(cells)
  <1>1. /\ InputInv /\ FrontInv(n) /\ TailInv(n)
        /\ n \in Nat /\ z \in Nat /\ n <= z /\ DOMAIN cells = 1..z
    BY AtEnd
  <1>2. PICK k \in Kept : k.place = a.place /\ k.rule = a.rule BY <1>1, KeptFacts
  <1>3. consumed = {x \in Kept : PairedIn(cells, n, x)} BY <1>1 DEF FrontInv
  <1>4. \A i \in (n + 1)..z : \E x \in Kept \ consumed : cells[i] = Lone(rule_map, x)
    BY <1>1 DEF TailInv
  <1>5. \A x : /\ Lone(rule_map, x).place = x.place /\ Lone(rule_map, x).new = x.rule
               /\ Lone(rule_map, x).class = "NEW_ONLY"
    BY DEF Lone, Cell
  <1>6. \A i, j \in 1..n :
           Walked[i].place = Walked[j].place /\ Walked[i].rule = Walked[j].rule => i = j
    BY <1>1, WalkedFacts
  <1>7. \A i \in DOMAIN cells : i \in WithNew(a) <=>
           cells[i].place = k.place /\ cells[i].new = k.rule /\ cells[i].class # "LEGACY_ONLY"
    BY <1>2 DEF WithNew
  <1>8. WithNew(a) \subseteq DOMAIN cells BY DEF WithNew
  <1>9. \A i \in DOMAIN cells : i \in 1..n \/ i \in (n + 1)..z BY <1>1
  <1>10. \A i : i \in 1..n \/ i \in (n + 1)..z => i \in DOMAIN cells BY <1>1
  <1> HIDE DEF n, z
  <1>11. CASE k \in consumed
    <2>1. PICK i \in 1..n : cells[i].class # "LEGACY_ONLY" /\ cells[i].place = k.place /\ cells[i].new = k.rule
      BY <1>3, <1>11 DEF PairedIn
    <2>2. i \in WithNew(a) /\ i \in DOMAIN cells BY <1>7, <1>10, <2>1
    <2>3. ASSUME NEW j \in WithNew(a) PROVE j = i
      <3>1. j \in DOMAIN cells /\ cells[j].place = k.place /\ cells[j].new = k.rule /\ cells[j].class # "LEGACY_ONLY"
        BY <1>7, <1>8
      <3>2. CASE j \in 1..n
        <4>1. Walked[i].place = k.place /\ Walked[i].rule = rule_map[k.rule]
          BY <1>1, <2>1, PairedWith
        <4>2. Walked[j].place = k.place /\ Walked[j].rule = rule_map[k.rule]
          BY <1>1, <3>1, <3>2, PairedWith
        <4> QED BY <1>6, <3>2, <4>1, <4>2
      <3>3. CASE j \in (n + 1)..z
        <4>1. PICK x \in Kept \ consumed : cells[j] = Lone(rule_map, x) BY <1>4, <3>3
        <4>2. x.place = k.place /\ x.rule = k.rule BY <1>5, <3>1, <4>1
        <4>3. x = k BY <1>1, <4>1, <4>2, KeptFacts
        <4> QED BY <1>11, <4>1, <4>3
      <3> QED BY <1>9, <3>1, <3>2, <3>3
    <2> QED BY <2>2, <2>3
  <1>12. CASE k \notin consumed
    <2>1. PICK i \in (n + 1)..z : cells[i] = Lone(rule_map, k)
      BY <1>1, <1>12 DEF TailInv, z
    <2>2. i \in WithNew(a) /\ i \in DOMAIN cells BY <1>5, <1>7, <1>10, <2>1
    <2>3. ASSUME NEW j \in WithNew(a) PROVE j = i
      <3>1. j \in DOMAIN cells /\ cells[j].place = k.place /\ cells[j].new = k.rule /\ cells[j].class # "LEGACY_ONLY"
        BY <1>7, <1>8
      <3>2. j \notin 1..n
        <4>1. j \in 1..n => PairedIn(cells, n, k) BY <3>1 DEF PairedIn
        <4> QED BY <1>3, <1>12, <4>1
      <3>3. j \in (n + 1)..z BY <1>9, <3>1, <3>2
      <3>4. PICK x \in Kept \ consumed : cells[j] = Lone(rule_map, x) BY <1>4, <3>3
      <3>5. x.place = k.place /\ x.rule = k.rule BY <1>5, <3>1, <3>4
      <3>6. x = k BY <1>1, <3>4, <3>5, KeptFacts
      <3>7. cells[i] = cells[j] BY <2>1, <3>4, <3>6
      <3> QED BY <1>1, <2>1, <3>3, <3>7 DEF TailInv, z
    <2> QED BY <2>2, <2>3
  <1> QED BY <1>11, <1>12

LEMMA OneWithLegacy ==
    ASSUME CompareInv, phase = "done", NEW l \in Legacies
    PROVE  \E w \in 1..Len(Walked) :
              /\ WithLegacy(l) = {w} /\ w \in DOMAIN cells
              /\ Walked[w].place = l.place /\ Walked[w].rule = l.rule
  <1> DEFINE n == Len(Walked)
             z == Len(cells)
  <1>1. /\ InputInv /\ FrontInv(n) /\ TailInv(n)
        /\ n \in Nat /\ z \in Nat /\ n <= z /\ DOMAIN cells = 1..z
    BY AtEnd
  <1>2. PICK w \in 1..n : Walked[w].place = l.place /\ Walked[w].rule = l.rule BY <1>1, WalkedFacts
  <1>3. ASSUME NEW i \in 1..n
        PROVE  /\ cells[i].place = Walked[i].place /\ cells[i].legacy = Walked[i].rule
               /\ cells[i].class # "NEW_ONLY"
    <2>1. Answers(cells[i], Walked[i], Pool(Kept, rule_map, Walked[i])) BY <1>1 DEF FrontInv
    <2> QED BY <2>1 DEF Answers
  <1>4. w \in DOMAIN cells BY <1>1
  <1>5. w \in WithLegacy(l) BY <1>2, <1>3, <1>4 DEF WithLegacy
  <1>6. ASSUME NEW j \in WithLegacy(l) PROVE j = w
    <2>1. j \in DOMAIN cells /\ cells[j].place = l.place /\ cells[j].legacy = l.rule /\ cells[j].class # "NEW_ONLY"
      BY DEF WithLegacy
    <2>2. j \notin (n + 1)..z
      <3>1. \A x : Lone(rule_map, x).class = "NEW_ONLY" BY DEF Lone, Cell
      <3> QED BY <1>1, <2>1, <3>1 DEF TailInv
    <2>3. j \in 1..n BY <1>1, <2>1, <2>2
    <2>4. Walked[j].place = l.place /\ Walked[j].rule = l.rule BY <1>3, <2>1, <2>3
    <2> QED BY <1>1, <1>2, <2>3, <2>4, WalkedFacts
  <1> QED BY <1>2, <1>4, <1>5, <1>6

LEMMA ReportAtEnd == CompareInv => ReportIgnoresOrder
  <1> SUFFICES ASSUME CompareInv, phase = "done"
               PROVE  EachOnce /\ NoneMissed /\ (Consistent => BestPaired)
    BY DEF ReportIgnoresOrder
  <1> DEFINE n == Len(Walked)
  <1>1. /\ InputInv /\ IndexInv /\ FrontInv(n) /\ TailInv(n) /\ n \in Nat
        /\ Len(cells) \in Nat /\ n <= Len(cells) /\ DOMAIN cells = 1..Len(cells)
    BY AtEnd
  <1>2. \A i \in 1..n : Answers(cells[i], Walked[i], Pool(Kept, rule_map, Walked[i])) BY <1>1 DEF FrontInv
  <1> HIDE DEF n
  <1>3. EachOnce
    <2>1. \A a \in News : Cardinality(WithNew(a)) = 1
      <3> SUFFICES ASSUME NEW a \in News PROVE Cardinality(WithNew(a)) = 1
        OBVIOUS
      <3>1. PICK i \in DOMAIN cells : WithNew(a) = {i} BY OneWithNew
      <3> QED BY <3>1, FS_Singleton
    <2>2. \A l \in Legacies : Cardinality(WithLegacy(l)) = 1
      <3> SUFFICES ASSUME NEW l \in Legacies PROVE Cardinality(WithLegacy(l)) = 1
        OBVIOUS
      <3>1. PICK i \in 1..Len(Walked) : WithLegacy(l) = {i} BY OneWithLegacy
      <3> QED BY <3>1, FS_Singleton
    <2>3. ASSUME NEW i \in DOMAIN cells
          PROVE  \/ \E a \in News : i \in WithNew(a)
                 \/ \E l \in Legacies : i \in WithLegacy(l)
      <3>1. CASE i \in 1..n
        <4> DEFINE l == Walked[i]
        <4>1. l \in Legacies BY <1>1, <3>1, WalkedFacts DEF n
        <4>2. Answers(cells[i], l, Pool(Kept, rule_map, l)) BY <1>2, <3>1
        <4> HIDE DEF l
        <4>3. i \in WithLegacy(l) BY <4>2 DEF WithLegacy, Answers
        <4> QED BY <4>1, <4>3
      <3>2. CASE i \in (n + 1)..Len(cells)
        <4>1. PICK x \in Kept : cells[i] = Lone(rule_map, x) BY <1>1, <3>2 DEF TailInv
        <4>2. x \in News BY <1>1, KeptFacts
        <4>3. i \in WithNew(x) BY <4>1 DEF WithNew, Lone, Cell
        <4> QED BY <4>2, <4>3
      <3> QED BY <1>1, <3>1, <3>2
    <2>4. \A a : WithNew(a) \subseteq DOMAIN cells BY DEF WithNew
    <2>5. \A l : WithLegacy(l) \subseteq DOMAIN cells BY DEF WithLegacy
    <2>6. DOMAIN cells = UNION ({WithNew(a) : a \in News} \cup {WithLegacy(l) : l \in Legacies})
      BY <2>3, <2>4, <2>5
    <2> QED BY <2>1, <2>2, <2>6 DEF EachOnce
  <1>4. ASSUME NEW l \in Legacies, NEW w \in 1..n, NEW a \in Of(l),
               Walked[w].place = l.place, Walked[w].rule = l.rule
        PROVE  \E k \in Pool(Kept, rule_map, Walked[w]) :
                  k \in News /\ k.place = a.place /\ k.rule = a.rule
    <2>1. a \in News /\ a.place = l.place /\ rule_map[a.rule] = l.rule BY DEF Of
    <2>2. PICK k \in Kept : k.place = a.place /\ k.rule = a.rule BY <1>1, <2>1, KeptFacts
    <2>3. k \in Pool(Kept, rule_map, Walked[w]) BY <1>4, <2>1, <2>2 DEF Pool
    <2> QED BY <1>1, <2>2, <2>3, KeptFacts
  <1>5. NoneMissed
    <2> SUFFICES ASSUME NEW l \in Legacies, NEW a \in Of(l)
                 PROVE  \E i \in WithLegacy(l) : cells[i].class # "LEGACY_ONLY"
      BY DEF NoneMissed
    <2>1. PICK w \in 1..n : /\ WithLegacy(l) = {w}
                            /\ Walked[w].place = l.place /\ Walked[w].rule = l.rule
      BY OneWithLegacy DEF n
    <2>2. Pool(Kept, rule_map, Walked[w]) # {} BY <1>4, <2>1
    <2>3. cells[w].class # "LEGACY_ONLY" BY <1>2, <2>2 DEF Answers
    <2> QED BY <2>1, <2>3
  <1>6. ASSUME Consistent PROVE BestPaired
    <2> SUFFICES ASSUME NEW l \in Legacies, NEW a \in Of(l), NEW i \in WithLegacy(l),
                        NEW b \in Of(l), cells[i].new = b.rule
                 PROVE  /\ Fits(a, l) => Fits(b, l)
                        /\ Fits(a, l) = Fits(b, l) => b.rule <= a.rule
                        /\ cells[i].class = "DIFF" <=> Differ(Severity(b), l.severity)
      BY DEF BestPaired, Fits
    <2>1. PICK w \in 1..n : /\ WithLegacy(l) = {w}
                            /\ Walked[w].place = l.place /\ Walked[w].rule = l.rule
      BY OneWithLegacy DEF n
    <2> DEFINE m == Walked[w]
               pool == Pool(Kept, rule_map, m)
    <2>2. m \in Legacies /\ m.severity = l.severity
      BY <1>1, <1>6, <2>1, WalkedFacts DEF n, Consistent
    <2>3. i = w BY <2>1
    <2>4. PICK k \in pool : k \in News /\ k.place = a.place /\ k.rule = a.rule BY <1>4, <2>1
    <2>5. PICK x \in pool : /\ Best(x, m, pool) /\ cells[w].new = x.rule
                            /\ cells[w].class = IF Differ(Severity(x), m.severity) THEN "DIFF" ELSE "MATCH"
      BY <1>2, <2>4 DEF Answers
    <2>6. x \in Kept /\ x.place = l.place BY <2>1 DEF Pool
    <2>7. x \in News BY <1>1, <2>6, KeptFacts
    <2>8. a \in News /\ a.place = l.place /\ b \in News /\ b.place = l.place BY DEF Of
    <2>9. x.rule = b.rule BY <2>3, <2>5
    <2>10. Severity(x) = Severity(b) BY <1>6, <2>6, <2>7, <2>8, <2>9 DEF Consistent
    <2>11. Severity(k) = Severity(a) BY <1>6, <2>4, <2>8 DEF Consistent
    <2>12. Fits(k, m) = Fits(a, l) /\ Fits(x, m) = Fits(b, l) BY <2>2, <2>10, <2>11 DEF Fits
    <2>13. Differ(Severity(x), m.severity) = Differ(Severity(b), l.severity) BY <2>2, <2>10
    <2> HIDE DEF m, pool
    <2>14. (Fits(k, m) => Fits(x, m)) /\ (Fits(x, m) = Fits(k, m) => x.rule <= k.rule)
      BY <2>4, <2>5 DEF Best
    <2> QED BY <2>3, <2>4, <2>5, <2>9, <2>12, <2>13, <2>14
  <1> QED BY <1>3, <1>5, <1>6

(* Each alert of either side is in one cell of the report and none that had *)
(* a partner is called one-sided; if no side contradicts itself, a legacy   *)
(* alert has the new alert that agrees with it best, in whatever order and  *)
(* however often the rows of the two exports came.                          *)
THEOREM OrderIsIgnored == CompareSpec => []ReportIgnoresOrder
  <1>1. CompareInv /\ [CompareNext]_compareVars => CompareInv'
    BY IndexKeeps, WalkKeeps, RestKeeps, CompareStands DEF CompareNext
  <1> QED BY <1>1, CompareStart, ReportAtEnd, PTL DEF CompareSpec
=============================================================================
