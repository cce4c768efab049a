--------------------------- MODULE RunPublication ---------------------------
(***************************************************************************)
(* What a client of the run API may rely on: a run it can fetch at all, it *)
(* can fetch whole, from its own tenant, and for good.                     *)
(***************************************************************************)
CONSTANTS Tenants, RunIds, Rules, Tags

VARIABLE shown      \* (tenant, id) -> what GET returns of it: run, alerts, metrics

Nothing == [run |-> {}, alerts |-> {}, metrics |-> {}]
WholeRun(tag) == [run |-> {tag}, alerts |-> Rules \X {tag}, metrics |-> {tag}]

Init == shown = [k \in Tenants \X RunIds |-> Nothing]

Publish(t, id, tag) ==
    /\ \A u \in Tenants : shown[<<u, id>>] = Nothing
    /\ shown' = [shown EXCEPT ![<<t, id>>] = WholeRun(tag)]

Next == \E t \in Tenants, id \in RunIds, tag \in Tags : Publish(t, id, tag)

Spec == Init /\ [][Next]_shown
=============================================================================
