---------------------------- MODULE MCEngineRun ----------------------------
(* Two rules drawn from declarations that between them take every branch   *)
(* of the rule loop.                                                       *)
EXTENDS EngineRun

Declared(l, allowed, env, material, ok, high, nxt) ==
    [active |-> TRUE, logic |-> l, callableAllowed |-> allowed,
     envApproved |-> env, material |-> material, modelApproved |-> ok,
     high |-> high, next |-> nxt]

Scorer == Declared("python_ref", TRUE, TRUE, TRUE, TRUE, TRUE, "filing")
Unapproved == Declared("python_ref", TRUE, TRUE, TRUE, FALSE, FALSE, "review")
Query == Declared("query", TRUE, TRUE, FALSE, FALSE, FALSE, "review")
OffLane == Declared("query", TRUE, FALSE, FALSE, FALSE, TRUE, "closing")
Outsider == Declared("python_ref", FALSE, TRUE, FALSE, FALSE, TRUE, "none")
Unexecutable == Declared("other", TRUE, TRUE, FALSE, FALSE, TRUE, "none")
Dormant == [Query EXCEPT !.active = FALSE]

MCRuleSpecs == {Scorer, Unapproved, Query, OffLane, Outsider, Unexecutable, Dormant}
============================================================================
