---------------------------- MODULE MCCaseDesk ----------------------------
(* Eight alerts of five cases: a medium case at L2 and a critical one that  *)
(* is listed twice, which the engine files; a high case at L1 that it hands *)
(* on; a medium one that it closes and then hands on, and a low one that it *)
(* hands on and then closes, both listed twice.                             *)
EXTENDS CaseDesk

MCFacts == <<
    [severity |-> "medium", risk |-> "critical", queue |-> "l2_investigator", dated |-> TRUE, end |-> -3],
    [severity |-> "high", risk |-> "low", queue |-> "l1_analyst", dated |-> TRUE, end |-> -20],
    [severity |-> "medium", risk |-> "low", queue |-> "l1_analyst", dated |-> TRUE, end |-> -9],
    [severity |-> "critical", risk |-> "low", queue |-> "l2_investigator", dated |-> TRUE, end |-> -8],
    [severity |-> "low", risk |-> "high", queue |-> "l1_analyst", dated |-> FALSE, end |-> 0]>>
MCAlerts == <<1, 2, 3, 3, 4, 4, 5, 5>>
MCSla == [l1_analyst |-> 20, l2_investigator |-> 10]
=============================================================================
