----------------------------- MODULE MCMuleRing -----------------------------
(* Every graph of links between five customers, with the default thresholds.*)
EXTENDS MuleRing

MCCustomers == 1..5
=============================================================================
