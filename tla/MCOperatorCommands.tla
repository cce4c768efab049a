------------------------- MODULE MCOperatorCommands -------------------------
(* Two runs of one second.                                                  *)
EXTENDS OperatorCommands

MCRuns == {1, 2}

(* A state in which the one command has ended is checked and not continued. *)
Serving == commands = 0 \/ cmd.left # <<>>
=============================================================================
