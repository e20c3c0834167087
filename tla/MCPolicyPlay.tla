---------------------------- MODULE MCPolicyPlay ----------------------------
(* Instance of PolicyPlay: the table of game.scoring.                       *)
EXTENDS PolicyPlay
MCPoints == [cop |-> [cop |-> 20, thief |-> 5], thief |-> [cop |-> 5, thief |-> 10]]
=============================================================================
