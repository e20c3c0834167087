----------------------------- MODULE MCSelfPlay -----------------------------
(* TLC instance of SelfPlay: a stage of one cop, then a stage of two.       *)
EXTENDS SelfPlay

StageTeams == <<1, 2>>
=============================================================================
