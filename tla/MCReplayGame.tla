---------------------------- MODULE MCReplayGame ----------------------------
(* Instance of ReplayGame: a 2 x 3 board, one base seed and one spare.      *)
EXTENDS ReplayGame
MCLayouts == << [r \in Roles |-> IF r = "cop" THEN <<0, 0>> ELSE <<1, 2>>],
                [r \in Roles |-> IF r = "cop" THEN <<1, 1>> ELSE <<0, 2>>] >>
MCPoints == [cop |-> [cop |-> 20, thief |-> 5], thief |-> [cop |-> 5, thief |-> 10]]
=============================================================================
