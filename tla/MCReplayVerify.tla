--------------------------- MODULE MCReplayVerify ---------------------------
(* Two mirror pairs, two spares, escalation on the second consecutive void; *)
(* no two seeds spawn a role on the same cell.                              *)
EXTENDS ReplayVerify

MCCells == 1 .. 2 * NumSeeds
MCSpawn == [s \in Seeds |-> [r \in Roles |-> IF r = "cop" THEN s + 1 ELSE NumSeeds + s + 1]]

(* game.scoring and game.bonus_claim. *)
MCTable == [w \in Sides |-> IF w = "cop" THEN [r \in Sides |-> IF r = "cop" THEN 20 ELSE 5]
                            ELSE [r \in Sides |-> IF r = "cop" THEN 5 ELSE 10]]
MCClaim == [k \in {"winner", "loser", "tie"} |->
              CASE k = "winner" -> 10 [] k = "loser" -> 7 [] OTHER -> 5]
=============================================================================
