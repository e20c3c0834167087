---------------------------- MODULE WirePayload -----------------------------
(***************************************************************************)
(* The body of request_move (mask_payload, src/src/mcp/wire_referee.py):   *)
(* what a referee tells a role of the present state of its environment.    *)
(***************************************************************************)
EXTENDS CopsRobbers

CONSTANT RefereeRadius  \* mcp.observation.view_radius, what the referee masks with

Roles == {"cop", "thief"}
Other(r) == IF r = "cop" THEN "thief" ELSE "cop"
Alphabet(r) == IF r = "cop" THEN CopActions ELSE Moves

NoCell == <<-1, -1>>
Cell(r) == IF r = "cop" THEN cops[0] ELSE thief

(* mask_payload: the opponent and the barriers within the radius.           *)
MaskPayload(you, other, placed, left, radius) ==
    [your_pos      |-> you,
     opponent_pos  |-> IF Distance(you, other) <= radius THEN other ELSE NoCell,
     barriers      |-> {b \in placed : Distance(b, you) <= radius},
     barriers_left |-> left]

(* What the present environment says the payload of a role must be.         *)
Payload(r, radius) ==
    MaskPayload(Cell(r), Cell(Other(r)), barriers, MaxBarriers - used, radius)
=============================================================================
