---------------------------- MODULE Observations ----------------------------
(***************************************************************************)
(* What an agent is shown of the present state: build_observation and      *)
(* encode_image (src/src/marl/env/observation.py, observation_encoder.py)  *)
(* and the legality mask (actions.py).  A channel of the image is the set  *)
(* of window offsets it marks; a normalised scalar is kept before it is    *)
(* divided by its constant span.                                           *)
(***************************************************************************)
EXTENDS CopsRobbers

CONSTANT RadiusMax      \* env.view_radius_max, the footprint of the window

(* view_radius raises when the disk does not fit the window.                *)
RadiusFits == Radius <= RadiusMax

Window == (-RadiusMax .. RadiusMax) \X (-RadiusMax .. RadiusMax)
At(center, offset) == <<center[1] + offset[1], center[2] + offset[2]>>

(* encode_image: off the board or beyond the radius is fog, and fog hides.  *)
EncodeImage(center, opponents) ==
    LET visible == {o \in Window : At(center, o) \in Board /\ InView(center, At(center, o))}
    IN  [out_of_bounds |-> Window \ visible,
         barrier       |-> {o \in visible : At(center, o) \in barriers},
         other_visible |-> {o \in visible : At(center, o) \in opponents},
         time          |-> step]

BuildObservation(center, opponents, since) ==
    [image   |-> EncodeImage(center, opponents),
     scalars |-> [row           |-> center[1],
                  col           |-> center[2],
                  step          |-> step,
                  barriers_left |-> MaxBarriers - used,
                  seen_now      |-> \E o \in opponents : InView(center, o),
                  since_seen    |-> Min({since, MaxMoves})]]

CopObservation(i) == BuildObservation(cops[i], {thief}, copMemory[i])
ThiefObservation == BuildObservation(thief, {cops[i] : i \in Cops}, thiefMemory)

(* action_mask of the thief: as the cops', without PLACE.                   *)
ThiefMask == IF EnterableMoves(thief) = {} THEN Moves ELSE EnterableMoves(thief)

(* What reset and step hand to the lead cop and to the thief.               *)
LeadCopSees == [obs |-> CopObservation(0), mask |-> CopMask(0)]
ThiefSees == [obs |-> ThiefObservation, mask |-> ThiefMask]
=============================================================================
