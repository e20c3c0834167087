------------------------------ MODULE Rewards -------------------------------
(***************************************************************************)
(* RewardModel (src/src/marl/env/reward.py): the training signal of each   *)
(* transition, summed over the sub-game.                                   *)
(*                                                                         *)
(* gamma is GammaNum / GammaDen.  So that a discounted sum is an integer,  *)
(* the sum of gamma^t F_t is kept times GammaDen^MaxMoves, and the         *)
(* potential times d_max.  The other terms are summed undiscounted.        *)
(***************************************************************************)
EXTENDS CopsRobbers

CONSTANTS
    GammaNum, GammaDen,                             \* algo.gamma
    DistanceWeight, StepPenalty, BarrierCost,       \* reward.*
    CaptureBonus, TimeoutPenalty, EvadeStep, TimeoutBonus

ASSUME RewardAssumption ==
    /\ GammaNum \in Nat /\ GammaDen \in Nat \ {0}
    /\ {DistanceWeight, StepPenalty, BarrierCost, CaptureBonus, TimeoutPenalty, EvadeStep,
        TimeoutBonus} \subseteq Nat

VARIABLES
    opening,        \* the potential of the spawn (history)
    shaped,         \* discounted sum of the shaping terms, scaled
    earned,         \* sum of the cop team's other terms
    evaded          \* sum of the thief's rewards in "posg" mode

rewardVars == <<vars, opening, shaped, earned, evaded>>

Power(b) == LET p[n \in 0 .. MaxMoves] == IF n = 0 THEN 1 ELSE b * p[n - 1] IN p

Nearest(c, t) == Min({Distance(c[i], t) : i \in Cops})

(* potential, with reward.phi_terminal_zero.                                *)
Potential(c, t, terminal) == IF terminal THEN 0 ELSE -Nearest(c, t)

(* _shaping, times GammaDen.                                                *)
Shaping(phi, newPhi) == DistanceWeight * (GammaNum * newPhi - GammaDen * phi)

\* Mutant: a tick that placed is charged once.
PlacedFlat == IF used' > used THEN 1 ELSE 0
Placed == used' - used

(* _cop_team_reward without the shaping.                                    *)
TeamReward ==
    (CASE winner' = "cop" -> CaptureBonus [] winner' = "thief" -> -TimeoutPenalty [] OTHER -> 0)
        - StepPenalty - BarrierCost * Placed

(* _thief_reward in "posg" mode.  (In "dec_pomdp" it is minus the team's.)  *)
ThiefReward ==
    IF winner' = "none" THEN EvadeStep ELSE IF winner' = "thief" THEN TimeoutBonus ELSE 0

RewardInit ==
    /\ Init /\ opening = Potential(cops, thief, FALSE)
    /\ shaped = 0 /\ earned = 0 /\ evaded = 0

RewardReset ==
    /\ Reset /\ opening' = Potential(cops', thief', FALSE)
    /\ shaped' = 0 /\ earned' = 0 /\ evaded' = 0

(* step(): the transition, and compute() on the state before and after it.  *)
RewardStep ==
    /\ \E act \in [Cops -> CopActions], thiefAct \in Moves : Step(act, thiefAct)
    /\ shaped' = shaped + Power(GammaNum)[step] * Power(GammaDen)[MaxMoves - step']
                    * Shaping(Potential(cops, thief, FALSE), Potential(cops', thief', winner' # "none"))
    /\ earned' = earned + TeamReward
    /\ evaded' = evaded + ThiefReward
    /\ UNCHANGED opening

RewardNext == RewardReset \/ RewardStep
RewardSpec == RewardInit /\ [][RewardNext]_rewardVars

(* "Ng-1999 policy-invariant": whatever was played, the shaping terms add up*)
(* to a difference of potentials, which at the end is the spawn's alone; and*)
(* the rest is a bill of the sub-game: a penalty a step, a charge for each  *)
(* barrier that stands, also when two went down in one tick, and one bonus  *)
(* for the outcome, of which the thief's evading pays the non-final steps.  *)
ReturnTelescopes ==
    /\ shaped = DistanceWeight *
                    (Power(GammaNum)[step] * Power(GammaDen)[MaxMoves - step]
                            * Potential(cops, thief, winner # "none")
                        - Power(GammaDen)[MaxMoves] * opening)
    /\ earned = (CASE winner = "cop" -> CaptureBonus [] winner = "thief" -> -TimeoutPenalty
                   [] OTHER -> 0)
                    - StepPenalty * step - BarrierCost * Cardinality(barriers)
    /\ evaded = IF winner = "none" THEN EvadeStep * step
                ELSE EvadeStep * (step - 1) + (IF winner = "thief" THEN TimeoutBonus ELSE 0)
=============================================================================
