----------------------------- MODULE CopsRobbers -----------------------------
(***************************************************************************)
(* CopsRobbersEnv (src/src/marl/env): one sub-game of a team of cops and a *)
(* thief on an H x W board with a simultaneous joint action per tick.      *)
(*                                                                         *)
(* Joint actions are not restricted to the legality mask: WireReferee      *)
(* checks a remote reply against the role's alphabet only, so the cop may  *)
(* ask for any of the five actions and the thief for any of the four moves.*)
(***************************************************************************)
EXTENDS Integers, FiniteSets, FiniteSetsExt

CONSTANTS
    H, W,           \* board rows and columns
    NumCops,
    MaxBarriers,    \* game.max_barriers, the team's budget
    MaxMoves,       \* game.max_moves
    Radius,         \* view_radius(H, W): spawns are farther apart than this
    EnableBarrier,  \* env.actions.enable_barrier
    CaptureOnSwap   \* env.capture_on_swap

ASSUME BoardAssumption ==
    /\ H \in Nat \ {0} /\ W \in Nat \ {0} /\ NumCops \in Nat \ {0}
    /\ MaxBarriers \in Nat /\ MaxMoves \in Nat \ {0} /\ Radius \in Nat
    /\ EnableBarrier \in BOOLEAN /\ CaptureOnSwap \in BOOLEAN

Board == (0 .. H - 1) \X (0 .. W - 1)
Cops == 0 .. NumCops - 1

Moves == {"UP", "DOWN", "LEFT", "RIGHT"}
CopActions == Moves \union {"PLACE_BARRIER"}
Delta(a) == CASE a = "UP" -> <<-1, 0>> [] a = "DOWN" -> <<1, 0>>
              [] a = "LEFT" -> <<0, -1>> [] a = "RIGHT" -> <<0, 1>>
              [] OTHER -> <<0, 0>>

VARIABLES
    cops,           \* cop_pos
    thief,          \* thief_pos
    barriers,
    used,           \* barriers_used
    step,
    winner,         \* "none" while the state is not terminal
    copMemory,      \* steps_since_seen of each cop
    thiefMemory     \* ... and of the thief

vars == <<cops, thief, barriers, used, step, winner, copMemory, thiefMemory>>

TypeOK ==
    /\ cops \in [Cops -> Board] /\ thief \in Board
    /\ barriers \in SUBSET Board /\ used \in Nat
    /\ step \in Nat
    /\ winner \in {"none", "cop", "thief"}
    /\ copMemory \in [Cops -> Nat] /\ thiefMemory \in Nat

-----------------------------------------------------------------------------
Distance(a, b) ==
    LET Abs(n) == IF n < 0 THEN -n ELSE n IN Abs(a[1] - b[1]) + Abs(a[2] - b[2])
InView(a, b) == Distance(a, b) <= Radius

Target(pos, a) == <<pos[1] + Delta(a)[1], pos[2] + Delta(a)[2]>>

(* can_enter: on the board, and no barrier unless it is where the actor is. *)
CanEnter(target, actor) == target \in Board /\ (target \notin barriers \/ target = actor)
ResolveMove(pos, a) == IF CanEnter(Target(pos, a), pos) THEN Target(pos, a) ELSE pos

(* _resolve_cops goes by index: a PLACE is honoured while budget is left,   *)
(* unless the cell is a barrier by then.  Those whose cell is still free    *)
(* when their turn comes, then the ones of them the budget pays for.        *)
FreshPlacers(act) ==
    {i \in Cops : /\ act[i] = "PLACE_BARRIER" /\ EnableBarrier /\ cops[i] \notin barriers
                  /\ \A j \in 0 .. i - 1 : act[j] = "PLACE_BARRIER" => cops[j] # cops[i]}
\* Mutant: every cop looks at the budget before the tick.
PlacersEachAlone(act) == {i \in FreshPlacers(act) : used < MaxBarriers}
Placers(act) ==
    {i \in FreshPlacers(act) :
        Cardinality({j \in FreshPlacers(act) : j < i}) < MaxBarriers - used}

(* get_valid_mask's moves: into a cell the agent can enter.                *)
EnterableMoves(pos) == {a \in Moves : CanEnter(Target(pos, a), pos)}

\* Mutant: a cop may place again on its own barrier.
CopMaskAnyCell(i) ==
    (IF EnterableMoves(cops[i]) = {} THEN Moves ELSE EnterableMoves(cops[i]))
        \union (IF EnableBarrier /\ used < MaxBarriers THEN {"PLACE_BARRIER"} ELSE {})

(* action_mask of cop i: enterable moves (all four when boxed in), PLACE.   *)
CopMask(i) ==
    (IF EnterableMoves(cops[i]) = {} THEN Moves ELSE EnterableMoves(cops[i]))
        \union (IF EnableBarrier /\ used < MaxBarriers /\ cops[i] \notin barriers
                THEN {"PLACE_BARRIER"} ELSE {})

\* Mutant: the old and the new cells are not zipped by cop.
CapturedByAnyPair(newCops, newThief) ==
    \E i, j \in Cops :
        \/ newCops[i] = newThief
        \/ CaptureOnSwap /\ cops[i] = newThief /\ newCops[j] = thief

(* _detect_capture, on the cells before and after the move. *)
Captured(newCops, newThief) ==
    \E i \in Cops :
        \/ newCops[i] = newThief
        \/ CaptureOnSwap /\ cops[i] = newThief /\ newCops[i] = thief

\* Mutant: the timeout is checked first.
WinnerTimeoutFirst(captured, s) ==
    IF s >= MaxMoves THEN "thief" ELSE IF captured THEN "cop" ELSE "none"

(* Capture is checked before the timeout. *)
Winner(captured, s) == IF captured THEN "cop" ELSE IF s >= MaxMoves THEN "thief" ELSE "none"

(* update_memory on the cells after the move; "old" counts come in.         *)
Remember(newCops, newThief, oldCop, oldThief) ==
    /\ copMemory' = [i \in Cops |-> IF InView(newCops[i], newThief) THEN 0 ELSE oldCop[i] + 1]
    /\ thiefMemory' = IF \E i \in Cops : InView(newThief, newCops[i]) THEN 0 ELSE oldThief + 1

-----------------------------------------------------------------------------
(* sample_spawn: the lead cop and the thief, out of each other's view.      *)
SampleSpawn(cop, t) == Distance(cop, t) > Radius

(* sample_positions: the other cops are anywhere but on the thief.          *)
Spawn(c, t) == SampleSpawn(c[0], t) /\ \A i \in Cops \ {0} : c[i] # t

Init ==
    /\ cops \in [Cops -> Board] /\ thief \in Board /\ Spawn(cops, thief)
    /\ barriers = {} /\ used = 0 /\ step = 0 /\ winner = "none"
    /\ copMemory = [i \in Cops |-> IF InView(cops[i], thief) THEN 0 ELSE 1]
    /\ thiefMemory = IF \E i \in Cops : InView(thief, cops[i]) THEN 0 ELSE 1

(* reset(): at any time, also in the middle of a sub-game that was voided.  *)
Reset ==
    /\ cops' \in [Cops -> Board] /\ thief' \in Board /\ Spawn(cops', thief')
    /\ barriers' = {} /\ used' = 0 /\ step' = 0 /\ winner' = "none"
    /\ Remember(cops', thief', [i \in Cops |-> 0], 0)

(* step(): raises on a terminal state, else one simultaneous joint action.  *)
Step(act, thiefAct) ==
    /\ winner = "none"
    /\ cops' = [i \in Cops |-> IF i \in Placers(act) THEN cops[i] ELSE ResolveMove(cops[i], act[i])]
    /\ thief' = ResolveMove(thief, thiefAct)
    /\ barriers' = barriers \union {cops[i] : i \in Placers(act)}
    /\ used' = used + Cardinality(Placers(act))
    /\ step' = step + 1
    /\ winner' = Winner(Captured(cops', thief'), step + 1)
    /\ Remember(cops', thief', copMemory, thiefMemory)

Next == Reset \/ \E act \in [Cops -> CopActions], thiefAct \in Moves : Step(act, thiefAct)

Spec == Init /\ [][Next]_vars

-----------------------------------------------------------------------------
(* "barriers_used == len(distinct placed cells)" (_resolve_cops), so that   *)
(* the reward charges each barrier once, and the team cap is never passed,  *)
(* also when two cops place at once, on one cell or on the last budget.     *)
BudgetExact == used = Cardinality(barriers) /\ used <= MaxBarriers

(* A sub-game that goes on, or that the thief won, has no cop on the thief  *)
(* and no wall under him (a barrier always goes down under a cop); it goes  *)
(* on only below max_moves, and the thief wins only at max_moves.  The cops *)
(* win with one on the thief or, where a swap counts, right beside him.     *)
OutcomeJustified ==
    /\ winner = "cop" =>
           \E i \in Cops : cops[i] = thief \/ (CaptureOnSwap /\ Distance(cops[i], thief) = 1)
    /\ winner # "cop" => thief \notin barriers /\ \A i \in Cops : cops[i] # thief
    /\ winner = "none" => step < MaxMoves
    /\ winner = "thief" => step = MaxMoves
    /\ step <= MaxMoves

(* Cop i and the thief are at one point halfway through the tick.           *)
MeetsHalfWay(i) == \A k \in 1 .. 2 : cops[i][k] + cops'[i][k] = thief[k] + thief'[k]

(* A tick ends in the cops' win exactly when one of them meets the thief,   *)
(* where both end up or, if swaps count, on the way: no meeting is missed,  *)
(* also on the last move, and two cops that pass him by do not add up to    *)
(* one (_detect_capture, resolve's order of capture and timeout).           *)
CopsWinByMeeting ==
    [][step' = step + 1 =>
          (winner' = "cop" <=>
              \E i \in Cops : cops'[i] = thief' \/ (CaptureOnSwap /\ MeetsHalfWay(i)))]_vars

(* The outcome of a sub-game follows from where the agents are and went.    *)
OutcomeSettled == []OutcomeJustified /\ CopsWinByMeeting

(* Every agent counts for itself how long it has seen no opponent           *)
(* (update_memory), the thief against the whole team.  The counts agree:    *)
(* the thief's is that of the cop that met it last, whatever resets and     *)
(* meetings came before.                                                    *)
MetTogether ==
    /\ \A i \in Cops : thiefMemory <= copMemory[i]
    /\ \E i \in Cops : thiefMemory = copMemory[i]

(* action_mask promises a cop its PLACE from the state before the tick.  A  *)
(* mask-legal PLACE that is not honoured was lost to a team mate of a lower *)
(* index, on the same cell or on the last of the budget, and to nothing     *)
(* else, whatever the other cops' masks let them do at the same time.       *)
MaskedPlaceLostToMateOnly ==
    winner = "none" =>
        \A act \in [Cops -> CopActions] :
            (\A i \in Cops : act[i] \in CopMask(i)) =>
                \A i \in {j \in Cops : act[j] = "PLACE_BARRIER"} \ Placers(act) :
                    LET ahead == {j \in Placers(act) : j < i}
                    IN  \/ \E j \in ahead : cops[j] = cops[i]
                        \/ Cardinality(ahead) = MaxBarriers - used
=============================================================================
