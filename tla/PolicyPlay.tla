----------------------------- MODULE PolicyPlay -----------------------------
(***************************************************************************)
(* Sub-games played by policies.  Three drivers of CopsRobbersEnv:         *)
(*   "evaluate"  evaluate_matchup (src/src/services/matchup_eval.py): one  *)
(*               cop policy for all games, a fresh thief for each;         *)
(*   "watch"     SpectatorSession (services/spectator.py): the two experts,*)
(*               and a user who presses step, reset and next at will;      *)
(*   "collect"   _collect_pairs (marl/data/bc_dataset.py): the experts with*)
(*               random moves between, one labelled row a tick.            *)
(* Beside the policies runs the wire session of each role (mcp/wire_obs.py)*)
(* which would feed it if the game were played over the wire.              *)
(***************************************************************************)
EXTENDS WirePayload, Heuristics

CONSTANTS
    RadiusMax,      \* env.view_radius_max
    NumGames,       \* game.num_games, n_games
    MaxReplays,     \* bound: restarts of a sub-game by the user
    NumPairs,       \* n_pairs
    Points          \* game.scoring: points[winner][role]

ASSUME PlayAssumption ==
    /\ NumCops = 1 /\ NumGames \in Nat \ {0} /\ MaxReplays \in Nat /\ NumPairs \in Nat \ {0}
    /\ RefereeRadius \in Nat /\ RefereeRadius >= Max({Radius, 1})   \* new_session raises
    /\ Points \in [Roles -> [Roles -> Nat]]

VARIABLES
    driver, copKind, thiefKind,
    copMind,        \* what the cop policy remembers
    thiefMind,      \* ... and the thief policy
    since,          \* steps_since_seen of each role's wire session
    game,           \* _sub_game, or the index of the matchup
    banked,         \* _banked
    rows,           \* len(obs_list)
    totals,         \* _totals
    play,           \* resets so far (history)
    outcomes,       \* <<play, winner>> of the plays whose score was taken (history)
    sighted         \* where each role last saw the other (history)

env == INSTANCE Observations
ASSUME WindowAssumption == RadiusMax \in Nat /\ env!RadiusFits

mindVars == <<copMind, thiefMind, since, sighted>>
bankVars == <<game, banked, totals, play, outcomes>>
kindVars == <<driver, copKind, thiefKind>>
playVars == <<vars, mindVars, bankVars, kindVars, rows>>

Unseen == <<>>          \* _seen_rel is None
-----------------------------------------------------------------------------
(* wire_obs: the state the payload lets the agent rebuild.                  *)

(* _far_cell: the corner farthest from the centre.                          *)
FarCell(center) ==
    <<IF H - 1 - center[1] >= center[1] THEN H - 1 ELSE 0,
      IF W - 1 - center[2] >= center[2] THEN W - 1 ELSE 0>>

\* Mutant: a masked opponent is put next to the agent.
OpponentAtHome(p) == IF p.opponent_pos = NoCell THEN p.your_pos ELSE p.opponent_pos
Opponent(p) == IF p.opponent_pos = NoCell THEN FarCell(p.your_pos) ELSE p.opponent_pos

(* _synth_state, and the env's own builders on it.                          *)
Synth(r, p, tick, count) ==
    INSTANCE Observations WITH
        cops        <- [i \in Cops |-> IF r = "cop" THEN p.your_pos ELSE Opponent(p)],
        thief       <- IF r = "cop" THEN Opponent(p) ELSE p.your_pos,
        barriers    <- p.barriers,
        used        <- MaxBarriers - p.barriers_left,
        step        <- tick,
        winner      <- "none",
        copMemory   <- [i \in Cops |-> count],
        thiefMemory <- count

(* build_observation counts before it builds.                               *)
SeenOnWire(p) == Distance(p.your_pos, Opponent(p)) <= Radius
Counted(r) == IF SeenOnWire(Payload(r, RefereeRadius)) THEN 0 ELSE since[r] + 1

(* build_observation and build_mask for the present tick.                   *)
WireSees(r) ==
    LET p == Payload(r, RefereeRadius)
    IN  IF r = "cop" THEN Synth(r, p, step, Counted(r))!LeadCopSees
        ELSE Synth(r, p, step, Counted(r))!ThiefSees
-----------------------------------------------------------------------------
(* The policies.  A decision is an action and what is remembered after it.  *)
Image(r) == IF r = "cop" THEN env!LeadCopSees.obs.image ELSE env!ThiefSees.obs.image
Mask(r) == IF r = "cop" THEN env!LeadCopSees.mask ELSE env!ThiefSees.mask

(* _observe: there is one opponent, so at most one hit.                     *)
Observed(r, seen) ==
    IF Image(r).other_visible = {} THEN seen ELSE CHOOSE o \in Image(r).other_visible : TRUE

\* Mutant: the belief is carried along with the move.
ShiftedAlong(seen, m) == <<seen[1] + Delta(m)[1], seen[2] + Delta(m)[2]>>
Shifted(seen, m) == <<seen[1] - Delta(m)[1], seen[2] - Delta(m)[2]>>
Span(rel) == Distance(rel, <<0, 0>>)
MaskMoves(r) == Mask(r) \intersect Moves
AnyOf(r, mind) == {[act |-> a, mind |-> mind] : a \in Mask(r)}

(* UniformRandomPolicy, and a net: some action the mask allows.             *)
Sampled(r, mind) == AnyOf(r, mind)

(* PursuitCop.act.  (The mask always has a move, so "not legal" is dead.)   *)
Pursue(mind) ==
    LET seen == Observed("cop", mind.seen)
        closer == [m \in Moves |-> -Span(Shifted(seen, m))]
        best == FirstBest(MaskMoves("cop"), closer)
        after == Shifted(seen, best)
    IN  IF seen = Unseen
        THEN {[act |-> m, mind |-> mind] : m \in Mask("cop") \ {"PLACE_BARRIER"}}
        ELSE {[act |-> best,
               mind |-> [mind EXCEPT !.seen = IF after = <<0, 0>> THEN Unseen ELSE after]]}

(* BarrierPursuitCop._should_place.                                         *)
ShouldPlace(mind) ==
    /\ Image("cop").other_visible # {} /\ ~mind.just /\ mind.placed < MaxBarriers
    /\ "PLACE_BARRIER" \in Mask("cop")
PursueOrPlace(mind) ==
    IF ShouldPlace(mind)
    THEN {[act |-> "PLACE_BARRIER",
           mind |-> [seen |-> Observed("cop", mind.seen), placed |-> mind.placed + 1, just |-> TRUE]]}
    ELSE Pursue([mind EXCEPT !.just = FALSE])

(* ObsFleePolicy.act.                                                       *)
Flee(mind) ==
    LET seen == Observed("thief", mind.seen)
        farther == [m \in Moves |-> Span(Shifted(seen, m))]
        best == FirstBest(MaskMoves("thief"), farther)
    IN  IF seen = Unseen THEN {[act |-> m, mind |-> mind] : m \in Mask("thief")}
        ELSE {[act |-> best, mind |-> [mind EXCEPT !.seen = Shifted(seen, best)]]}

(* AdaptiveThiefPolicy.act: the net from the first barrier seen on.         *)
FleeOrNet(mind) ==
    LET switched == mind.switched \/ Image("thief").barrier # {}
    IN  IF switched THEN Sampled("thief", [mind EXCEPT !.switched = TRUE]) ELSE Flee(mind)

(* _joint_action, through _maybe_explore: the greedy move or any legal one. *)
Explored(greedy, legal, mind) ==
    {[act |-> m, mind |-> mind] : m \in IF driver = "collect" THEN {greedy} \union legal ELSE {greedy}}

(* _greedy_label: what a row of the data set teaches. *)
Label(r) == IF r = "cop" THEN CopExpert(0) ELSE ThiefExpert

CopDecisions ==
    CASE copKind = "oracle"  -> Explored(CopExpert(0), LegalMoves(cops[0]), copMind)
      [] copKind = "net"     -> Sampled("cop", copMind)
      [] copKind = "pursuit" -> Pursue(copMind)
      [] copKind = "barrier" -> PursueOrPlace(copMind)
ThiefDecisions ==
    CASE thiefKind = "expert"   -> Explored(ThiefExpert, LegalMoves(thief), thiefMind)
      [] thiefKind = "random"   -> Sampled("thief", thiefMind)
      [] thiefKind = "flee"     -> Flee(thiefMind)
      [] thiefKind = "adaptive" -> FleeOrNet(thiefMind)

FreshCop == [seen |-> Unseen, placed |-> 0, just |-> FALSE]
FreshThief == [seen |-> Unseen, switched |-> FALSE]
-----------------------------------------------------------------------------
PlayInit ==
    /\ Init
    /\ \/ driver \in {"watch", "collect"} /\ copKind = "oracle" /\ thiefKind = "expert"
       \/ /\ driver = "evaluate"
          /\ copKind \in {"oracle", "net", "pursuit", "barrier"}
          /\ thiefKind \in {"random", "flee", "adaptive"}
    /\ copMind = FreshCop /\ thiefMind = FreshThief
    /\ since = [r \in Roles |-> 0]
    /\ sighted = [r \in Roles |-> NoCell]
    /\ game = 1 /\ banked = 0 /\ rows = 0 /\ totals = [r \in Roles |-> 0]
    /\ play = 1 /\ outcomes = {}

(* env.reset with a new seed; the cop is reset, the thief a new one, and a  *)
(* new_sub_game opens new wire sessions.                                    *)
NewGame ==
    /\ Reset /\ play' = play + 1
    /\ copMind' = FreshCop /\ thiefMind' = FreshThief
    /\ since' = [r \in Roles |-> 0]
    /\ sighted' = [r \in Roles |-> NoCell]

(* One turn of play_matchup's loop; SpectatorSession.step before the end; a *)
(* row of the data set, and the step after it.                              *)
Tick ==
    /\ winner = "none"
    /\ driver = "collect" => rows < NumPairs
    /\ rows' = IF driver = "collect" THEN rows + 1 ELSE rows
    /\ \E c \in CopDecisions, t \in ThiefDecisions :
          /\ Step([i \in Cops |-> c.act], t.act)
          /\ copMind' = c.mind /\ thiefMind' = t.mind
    /\ since' = [r \in Roles |-> Counted(r)]
    /\ sighted' = [r \in Roles |-> IF Image(r).other_visible = {} THEN sighted[r] ELSE Cell(Other(r))]
    /\ UNCHANGED <<bankVars, kindVars>>

(* evaluate_matchup goes to its next seed. *)
NextMatchup ==
    /\ driver = "evaluate" /\ winner # "none" /\ game < NumGames
    /\ NewGame /\ game' = game + 1
    /\ UNCHANGED <<banked, totals, outcomes, kindVars, rows>>

(* _collect_pairs, while rows are missing: the next episode. *)
NextEpisode ==
    /\ driver = "collect" /\ winner # "none" /\ rows < NumPairs
    /\ NewGame /\ game' = game + 1
    /\ UNCHANGED <<banked, totals, outcomes, kindVars, rows>>

(* SpectatorSession.reset: the current sub-game again, finished or not.     *)
WatchReset ==
    /\ driver = "watch" /\ play <= MaxReplays + game
    /\ NewGame
    /\ UNCHANGED <<game, banked, totals, outcomes, kindVars, rows>>

\* Mutant: the last game can be taken again.
MayBankAgain == winner # "none"
(* The early return of next_sub_game. *)
MayBank == winner # "none" /\ banked < NumGames

(* next_sub_game. *)
WatchNext ==
    /\ driver = "watch" /\ MayBank
    /\ totals' = [r \in Roles |-> totals[r] + Points[winner][r]]
    /\ banked' = banked + 1
    /\ outcomes' = outcomes \union {<<play, winner>>}
    /\ IF banked + 1 >= NumGames THEN UNCHANGED <<vars, mindVars, play, game>>
       ELSE NewGame /\ game' = game + 1
    /\ UNCHANGED <<kindVars, rows>>

Over == (winner # "none" \/ rows = NumPairs) /\ UNCHANGED playVars
PlayNext == Tick \/ NextMatchup \/ NextEpisode \/ WatchReset \/ WatchNext \/ Over
PlaySpec == PlayInit /\ [][PlayNext]_playVars
-----------------------------------------------------------------------------
(* wire_obs: the payload lets an agent "rebuild the EXACT env-emitted"      *)
(* observation and mask, on every tick, whatever radius above its own the   *)
(* referee masks with; the stand-in cell is never one in view.              *)
WireObsExact ==
    winner = "none" =>
        /\ WireSees("cop") = env!LeadCopSees
        /\ WireSees("thief") = env!ThiefSees
        /\ \A r \in Roles : Payload(r, RefereeRadius).opponent_pos = NoCell
                                => Distance(FarCell(Cell(r)), Cell(r)) > Radius

(* Dead reckoning: where a policy believes its opponent was last seen is    *)
(* where it was last seen.  The mask's fallback gives a boxed-in actor moves*)
(* that are not made, which would shift the belief alone: with a view as    *)
(* short as the config's radii (at most 2) no play brings a policy with a   *)
(* belief there.  (An adaptive thief drops the belief once it switched.)    *)
BeliefIsSighting ==
    \A r \in Roles :
        LET seen == IF r = "cop" THEN copMind.seen ELSE thiefMind.seen
        IN  (seen # Unseen /\ (r = "thief" => ~thiefMind.switched)) =>
                sighted[r] = <<Cell(r)[1] + seen[1], Cell(r)[2] + seen[2]>>

(* Every policy asks for an action the mask allows; so do the experts, which*)
(* never see the mask, on any board play leads to (they label the data set  *)
(* the nets are cloned from).                                               *)
ChoicesLegal ==
    winner = "none" =>
        /\ \A c \in CopDecisions : c.act \in Mask("cop")
        /\ \A t \in ThiefDecisions : t.act \in Mask("thief")
        /\ \A r \in Roles : Label(r) \in Mask(r)

(* cop_expert "plays the FIRST step on a shortest path (lowest Action enum  *)
(* index tie-break)" around any barriers play puts up.                      *)
OracleShortest == BfsFirstStep(cops[0], thief) = ShortestStep(cops[0], thief)

(* The spectator's totals are the scores of num_games different plays at    *)
(* most, each taken once, whatever the user presses.                        *)
BankedOnce ==
    /\ banked = Cardinality(outcomes) /\ banked <= NumGames
    /\ \A r \in Roles :
           totals[r] = MapThenSumSet(LAMBDA o : Points[o[2]][r], outcomes)
=============================================================================
