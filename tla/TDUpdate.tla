------------------------------ MODULE TDUpdate ------------------------------
(***************************************************************************)
(* From a rollout to the loss: collect_episode and RecurrentPolicy,        *)
(* pad_episode, the guard of the replay buffer, and update() of QmixLearner*)
(* (QMIX and VDN) and of IqlLearner and ThiefLearner                       *)
(* (src/src/services, src/src/marl/learner, src/src/marl/replay).          *)
(*                                                                         *)
(* Tensors hold time stamps instead of numbers: a frame, an action, a      *)
(* reward or a legality mask is the tick it belongs to, Blank where the    *)
(* array keeps its zeros.  A Q-value is known by the agent id and the      *)
(* frames the recurrent net saw before it, since initial_hidden.           *)
(***************************************************************************)
EXTENDS Integers

CONSTANT MaxMoves   \* game.max_moves, the padded horizon

ASSUME HorizonAssumption == MaxMoves \in Nat \ {0}

Blank == -1
Steps == 0 .. MaxMoves - 1
Frames == 0 .. MaxMoves         \* the T+1 axis

-----------------------------------------------------------------------------
(* RecurrentPolicy.act: agent n's input at tick t, all frames since reset().*)
Acting(t, n) == [agent |-> n, seen |-> [k \in 0 .. t |-> k]]

(* collect_episode: the records of a sub-game that took len ticks.          *)
Rollout(len) ==
    [t \in 0 .. len - 1 |-> [obs |-> t, nxt |-> t + 1, act |-> t, rew |-> t,
                             nmask |-> t + 1, done |-> t = len - 1]]

(* pad_episode: agents in the leading slots, the last record's next frame at*)
(* index len, zeros elsewhere.                                              *)
Padded(records, len, agents, width) ==
    LET slots == 0 .. width - 1
        PerAgent(axis, Value(_), last) ==
            [t \in axis |-> [n \in slots |-> IF n < agents /\ t <= last THEN Value(t) ELSE Blank]]
        Frame(t) == IF t < len THEN records[t].obs ELSE records[len - 1].nxt
        Action(t) == records[t].act
        Reward(t) == records[t].rew
        NextMask(t) == records[t].nmask
    IN  [obs     |-> PerAgent(Frames, Frame, len),
         state   |-> [t \in Frames |-> IF t <= len THEN Frame(t) ELSE Blank],
         actions |-> PerAgent(Steps, Action, len - 1),
         reward  |-> PerAgent(Steps, Reward, len - 1),
         legal   |-> PerAgent(Steps, NextMask, len - 1),
         done    |-> [t \in Steps |-> t < len /\ records[t].done],
         filled  |-> [t \in Steps |-> t < len],
         active  |-> {n \in slots : n < agents}]

(* validate_step_semantics: filled is a prefix and not empty, done nowhere  *)
(* but at its end.                                                          *)
Admissible(ep) ==
    \E last \in Steps :
        /\ \A t \in Steps : ep.filled[t] <=> t <= last
        /\ \A t \in Steps : ep.done[t] => t = last

-----------------------------------------------------------------------------
(* bptt_unroll: agent n's hidden state is carried over the frames up to t.  *)
Unrolled(ep, t, n) == [agent |-> n, seen |-> [k \in 0 .. t |-> ep.obs[k][n]]]

(* gather_chosen. *)
Chosen(ep, t, n) == [q |-> Unrolled(ep, t, n), action |-> ep.actions[t][n]]

(* masked_argmax of the net that picks, valued by the target net: one of the*)
(* actions of the mask at index t, from the frames up to t + 1.             *)
Bootstrap(ep, t, n) == [q |-> Unrolled(ep, t + 1, n), among |-> ep.legal[t][n]]

\* Mutant: the phantom agent of a one-cop stage is mixed in.
MixedWithPhantoms(ep) == DOMAIN ep.obs[0]

(* The utilities that are not multiplied by 0 before either mixer, and the  *)
(* rewards _active_mean is taken of.                                        *)
Mixed(ep) == ep.active

(* masked_huber: the steps whose TD error is not multiplied by 0.           *)
Kept(ep) == {t \in Steps : ep.filled[t]}

(* QmixLearner.update: one TD error a filled step, of the mixed utilities.  *)
CentralLoss(ep) ==
    {[step    |-> t,
      chosen  |-> {Chosen(ep, t, n) : n \in Mixed(ep)}, state |-> ep.state[t],
      rewards |-> [n \in Mixed(ep) |-> ep.reward[t][n]],
      next    |-> IF ep.done[t] THEN {}
                  ELSE {[values |-> {Bootstrap(ep, t, n) : n \in Mixed(ep)},
                         state  |-> ep.state[t + 1]]}]
        : t \in Kept(ep)}

(* IqlLearner.update: one for each filled step of each active agent.        *)
AgentLoss(ep) ==
    {[step   |-> t,
      chosen |-> Chosen(ep, t, n), reward |-> ep.reward[t][n],
      next   |-> IF ep.done[t] THEN {} ELSE {Bootstrap(ep, t, n)}]
        : t \in Kept(ep), n \in ep.active}

-----------------------------------------------------------------------------
(* What the two losses should be for a game of len ticks by that many       *)
(* agents: every tick of every agent once, from what its policy acted on,   *)
(* the next tick valued from what the policy would have acted on there, over*)
(* the actions legal there, and nothing beyond the end of the game.         *)
Next1(t, n) == [q |-> Acting(t + 1, n), among |-> t + 1]

GameByTeam(len, agents) ==
    {[step    |-> t,
      chosen  |-> {[q |-> Acting(t, n), action |-> t] : n \in 0 .. agents - 1}, state |-> t,
      rewards |-> [n \in 0 .. agents - 1 |-> t],
      next    |-> IF t = len - 1 THEN {}
                  ELSE {[values |-> {Next1(t, n) : n \in 0 .. agents - 1}, state |-> t + 1]}]
        : t \in 0 .. len - 1}

GameByAgent(len, agents) ==
    {[step   |-> t,
      chosen |-> [q |-> Acting(t, n), action |-> t], reward |-> t,
      next   |-> IF t = len - 1 THEN {} ELSE {Next1(t, n)}]
        : t \in 0 .. len - 1, n \in 0 .. agents - 1}
=============================================================================
