------------------------------ MODULE SelfPlay ------------------------------
(***************************************************************************)
(* Alternating best-response training up the curriculum: SelfPlayTrainer,  *)
(* OpponentPool, the replay rings, the learners' update counters and       *)
(* finetune_curriculum (src/src/services, src/src/marl).                   *)
(*                                                                         *)
(* Weights are known by how many updates made them.  An episode is known   *)
(* by its number in the stage, who trained, against whom, its real steps   *)
(* and how many agent slots it fills.                                      *)
(***************************************************************************)
EXTENDS EpisodeRing, TDUpdate, Sequences, FiniteSets, SequencesExt

CONSTANTS
    CopsByStage,        \* env.curriculum.num_cops_by_stage of the stages trained
    Rounds,             \* selfplay.rounds
    EpisodesPerRound,   \* selfplay.episodes_per_round
    UpdateRatio,        \* selfplay.update_ratio
    WindowK,            \* selfplay.window_k
    PoolSize,           \* selfplay.pool_size
    MinReplay,          \* replay.min_replay_episodes
    SyncInterval,       \* algo.target_update_interval
    AnnealSteps         \* training.eps_anneal_env_steps

(* _validate_config, and a warmup the ring can hold: with a larger          *)
(* min_replay_episodes no update would ever run.                            *)
ASSUME TrainerAssumption ==
    /\ CopsByStage \in Seq({1, 2}) /\ CopsByStage # <<>>
    /\ {Rounds, EpisodesPerRound, UpdateRatio, WindowK, SyncInterval}
         \subseteq Nat \ {0}
    /\ {PoolSize, MinReplay, AnnealSteps} \subseteq Nat
    /\ MinReplay <= Capacity

Roles == {"cop", "thief"}
Rival(role) == IF role = "cop" THEN "thief" ELSE "cop"
Heuristic == [round |-> -1, updates |-> -1, agents |-> 0]

VARIABLES
    stage,      \* the curriculum stage being trained
    round,      \* round_idx within the stage
    playing,    \* within _round, after _policies
    played,     \* episodes of this round so far
    learner,    \* per role: online weights, target weights, _updates
    ring,       \* per role: its replay buffer
    pool,       \* per role: _snaps
    opponent,   \* _opp
    oppWindow,  \* _opp_window
    steps       \* _env_steps, as far as linear_epsilon tells them apart

vars == <<stage, round, playing, played, learner, ring, pool, opponent, oppWindow, steps>>

-----------------------------------------------------------------------------
(* Schedule.                                                                *)
Window(r) == r \div WindowK
TrainingRole(r) == IF Window(r) % 2 = 0 THEN "cop" ELSE "thief"
Trainee == TrainingRole(round)

(* Agents a role's team has in stage s.                                     *)
Team(role, s) == IF role = "cop" THEN CopsByStage[s] ELSE 1

(* Agent slots of a role's buffer, net and mixer: _COP_SLOTS in every stage.*)
Width(role) == IF role = "cop" THEN 2 ELSE 1

(* Learner: OneUpdate is update() with its _maybe_sync.                     *)
OneUpdate(l) ==
    LET n == l.updates + 1
    IN [online |-> l.online + 1, updates |-> n,
        target |-> IF n % SyncInterval = 0 THEN l.online + 1 ELSE l.target]

Trained(l) ==
    LET after[k \in 0 .. UpdateRatio] == IF k = 0 THEN l ELSE OneUpdate(after[k - 1])
    IN after[UpdateRatio]

(* A learner built around injected weights clones its target from them.     *)
CountCarried(l) == [l EXCEPT !.target = l.online]   \* mutant: _updates not reset
NewLearner(l) == [online |-> l.online, target |-> l.online, updates |-> 0]

(* Pool: FIFO behind the heuristic at index 0.                              *)
FloorEvicted(snaps) == IF Len(snaps) > PoolSize + 1 THEN Tail(snaps) ELSE snaps  \* mutant: pop(0)
Capped(snaps) == IF Len(snaps) > PoolSize + 1 THEN RemoveAt(snaps, 2) ELSE snaps
Sampled(snaps) == ToSet(snaps)
(* The trainee's online net, cloned.                                        *)
Snapshot == [round |-> round, updates |-> learner[Trainee].online,
             agents |-> Team(Trainee, stage)]

(* Episode: pad_episode marks the real steps and the real agents.           *)
NoEpisode == [id |-> -1, opponent |-> Heuristic, len |-> 0, active |-> 0]
(* collect_episode steps at least once and stops by max_moves.              *)
Lengths == 1 .. MaxMoves
EpisodeId == round * EpisodesPerRound + played
Episode(role, len) ==
    [id |-> EpisodeId, opponent |-> opponent, len |-> len, active |-> Team(role, stage)]

Stored(len) == [r \in Roles |-> Added(ring[r], Episode(r, len))]

(* linear_epsilon tells step counts apart up to the anneal horizon.          *)
Annealed(n) == IF n < AnnealSteps THEN n ELSE AnnealSteps

Warm(buf) == buf.size >= MinReplay

-----------------------------------------------------------------------------
(* __init__ of the trainer: new buffers, pools and counters.                 *)
NewRings == [r \in Roles |-> EmptyRing(NoEpisode)]
NewPools == [r \in Roles |-> <<Heuristic>>]

Init ==
    /\ stage = 1 /\ round = 0 /\ playing = FALSE /\ played = 0
    /\ learner = [r \in Roles |-> NewLearner([online |-> 0, target |-> 0, updates |-> 0])]
    /\ ring = NewRings /\ pool = NewPools
    /\ opponent = Heuristic /\ oppWindow = -1
    /\ steps = 0

(* _frozen_opponent: drawn from the rival's pool once a window, then held.  *)
DrawnEachRound(o) == opponent' = o /\ oppWindow' = Window(round)     \* mutant: not held
FrozenOpponent(o) ==
    IF Window(round) # oppWindow
    THEN opponent' = o /\ oppWindow' = Window(round)
    ELSE UNCHANGED <<opponent, oppWindow>>

StartRound ==
    /\ ~playing /\ round < Rounds
    /\ playing' = TRUE
    /\ \E o \in Sampled(pool[Rival(Trainee)]) : FrozenOpponent(o)
    /\ UNCHANGED <<stage, round, played, learner, ring, pool, steps>>

(* One pass of the loop in _round: roll out, store both roles, train.       *)
PlayEpisode(len) ==
    /\ playing /\ played < EpisodesPerRound
    /\ ring' = Stored(len)
    /\ steps' = Annealed(steps + len)
    /\ learner' = IF Warm(ring'[Trainee])
                  THEN [learner EXCEPT ![Trainee] = Trained(@)] ELSE learner
    /\ played' = played + 1
    /\ UNCHANGED <<stage, round, playing, pool, opponent, oppWindow>>

(* The round ends with the trainee's weights joining its pool.              *)
EndRound ==
    /\ playing /\ played = EpisodesPerRound
    /\ pool' = [pool EXCEPT ![Trainee] = Capped(Append(@, Snapshot))]
    /\ round' = round + 1 /\ playing' = FALSE /\ played' = 0
    /\ UNCHANGED <<stage, learner, ring, opponent, oppWindow, steps>>

(* finetune_curriculum: a new trainer around the carried nets.              *)
NewTrainer ==
    /\ ring' = NewRings /\ pool' = NewPools
    /\ learner' = [r \in Roles |-> NewLearner(learner[r])]
    /\ opponent' = Heuristic /\ oppWindow' = -1
    /\ steps' = 0

NextStage ==
    /\ ~playing /\ round = Rounds /\ stage < Len(CopsByStage)
    /\ stage' = stage + 1 /\ round' = 0
    /\ NewTrainer
    /\ UNCHANGED <<playing, played>>

Next == StartRound \/ (\E len \in Lengths : PlayEpisode(len)) \/ EndRound \/ NextStage

Spec == Init /\ [][Next]_vars

-----------------------------------------------------------------------------
EpisodesSoFar == EpisodeId

(* What a batch can draw is the newest games of this stage, as many as the  *)
(* ring holds: never a blank slot, a game twice, or a game of the stage     *)
(* before; and each shows the team of this stage in its active mask.        *)
BatchIsNewestGames ==
    \A r \in Roles :
        LET drawn == {ring[r].slot[i] : i \in Sampleable(ring[r])}
        IN /\ {e.id : e \in drawn} =
                {n \in 0 .. EpisodesSoFar - 1 : n >= EpisodesSoFar - Capacity}
           /\ Cardinality(drawn) = ring[r].size
           /\ \A e \in drawn : e.active = Team(r, stage) /\ e.len >= 1

(* Rounds of this stage in which role has trained to the end.               *)
TrainedRounds(role) == {r \in 0 .. round - 1 : TrainingRole(r) = role}

(* A pool is the heuristic, then one snapshot for each of the role's last   *)
(* PoolSize rounds, oldest first, of this stage's team size and of ever     *)
(* later weights.                                                           *)
PoolIsRecentHistory ==
    \A role \in Roles :
        LET snaps == Tail(pool[role])
            held  == Len(snaps)
        IN /\ Head(pool[role]) = Heuristic
           /\ held = (IF Cardinality(TrainedRounds(role)) < PoolSize
                      THEN Cardinality(TrainedRounds(role)) ELSE PoolSize)
           /\ \A k \in 1 .. held :
                 /\ snaps[k].round \in TrainedRounds(role)
                 /\ Cardinality({r \in TrainedRounds(role) : r > snaps[k].round}) = held - k
                 /\ snaps[k].agents = Team(role, stage)
                 /\ k > 1 => snaps[k - 1].updates <= snaps[k].updates

(* One opponent a window: the games of a window in the buffers were all     *)
(* played against the opponent held now, if the window is still open, and   *)
(* against one another's otherwise; a net among them is the rival's, made   *)
(* in this stage before the window opened.                                  *)
GameWindow(e) == Window(e.id \div EpisodesPerRound)
GamesDrawn == {ring["cop"].slot[i] : i \in Sampleable(ring["cop"])}
OneOpponentAWindow ==
    \A e \in GamesDrawn :
        /\ \A f \in GamesDrawn : GameWindow(e) = GameWindow(f) => e.opponent = f.opponent
        /\ GameWindow(e) = oppWindow => e.opponent = opponent
        /\ e.opponent # Heuristic =>
              /\ TrainingRole(e.opponent.round) # TrainingRole(e.id \div EpisodesPerRound)
              /\ Window(e.opponent.round) < GameWindow(e)

(* No update before the warmup is over, UpdateRatio after every later game, *)
(* and the warmup is paid once a stage: when the roles swap, the new trainee*)
(* goes on at once with the games it was the opponent in.  The target net   *)
(* trails the online net by the updates since the last multiple of the      *)
(* interval, counted from the start of the stage.                           *)
UpdatesPaced ==
    LET free == IF MinReplay = 0 THEN 0 ELSE MinReplay - 1
        due  == IF EpisodesSoFar > free THEN EpisodesSoFar - free ELSE 0
    IN  /\ learner["cop"].updates + learner["thief"].updates = UpdateRatio * due
        /\ \A r \in Roles :
              learner[r].online - learner[r].target = learner[r].updates % SyncInterval

(* Whatever an update draws, with a mixer or without one, its loss is the   *)
(* game that was played: each tick of each agent once and no padding, no    *)
(* phantom of a one-cop stage in the two-cop buffer, no value from beyond   *)
(* the end; and the buffer's guard never refuses an episode.                *)
LossIsTheGame ==
    \A r \in Roles : \A i \in Sampleable(ring[r]) :
        LET e  == ring[r].slot[i]
            ep == Padded(Rollout(e.len), e.len, e.active, Width(r))
        IN  /\ Admissible(ep)
            /\ CentralLoss(ep) = GameByTeam(e.len, Team(r, stage))
            /\ AgentLoss(ep) = GameByAgent(e.len, Team(r, stage))
=============================================================================
