# A verification development for MARLCopsRobbers

TLA+ models of the parts of this repository whose correctness depends on orders
of events: the referee that plays a bonus match over the network and the
verifier that audits its published artefacts, the match over MCP with its two
agent servers, the self-play trainer down to what one update reads, the policies
and the wire view that feeds them, the results log, the pipeline that emails
two reports at most once, the gatekeeper that rate-limits egress, and the game
kernel all of them share. TLC checks the models on small instances; TLAPS
proves the safety properties, and one refinement, for every value of the
constants.

Paths below are relative to the program, so `mcp/wire_referee.py` is
`src/src/mcp/wire_referee.py` in `PROJECT.json` (and `scripts/` is
`src/scripts/`), whose `map` gives the exact lines each definition translates.

## 1. The system

| Component | State it keeps | Operations | What makes it hard | What makes it correct |
|---|---|---|---|---|
| Wire match referee, seed schedule (`mcp/wire_referee.py`, `mcp/wire_schedule.py`) | pair seeds, next spare, pending list, done set, consecutive voids, records, an environment | `play_match`, `_play_sub_game`, `next_game`, `record_result`, `record_void` | a void in any call; a base game already played is requeued when its mirror escalates; spares run out | mirror halves share one layout, no layout serves two pairs, stale records are dropped, the match ends |
| Wire client and agent (`mcp/wire_client.py`, `wire_agent.py`, `wire_obs.py`) | per-agent session, tick, move cache and snapshots | `new_sub_game`, `request_move`, `result`, retries | timeouts with late answers, duplicates, two layers of retries; a masked payload must be enough to decide on | a retry gets the cached answer and never moves the agent twice; the rebuilt observation is the real one |
| Replay verifier (`mcp/_replay_*.py`, `wire_replay.py`) | parsed sessions: spawns, states, actions, voids, seed | `parse_wire_log`, the checks, `replay_match` | the log holds superseded runs, repeated hellos, requeued games; the body is edited by hand | accepts honest artefacts, refuses altered ones |
| Report send pipeline (`reporting/send.py`, `bonus_send.py`, `sentinel.py`, `send_lock.py`) | thread lock, lockfile, append-only sentinel file, redacted copy | load, validate, check, lock, recheck, intent, unlock, send, mark sent; manual repair | threads, processes, clones, crashes anywhere, an SMTP error after delivery, a stale lockfile | a report is emailed at most once; nothing blocks for good |
| Report building, mail transport (`reporting/bonus.py`, `schema.py`, `mailer.py`) | none | totals, claim, validation, redaction | the body is derived twice, by the draft's gate and by the verifier | both derive the same |
| API gatekeeper (`api/gatekeeper.py`) | one token bucket and one bounded queue per channel | `execute` | concurrent callers; a caller runs what others queued; failing thunks | rate kept over every window, FIFO, each paid call runs once |
| Environment kernel (`marl/env`) | positions, barriers, budget, step, winner, visibility counters | `reset`, `step`, masks, observations | simultaneous moves: swaps, two cops placing at once, capture against timeout | budget exact, walls respected, outcome justified |
| Rewards and scores (`marl/env/reward.py`, `scorer.py`) | none | reward of a transition, score of an outcome | terminal transitions; several barriers in one tick | shaping telescopes, the rest is a bill of the sub-game |
| Policies and heuristics (`services/*polic*.py`, `marl/data/heuristics.py`) | a belief, a barrier count, a switch | `act` | dead reckoning; masks against true state | beliefs are sightings, choices are legal, the oracle is a shortest path |
| Spectator (`services/spectator.py`) | sub-game, banked games, totals | `step`, `reset`, `next_sub_game` | buttons pressed in any order | each finished play is banked at most once |
| MCP agent server (`mcp/agent_runtime.py`, `server_builder.py`) | sessions by id: policy, tick cache, last tick, cell; a lock | tools of an agent | duplicate and late requests around a reset | a tick advances the policy once |
| MCP client, local match (`mcp/clients.py`, `referee.py`, `match.py`) | seeds used, valid sub-games, records | warm-up, sub-game with bounded retries, `n*10` attempts, report | a void must stop; a short match must not be reported | the right number of valid sub-games or an error |
| Self-play trainer, pool, buffer (`services/trainer.py`, `selfplay.py`, `rollout.py`, `finetune.py`, `marl/replay`) | side in training, windows, pool of snapshots, ring buffer, stage | alternate, snapshot, push, sample, carry over | evictions, warm-up, counters at their limit | the frozen side does not learn; samples only what was stored |
| Learners, mixers, networks (`marl/learner`) | tensors, update counter | one update | padding, phantom agents, the terminal cut | the loss is the game that was played |
| Run log and results (`results/`, `scripts/run_results.py`) | one append-only file | append, resume, aggregate | a crash between two lines or inside one | a combo is skipped only when it is whole |
| Curriculum class, GUI, SDK, data, command line | | glue and drawing | | see section 7 |

How they interact. The wire referee owns a `CopsRobbersEnv` and a
`SeedSchedule`; for each sub-game it calls `new_sub_game`, `request_move` and
`result` on remote agents through the wire client, advances the environment
with the answers, and writes every exchange to a JSONL log. A call that fails
for good raises `VoidSubGame`, which the schedule turns into a replay, a new
seed or the end of the match. The agent rebuilds an observation from the masked
payload and asks its policy. The verifier reads the log and the published body
and plays every sub-game again on an environment of its own. The body goes
through `gated_idempotent_send`, whose thunk the gatekeeper admits; the
sentinel and lockfile are what its launches share with other processes.

`PROJECT.json` lists the components with their status, and the hazards of this
code at the line where each one bites, with the properties that would catch
them; a hazard without a property says why.

## 2. The modules

| Module | Models | Composes |
|---|---|---|
| `SeedSchedule` | `SeedSchedule` | |
| `WireMatch` | `WireReferee.play_match`, the log as `parse_wire_log` accumulates it | extends `SeedSchedule` |
| `PairedMatch` | abstract: what the schedule promises both groups | |
| `PublishedBody` | `build_bonus_report`, `validate_bonus`, and the verifier's checks of a body | |
| `ReplayVerify`, `MCReplayVerify` | the schedule-level checks of the verifier, and the refinement mapping | extends `WireMatch`, `PublishedBody`; instantiates `PairedMatch` |
| `WireMatchProofs` | proofs about `WireMatch` and `ReplayVerify` | extends `ReplayVerify` |
| `CopsRobbers` | `CopsRobbersEnv` | |
| `CopsRobbersProofs` | proofs about `CopsRobbers` | extends `CopsRobbers` |
| `Rewards` | `RewardModel` summed over a sub-game | extends `CopsRobbers` |
| `Observations` | `build_observation`, `encode_image`, the mask | extends `CopsRobbers` |
| `WirePayload` | `mask_payload` | extends `CopsRobbers` |
| `ReplayGame`, `MCReplayGame` | one sub-game of the wire match tick by tick, its log, its audit | extends `WirePayload` |
| `ReplayGameProofs` | proofs about `ReplayGame` | extends `ReplayGame`, `CopsRobbersProofs` |
| `Heuristics` | the two experts | extends `CopsRobbers` |
| `PolicyPlay`, `MCPolicyPlay` | the scripted policies, `wire_obs`, three drivers: matchup, spectator, data collection | extends `WirePayload`, `Heuristics`; instantiates `Observations` twice |
| `PlayProofs` | proofs about `PolicyPlay`, the experts, the wire view and `Rewards` | extends `PolicyPlay`, `Rewards`, `CopsRobbersProofs` |
| `WireAgent` | `WireAgentServer`: registry, cache, snapshots, sticky switch | |
| `WireMove` | `_roundtrip` around `WireClient._post`, abandoned workers and late requests | extends `WireAgent` |
| `WireMoveProofs` | proofs about `WireMove` and the agent in it | extends `WireMove` |
| `AgentServer` | `AgentController` behind the MCP tools | |
| `LocalMatch` | `run_local_match`, `MatchRunner`, `Referee`, `AgentClient`, delayed tool calls | extends `AgentServer` |
| `LocalMatchProofs` | proofs about `LocalMatch` and its servers | extends `LocalMatch` |
| `EpisodeRing` | `EpisodeReplayBuffer` | |
| `TDUpdate` | from a rollout through the padding to the loss of the three learners | |
| `SelfPlay`, `MCSelfPlay` | `SelfPlayTrainer`, `OpponentPool`, update counters, `finetune_curriculum` | extends `EpisodeRing`, `TDUpdate` |
| `RunLog`, `MCRunLog` | the results matrix and its log | |
| `TrainingProofs` | proofs about `SelfPlay`, the ring, the loss and `RunLog` | extends `SelfPlay`, `RunLog` |
| `SendPipeline`, `MCSendPipeline` | both send paths, sentinel, lock | |
| `Gatekeeper` | `ApiGatekeeper.execute`, `_TokenBucket` | |
| `DeliveryProofs` | proofs about `SendPipeline` and `Gatekeeper` | extends `SendPipeline`, `Gatekeeper` |

Operators whose comment begins with "mutant" are not part of a model: each is a
plausible slip in the definition below it (a dropped guard, an off-by-one, a
forgotten reset). `PROJECT.json` pairs every property with one that breaks it.

### SeedSchedule and WireMatch

`pairSeed`, `spare`, `pending`, `done` and `voids` are the fields of
`SeedSchedule`. Seeds are known by their position in the agreed list (the code
only ever indexes it), which takes the list to be free of duplicates.
`record_result` and `record_void` are the actions `RecordResult` and
`ReplayVoid` / `Escalate` / `VoidExhausted`, the last one being the branch that
raises. `WireMatch` adds the loop of `play_match`: `HelloOk`, `MoveOk` and
`FinishSubGame` are calls that answered, `HelloVoid` and `MoveVoid` calls that
ended in `VoidSubGame`. The variable `session` is what the verifier's parser
holds after the lines logged so far, changed in the same step as the line is
written: `ParseHello`, `ParseMove`, `ParseResult`. A hello is logged before its
answer is known, so `HelloVoid` logs it too. `results` and `voidEvents` count
events and never decide anything. What happens inside a sub-game is opened up
by `ReplayGame`, what happens inside one call by `WireMove`.

### PublishedBody and ReplayVerify

A body is a list of entries with the derived totals and claim. `Built` is the
draft, `DraftValid` the gate of the send path, `BodyVerified` the checks
`replay_match` makes before it replays a move. `Altered` enumerates what may
become of a body in between: entries rewritten, lost, duplicated or put first
with an early date, groups exchanged, totals recomputed or left alone.
`ReplayVerify` applies the checks to the state `WireMatch` reaches, with every
assignment of winners.

### ReplayGame

`phase` is where `_play_sub_game` stands (`greet_cop`, `greet_thief`, `ask_cop`,
`ask_thief`), then `recorded`, then where the verifier stands. `round` and `try`
are the loop counters of the two retry layers, `faults` counts the faults of the
whole call, `session` is the parser's accumulator. `Retries` are the referee's;
`CfgRetries` is what `parse_wire_log` is told of them, which `replay_match`
leaves at its default of one. `PostFaults`, `PostMalformed`, `CopAnswers` and
`ThiefAnswers` are one post each, with the log lines it leaves. A malformed reply may carry no
string, one that no role knows, or a thief's PLACE. After the record is written
`Damage` may alter one payload field of one tick, or the published outcome;
`OpenReplay`, `ReplayTick` and `CloseReplay` are `replay_sub_game`. The
environment's variables belong to the referee before that and to the verifier
after it. `odd`, `started` and `damaged` are history variables.

### Observations, Heuristics and PolicyPlay

A channel of the window image is the set of offsets it marks, a scalar is kept
before it is divided. `WireSees(r)` builds an observation from the payload as
`wire_obs.py` does (a stand-in cell for an opponent out of sight) through a
second instance of `Observations`; `WireObsExact` compares it with the
environment's own. `copMind` and `thiefMind` are what the scripted policies
remember. `driver` chooses `evaluate_matchup`, `SpectatorSession` with a user
who presses buttons at will, or `_collect_pairs` with its exploration; a net is
any choice its mask allows.

`Heuristics` has the breadth-first search of `cop_expert` as a recursive
function over its queue: `Visit` is the loop body for one neighbour, `Dequeue`
the outer loop. The code's ties, the first minimum or maximum in the order of
the moves, are `FirstOf` and `FirstBest`.

### WireAgent and WireMove

The handlers of the agent hold its lock from the first look to the last
assignment, so each request is one step (`NewSubGame`, `ServeMove`). A policy
is known by the views it absorbed since its reset: hidden state, rng and
visibility counter are functions of them, and so is the action answered. The
snapshot that a differing body restores is therefore a prefix, and `switched`,
which survives resets and rewinds, is kept next to it.

`WireMove` is one referee and one role's agent. A call is at most
`(Retries + 1)^2` posts: `Fault` retries a lost, refused or slow post within
the transport budget, `Malformed` repeats the whole call. `Expire` abandons the
worker; its request is lost, was handled too late, or stays in `late`, from
which `HandleLate` may take it at any time: during the retry, after the void
and the next hello, or in another sub-game. The other role's calls appear as
the choice of the next view and as `OtherSideVoids`. The same cap bounds
workers and sessions in the code (`scripts/run_bonus_match.py` passes
`wire_agent.max_sessions` as `max_inflight`); here they are two constants. At
the cap a post fails fast (`FailFast`), which `EveryCallSettles` needs. After a
void the next hello may name any session up to this one (a mirror's escalation
goes back to its base game), after a finished sub-game any later one. Two
attempts are too few for the run to go back to an older session; the theorems
`MovesInStep` and `SwitchNeverReverts` cover it.

`disturbed` is a history variable that no action reads. It records the two
orders in which the agent really loses step: a late hello, and a stale body
handled after the genuine answer of its tick. `InStep` says nothing of an
attempt they have disturbed, and without that excuse it has a counterexample
(4.3). A late hello resets the policy amid an attempt; the code and
its tests promise nothing about it.

### AgentServer and LocalMatch

The two MCP servers of a local match, and the coroutine that plays it. `act`
and `new_session` hold the session's lock throughout, so a tool call is one
step (`Handle`). A request carries the seed offset of the attempt it was made
for, which stands for the spawn cell and for the observation; a hidden state is
the sequence of attempts whose observations it absorbed, one a tick, and so is
the greedy action taken from it. `offset` counts seeds used, `games` is the
record of valid sub-games with their moves, `phase` the call being awaited,
`try` its failed attempts. A call returns or raises (`Reply`), expires with
request or answer lost (`ReplyLost`), or expires with the request still on its
way (`Delayed`); `HandleLate` may take such a request at any time. `Prewarm` is
the health poll, after which the match goes on whatever it found. The
environment is left out: any joint action may end the sub-game, and the one at
`max_moves` must.

Sessions are named by the number of valid games (`referee.py:90`), so a voided
attempt and its replay share one. `chosen` records the hidden state each
accepted move of the attempt came from; `spoilt` is a history variable that no
action reads, set when a session greeted in this attempt absorbs an
observation of an older one. A move request that timed out in the voided
attempt and is handled after the replay's `new_sub_game` does that: the server
sees the tick it expects, advances on the old observation, and answers the
genuine request from its cache. Without `spoilt`, `OwnStream` is violated by
that order, although `agent_runtime.py:4` has one policy per sub-game; a
`new_sub_game` handled late does no such harm, which is what `OwnStream` shows.

### EpisodeRing, TDUpdate and SelfPlay

`EpisodeRing` is one role's replay buffer. The zeroing of a slot, the padding to
`t_max` and the guard on longer episodes make a slot show exactly the episode
written last, so a slot is that episode: its number in the stage, the opponent,
its real steps, and how many agents it fills. `TDUpdate` says what those steps
become: tensors that hold the tick they belong to in place of numbers
(`Rollout`, `Padded`, the buffer's `Admissible`), and the set of TD errors the
learners form of them, a Q-value being known by the agent id and the frames its
recurrent net saw. `CentralLoss` serves QMIX and VDN, `AgentLoss` IQL and the
thief. Weights are known by how many updates made them. `StartRound` is
`_policies` with `_frozen_opponent`; `PlayEpisode` one pass of the loop in
`_round` (roll out, store both sides, update when warm, sync the target when
due); `EndRound` the snapshot with the eviction of the oldest one behind the
heuristic; `NextStage` a new trainer around the carried nets. `steps` counts
environment steps as far as `linear_epsilon` can tell them apart. Metrics and
history are left out.

Assumption: the warm-up fits the ring (`MinReplay <= Capacity`). The
configuration's validation does not ask for it, and a larger warm-up would
silently never train.

### RunLog

`log` is the lines of `history.jsonl`, `ended` whether the file ends in a
newline, `pending` the rows of the training under way that have not been
written. `Crash` may leave part of a line, or a whole line without its newline,
on which the next append lands, whole or torn by a crash of its own. Two trainings of one combo are told apart by a
number, since code or configuration may differ between them.

### SendPipeline

One sender is one thread's launch of a send script; its `pc` names the
statement it is at. It loads a body (`Stored`, `Drafts` with the fallback of a
clone to the tracked redacted `copy`), validates it and, before any check
against a sentinel, writes the redacted copy. The thread lock is per process;
sentinel and lockfile exist per scope and clone. A lockfile is known by its
creator and by whether it is older than the stale threshold, the sentinel by
its two sets of lines. Looking at the age, reading the sentinel and unlinking
are three steps (`SeeStale`, `JudgeStale`, `Reclaim`), and unlinking removes
whatever file the path names by then. `Dial` may deliver, deliver and raise, or
raise. `Crash` ends a process anywhere; `Relaunch` starts it again;
`OperatorClears` is the repair the docs describe. The gatekeeper between the
first check and the thunk has a full bucket in this use and only delays, which
interleaving covers.

Assumption: the critical section (read a small file, append a line) does not
take longer than the 300 s stale threshold while its process lives (`Age`).

### Gatekeeper

Callers are numbered in the order in which they get the lock (`Lock`). Under it
`try_consume` reads the clock anew each time (`Refill`), and the clock may
`Tick` between any two readings: `DrainOne` takes one queued call the bucket
pays for, `DrainEnds` finds nothing more to drain, `Decide` is the caller's own
attempt and runs, rejects or enqueues it, which lets go of the lock.
`RunIsolated` runs one drained thunk outside the lock, `Return` the caller's
own. Tokens are kept in integer units (`Cost` units a token, `PerTick` a tick)
in place of floats. Channels share only the lock. A thunk that calls `execute`
again does so outside the lock and is one more caller to the channel. An
exception that is no `Exception` (an interrupt amid a drained thunk) is left
out: the caller that drained them does not run the rest.

### CopsRobbers and Rewards

`Step` is `CopsRobbersEnv.step` with the whole of `transition`: cops by index
with their barriers, the thief, capture, timeout, memory. Joint actions are not
limited to the masks, since the wire referee checks only the alphabet of a
reply. `Reset` can happen at any time, also amid a voided sub-game.
`CopsWinByMeeting` states a capture without the code's case distinction: two
agents on different cells that are at one point halfway through a tick have
swapped. `OutcomeSettled` is that and `OutcomeJustified`. `MetTogether` has the
visibility counters of a team agree; `WireObsExact` is of one cop and a thief.
`Rewards`
adds both reward modes, with a discount of `GammaNum / GammaDen` (two thirds in
the run) and every sum scaled so that it is an integer.

## 3. What the runs check

| Run | Instance and bounds | Shows |
|---|---|---|
| `wire_match` | 2 mirror pairs, 2 spares, escalation on the 2nd consecutive void, spawn cells distinct per seed; 90,903 states | one seed per pair (`OneSeedPerPair`); honest logs stay within the verifier's per-session cap (`WithinSessionCap`); the parser ends with the surviving run (`SurvivingRunParsed`); spares are paid for by voids (`VoidsPayForSpares`); the draft passes its gate, and the verifier accepts the body exactly when nothing was replayed, and the logged voids pass the match-wide ceiling by no more than the superseded results (`VerifiedUnlessReplayed`); an altered body is refused unless winners, totals and claim are still the match's (`AlteredBodyRefused`); `play_match` implements `PairedMatch`; every match ends |
| `replay_game` | 2x3 board, 1 barrier, 2 moves, 1 base seed and 1 spare, 1 retry in either layer; 193,871 states | exactly which honest logs the audit refuses, and why (`HonestVerdict`); no damaged position, mask, budget or outcome survives it (`DamageCaught`); game and audit end (`AuditEnds`) |
| `replay_voids` | same | violated, see 4.2 |
| `wire_move` | 2 sub-games, 2 attempts, ticks 0 and 1, two views (one fires the switch), 1 retry, 2 workers, 2 late requests, 1 session kept; 519,761 states | a move is decided on the body asked about after exactly the ticks before it, and on this attempt's own bodies unless disturbed (`InStep`); the switch is sticky; every call returns or voids |
| `policy_play` | 3x3 board, 2 barriers, 5 moves, radius 1, referee's radius 2, 2 games, 1 restart, 4 rows; every pairing of policies; 121,033 states | the wire observation and mask are the environment's (`WireObsExact`); a belief is the last sighting (`BeliefIsSighting`); choices and training labels are legal (`ChoicesLegal`); the expert's step is a shortest path's (`OracleShortest`); banking (`BankedOnce`) |
| `local_match` | 2 sub-games, 3 seeds, 2 moves, 2 attempts a call, 2 delayed requests; 1,064,178 states | an attempt's moves come from its own observations, one advance a tick, unless spoilt (`OwnStream`); a report has exactly `num_games` valid sub-games, on seeds in order, with as many moves as were accepted (`ExactlyNumGames`); the match ends |
| `self_play` | stages of 1 and 2 cops, 6 rounds of 2 episodes, windows of 2 rounds, pool of 2, ring of 3, warm-up of 3, 2 updates an episode, sync every 3, games of 1 to 3 ticks; 4,438 states | a batch draws the newest games of the stage (`BatchIsNewestGames`); a pool is the heuristic and the role's last rounds in order (`PoolIsRecentHistory`); one frozen opponent a window (`OneOpponentAWindow`); updates follow the warm-up, which is paid once a stage, and targets trail exactly (`UpdatesPaced`); each loss is the game that was played, without padding, phantoms or a value beyond the end (`LossIsTheGame`) |
| `run_log` | 2 combos of 3 rounds, means over 2, 3 crashes; 6,828 states | a combo that is skipped is whole and of one training (`CompleteIsOneTraining`); the figures get drawn, from every combo (`MatrixCompletes`) |
| `send_pipeline` | a (p1, may crash) and c (p2, approved, two editions or a hand-edited body) send the report, e (p2) the bonus, f the bonus from a clone (p3); p2 is launched twice; 232,852 states | at most one email per report, a second edition only when approved (`OneEmail`); every email is on record and "sent" is never a guess (`EveryEmailOnRecord`); every send settles (`EverySendSettles`) |
| `send_lock_race` | three processes with one report, one may crash | violated, see 4.1 |
| `gatekeeper` | 5 callers, burst 2, half a token refilled a tick, queue of 2, 5 ticks, thunks 1 and 3 raise; 87,414 states | rate over every window (`RateLimited`), FIFO (`FifoAdmission`), nothing waits that could go (`WorkConserving`), admitted calls run whatever the calls drained with them do (`AdmittedRuns`) |
| `cops_team` | 2x3 board, 2 cops, 3 barriers, 4 moves, radius 1, all actions; 143,870 states | exact barrier budget (`BudgetExact`), outcome and walls, and a win for every meeting and no other (`OutcomeSettled`), a mask-legal place is lost to a team mate only (`MaskedPlaceLostToMateOnly`), rewards add up (`ReturnTelescopes`) |

Why the bounds are enough. Two pairs and two spares let both pairs escalate,
one pair escalate twice, and the spares run out, with base games requeued
before, between and after completed ones. In `replay_game` every field of every
payload is damaged at both ticks of a game; one retry in each layer already
gives a third post of a tick, a refused string that is followed by another one,
and voids before and after the first request, and two voids reach the spare.
In `wire_move` two attempts are what
a stale request needs, and they are one sub-game replayed or two sub-games in a
row; with two workers and two late requests a retry and its original can both
come late, and the cap is reached; two ticks have a sealed and a newest one.
The invariants were also explored with three ticks (2.1 million states). In
`policy_play` the board has cells out of sight of each other, barriers that
detour a path, and cells boxed in by them; the referee masks with a larger
radius than the policies see with. In `local_match` the seeds (10 a game in the
code, 3 for two games here) can run out short of the match, and one sub-game can
be voided and replayed with both requests of the voided attempt delayed. In
`self_play` three windows of two rounds swap the roles twice, each role's pool
passes its cap, the ring wraps four times a stage, and sync interval and update
ratio are coprime so that a sync falls inside a round; a one-cop stage leaves a
phantom slot in the two-cop buffer. In `send_pipeline`
every pairing occurs: two threads of one process, two processes, two scopes, a
clone, a relaunch. Only the process that is not relaunched may crash; otherwise
two reclaimers could meet, which is 4.1. Five callers with a burst of two fill
the queue, have a caller rejected, and let one caller drain two others, one of
them failing. On the 2x3 board two cops meet on one cell, swap with the thief,
wall each other in, spend the last barrier at the same tick, and time out.
State numbers are those of a full exploration.

Deadlock is checked in every run but `self_play`, where training ends with the
last stage: where a component really stops, a step that changes nothing says
when (`Stopped`, `AllSettled`, `Quiet`, `Over`).

Fairness. `wire_match` assumes weak fairness of `Next` as a whole: the referee
is one thread, each call is joined at its wall-clock budget, and a sub-game
ends by `max_moves`. That does not favour answers over voids, and the model
still ends, because voids use up spares; but `MoveOk` may repeat only as a
stutter, so it cannot keep the match from ending. `replay_game` assumes that
referee and verifier, loops of one thread each, go on; damage gets none.
`run_log` assumes that a running process goes on, that it is started again
after a crash, and that somebody deletes a log that cannot be read; crashes are
bounded and get none. `send_pipeline` assumes that
each live thread keeps taking its steps (the poll loop has a deadline, SMTP
returns or raises); crashes, ageing, relaunches and the operator get no
fairness. `wire_move` assumes only that the referee's thread goes on (`join`
returns at the budget), nothing of the agent, the network or abandoned workers.
`local_match` assumes that the referee's coroutine goes on, because `wait_for`
bounds every call, and nothing of servers or delayed requests. `gatekeeper`
assumes that a caller that has got the lock goes on; nothing forces new callers
to come. The other runs claim no liveness.

## 4. Where the code and its words differ

The first two are runs that end in a counterexample.

1. `send_lock_race`. `_refuse_or_reclaim` unlinks by path after two separate
   reads. A process crashes with the lockfile; two others find it stale; one
   unlinks it and creates its own; the other unlinks that one; both pass the
   check and send. This needs two reclaiming processes at once, which is why
   `send_pipeline` has at most one.
2. `replay_voids`. `verify_void_attempts` says that a partner who times out on
   the first move leaves attempts that must be accepted. The first move asked
   for is the cop's, its void leaves no payload of the thief, and `verify_tick`
   wants both: the honest log is refused.

The others are part of properties that hold because they say what the code
does, or were met while modelling.

3. `InStep` without its `~disturbed`. `test_wire_agent_races.py` promises that a
   stale request that finishes after the void's reset cannot poison the new run,
   and tests one handled before the genuine body of its tick. A body does not
   say which attempt it is of, so `serve_move` recomputes the newest tick for
   any that differs. Handled after the genuine body, the stale one replaces the
   policy's state, and the next tick is answered from there.
4. `VerifiedUnlessReplayed`, the match-wide ceiling. `verify_escalation_budget`
   says that a match cannot reach more voids than it. It was widened for
   requeued games, but by one run of void replays only: the superseded run of the
   requeued base game counts as a void as well. The property has the honest
   excess, one void for each superseded result, and the run reaches it: with two
   spares, 12 voids where the ceiling is 10.
5. `HonestVerdict` names the other ways in which an honest sub-game is refused.
   A move that needed both retry layers has more than `1 + retries` posts; a
   malformed reply whose action is a string is recorded as an answer, so the
   valid one after it looks like a re-attempt; and a spare reached by hellos
   that failed is not paid for, because the parser counts only attempts with a
   request_move and `verify_escalation_budget` bills every void.
6. `VerifiedUnlessReplayed`, the order. The records in id order must move forward
   in time, and the default replay must find a log whose result events are the records.
   A base game requeued by its mirror's escalation breaks both, so an honest
   match with one is refused (for any number of pairs but one).
7. A void attempt keeps no actions, so of its disclosed ticks only the first is
   verified, where the docstring (`_replay_seed.py`) says every tick.
8. The referee masks with `mcp.observation.view_radius`, the verifier with the
   environment's `view_radius`: `replay_game` takes them equal, `policy_play`
   does not, since an agent only needs the first to be no smaller.
9. `action_mask` says a mask-legal PLACE never degrades to a stay. With two
   cops the one of the higher index can lose it to its mate, to whom
   `MaskedPlaceLostToMateOnly` limits the loss.
10. `scripts/run_results.py` says that a crash in the middle of an append runs
   the combo again. A torn line makes `done_runs` and `load_runs` raise instead,
   until the log is deleted (`DeleteLog`).
11. Any valid body, also one whose send is then refused, overwrites the tracked
   redacted copy, which is written before the sentinel is read.
12. `docs/interfaces/partner_reply_round1.md` has the referee greet an agent
   again that does not know its session, at most twice and not as a fault.
   `WireClient` takes every answer that is not a success for a fault: a retry,
   then a void. `WireMove` has the code's behaviour; no property depends on it.

A limit of `SurvivingRunParsed`: it needs spawn cells that differ between
seeds, as in the instance. If two seeds put the cop on the same cell, a
hello-phase void that escalates looks to the parser like a retry followed by a
superseding hello of the thief, which wipes the cop's spawn.

## 5. What is proved

`tlapm` checks every theorem to the last leaf, for every value of the constants
that the modules' assumptions allow (`ScheduleAssumption`, `BoardAssumption` and
so on, which TLC evaluates in the runs). Each module has an inductive invariant,
of which the initial states, each action and the stuttering step are one lemma
or step each; the properties follow from it. What a run checks of a property on
its instance, the theorem says of every instance.

| Property | Theorem | Hypothesis |
|---|---|---|
| `OneSeedPerPair`, `WithinSessionCap`, `VoidsPayForSpares`, `ImplementsPairedMatch` | `SeedsResolveToPairs`, `SessionCapSound`, `SparesArePaidFor`, `Refinement` | |
| `SurvivingRunParsed` | `LastRunParsed` | `CopTellsThief` |
| `VerifiedUnlessReplayed` | `VerifiedExactly` | more than one pair |
| `AlteredBodyRefused` | `AlterationsRefused` | |
| `HonestVerdict` | `HonestIsVerified` | `SameRadius`, `CopTellsThief` |
| `DamageCaught` | `DamageIsCaught` | `SameRadius` |
| `InStep`, `SwitchSticky` | `MovesInStep`, `SwitchNeverReverts` | |
| `OwnStream`, `ExactlyNumGames` | `StreamIsOwn`, `ReportsExactlyNumGames` | |
| `BatchIsNewestGames`, `PoolIsRecentHistory`, `OneOpponentAWindow`, `UpdatesPaced`, `LossIsTheGame` | `BatchIsOfNewestGames`, `PoolIsOfRecentRounds`, `WindowHasOneOpponent`, `UpdatesKeepPace`, `LossIsOfTheGame` | |
| `EveryEmailOnRecord` | `OnRecord` | |
| `OneEmail` | `OnlyTheRaceRepeats` | `OneSource`, and no reclaim race |
| `OneEmail` | `EmailedOnce` | `OneSource`, `SingleReclaimer` |
| `RateLimited`, `FifoAdmission`, `WorkConserving` | `RateIsLimited`, `AdmissionIsFifo`, `NothingWaitsInVain` | |
| `BudgetExact`, `OutcomeSettled`, `MaskedPlaceLostToMateOnly` | `BudgetSound`, `OutcomeSound`, `PlaceLostToMateOnly` | |
| `ReturnTelescopes` | `ShapingTelescopes` | |
| `WireObsExact` | `WireSeesTheSame` | |
| `ChoicesLegal`, `OracleShortest` | `PoliciesChooseLegally`, `OraclePlaysShortest` | |
| `BeliefIsSighting` | `BeliefUnlessWalledIn` | the cop that puts up barriers is not walled in |
| `BankedOnce` | `SpectatorBanksOnce` | |
| `CompleteIsOneTraining` | `SkippedIsWhole` | |

Three theorems state no run's property. `MeetTogether` proves `MetTogether` for
every team (TLC also found it true in the instance of `cops_team`).
`PlaysTheEnvironment` is a second implementation: every behaviour of `PlaySpec`
is one of `CopsRobbers`, so that whatever is proved of the environment holds of
evaluations, watched matches and data collections. `ThiefHasAWay` says that a thief that keeps to the mask can
always move while it is free, since barriers go down under a cop alone and the
cell it came from stays open.

The hypotheses, and what happens without them:

- More than one pair: with a single pair, a base game that is played again still
  ends before the only other game, its mirror, so the times of the records are
  in order and the body is accepted, while the default replay does not find its
  log (TLC shows it with `Pairs = 1`). The graded match has three pairs.
- `CopTellsThief`: no two seeds of the list spawn the cop alike and the thief
  apart. The code does not see to it; it is the limit of the parser named at the
  end of section 4, without which both properties are false. Spawns that differ
  between seeds, as in the instances, satisfy it. A sub-game without a void does
  not need it, which is why `DamageIsCaught` does without.
- `SameRadius`: the referee masks with the radius the verifier unmasks with
  (4.8). The shipped configuration has it on the 5x5 board of the graded match.
- `OneSource`: the drafts, which are not under version control, are in one
  working copy, whose sentinel their sends share. A clone has the tracked
  redacted copy only, and its own sentinel.
- Not walled in: an agent with no cell to enter is allowed all four moves by the
  mask's fallback, `BonusPolicy` shifts its belief by the move it asks for, and
  the environment then refuses that move. No thief gets there (`ThiefHasAWay`)
  and no cop on a board without barriers, so the cop that puts them up is the
  only one. It can wall itself in while it holds a belief when it sees far: on a
  5x5 board with five barriers and a radius of three, an exhaustive search of the
  plays finds a belief that is off the sighting, after eleven ticks. The shipped radii
  are at most two; the run, with a radius of one, checks `BeliefIsSighting`
  without the hypothesis.
- `SingleReclaimer`: a process that may die with a lockfile is not run again,
  and the other senders of that sentinel are one process. Two reclaimers are the
  counterexample of 4.1. `OnlyTheRaceRepeats` says that nothing else is: as long
  as no process is about to unlink a path that names the lockfile of a thread in
  its critical section, no number of processes, crashes, relaunches and repairs
  makes a second email.

The inductive invariants, by module:

- `WireMatchProofs`: `TypeOK`; `SchedInv` (the pending list is the complement of
  `done`, sorted, a mirror game is never ahead of its base game; seeds in use
  are distinct and below `spare`); `RecordsMatch` (records exist exactly for
  `done`, on the pair's present seed, and agree with the log); `ChargeInv` (a
  session's parsed voids plus the ones still to come are bounded by the spare
  its pair is on). `OneSeedPerPair` depends on what the pending list may contain,
  `WithinSessionCap` on the void count of an attempt still running. `SpawnsInv`
  adds that a session's spawns are always those of one seed, the cop's first.
  In the refinement every step is a `Finish`, a `Reseed` or a stutter.
  `TimesInv`, for `VerifiedExactly`, says that either the results so far are the
  first ids in order, or there were more results than records that stand and two
  neighbouring ids are the wrong way round for good. `BooksInv` says that
  every run the log knows of (the sessions' voids, summed, and one more for each
  session with a move since its last hellos) has ended in a void or a result,
  but for the one under way, and that a spare brings one result more at most.
  The sums
  (`MapThenSumSet` in the match-wide bound and in a body's totals) are reasoned
  about without an induction theorem: a fold is unrolled into its running totals
  (`Tallies`), which exist (`TalliesExist`), move with one of their values
  (`TalliesMove`) and vanish with all of them (`TalliesOfZero`), each by the
  smallest counterexample (`LeastNumber`).
- `ReplayGameProofs`: `GameInv`. Beside the parsed log it keeps a run, a
  sequence of boards that no variable holds: `AskInv` has it end at the
  referee's present environment and the log tell it tick by tick, `AuditInv` has
  the verifier's environment walk along it. A damaged log differs from it
  somewhere (`Differs`), which a verifier that got to the end would have met.
  `ParseInv` says that the parser gives up exactly when the referee knows why,
  `AttemptsInv` counts the retained attempts against the voids and says what is
  missing in a short one, `GreetInv` what hellos leave between two runs.
  `StepIsAfter` reduces `Step` to one cop; `GameInv` was also checked by TLC,
  with one and with two retries.
- `WireMoveProofs`: the cached answers of a session extend one another by one
  view a tick, the newest is the policy's state and the snapshot the one before
  it (`AgentInv`); a late move of this attempt is the call under way or one whose
  answer was accepted (`LateOfAttempt`); and while nothing stale was handled too
  late the agent has seen the accepted views, perhaps one more (`Synchronous`).
- `LocalMatchProofs`: a session has cached exactly the ticks up to its last
  (`SessionsOK`), the two servers are asked in turn (`Lockstep`), and a greeted
  session that was not spoilt has absorbed this attempt only (`GreetedPure`).
- `TrainingProofs`: which episode each slot of the ring holds, behind the cursor
  and from it on (`RingOK`); which round each place of a pool holds (`PoolOK`);
  that the games so far are of windows up to the present one, each with one
  opponent (`GamesFair`); and the updates due after so many episodes
  (`PacedInv`). Of the log, `LogInv`: the rows are sorted by training and round,
  each preceded by its training's earlier rounds, nothing follows a last round,
  and the rows that wait continue the last training.
- `DeliveryProofs`: a sentinel has one thread in its critical section
  (`Exclusive`), of which `OneAttempt` follows; without a second reclaimer, a
  lockfile is that of its living holder or of a process that is dead for good
  (`LockfilesExplained`, `DeadForGood`).
  Of the gatekeeper, `RateLimited` is about closed windows and not inductive.
  `BucketOK` adds the window that is still open, with the tokens left in the
  bucket counted as if they were spent. `InTurn` has callers get the lock in order
  and each undecided until it lets go of it, whence the order of admissions and
  queue.
- `PlayProofs`: `ReturnInv` is the telescoped sum itself, with the laws of powers
  it needs proved for the recursive function `Power`. `BankInv` has the totals as
  sums over the banked games, by the running totals above. `MemoryInv` ties the
  visibility counters to the environment's, and the rest of `WireObsExact` is
  geometry: an opponent out of sight stands further off than the radius, and so
  does the stand-in cell. `MindInv` says what a memory may hold, so that the
  choices made of it are within the mask. `BeliefInv` has the belief, added to
  the policy's cell, be the sighting, and the thief with a way out.
  `SearchInv` numbers each marked cell with four times its distance and the index
  of its opening move: the queue is sorted by that number (`Sorted`), each cell
  has its predecessor's plus four (`Entered`), and no move that was tried would
  have given it less (`Tried`). Hence the first entry to reach a cell is the one of a shortest path
  whose opening move comes first. That the recursive functions (`Power`, the
  search) have the values their equations say is proved from the existence of
  their finite prefixes (`RecursionExists`), again by the smallest
  counterexample.
- `CopsRobbersProofs`: the type with the budget, the thief and the outcome.
  `BudgetSound` rests on a lemma that the cells of the placing cops are distinct,
  new, and at most as many as the budget left, for any number of cops;
  `PlaceLostToMateOnly` on its converse, that a refused place means the budget
  went to cops of lower index; `OutcomeSound` on a move being one cell
  (`MoveIsOneCell`), so that meeting halfway is swapping (`HalfWayIsSwap`);
  `MeetTogether` on sight being mutual (`LookedTogether`).

Only model-checked:

- liveness (`MatchEnds`, `AuditEnds`, `EverySendSettles`, `AdmittedRuns`,
  `EveryCallSettles`, `MatrixCompletes`), which `tlapm` cannot prove;
- `BeliefIsSighting` of the cop that puts up barriers once it is walled in, which
  the run finds true of its short view.

## 6. Plan

Done so far, in order: the schedule and the match, the send pipeline, the
gatekeeper, the game kernel, the wire link, the local match, self-play, the
audit of one sub-game and of the published body, observations and policies,
rewards, the loss, the results log; then the proofs of section 5, component by
component. Open:

1. Abstract specifications: an at-most-once mailbox that `SendPipeline`
   implements under a single reclaimer; a sequential policy (one advance per
   tick) that `WireMove` implements while undisturbed.
2. Proof: with a radius of two at most, the cop that puts up barriers never
   walls itself in with a belief.

## 7. Not modelled, and why

- Numerics: gradients, the mixers' arithmetic and monotonicity, network layers,
  optimisers, tabular minimax-Q. Floating point is out of a model checker's
  reach; `TDUpdate` stops at which values enter the loss.
- The `Curriculum` class: only its tests call it. The stages a training walks
  are those of `finetune_curriculum`, in `SelfPlay`.
- Drawing, frames, plots, the GUI's state clients, report texts, JSON layout and
  SMTP: they keep no state whose order matters. The transport is a call that
  delivers, raises, or does both.
- The state tensor of the central mixer and the render state; the training
  tensors and the split of the behaviour-cloning data.
- Authentication, the role check and the health probe of the wire agent, the
  radius-gated reveal tools and the peer rate limit of the MCP servers: each
  refuses a call or reads a value, and none changes the state the properties
  are about.
- The summary figures of `evaluate_matchup`, `results/aggregate.py` beyond which
  rows it takes, the SDK facade, the configuration's validation and the command
  line: sequential glue.
