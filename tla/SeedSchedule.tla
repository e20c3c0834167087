---------------------------- MODULE SeedSchedule ----------------------------
(***************************************************************************)
(* The seed schedule of the bonus match (src/src/mcp/wire_schedule.py):    *)
(* which sub-game is next, and on which seed.  A seed is known by its      *)
(* position in the jointly agreed list: positions 0 .. Pairs-1 are the     *)
(* base seeds of the mirror pairs k / k+Pairs, the rest are the spares.    *)
(***************************************************************************)
EXTENDS Integers, Sequences

CONSTANTS
    Pairs,      \* num_games // 2: sub-game k and its mirror k + Pairs share a seed
    NumSeeds,   \* length of the agreed list (wire_match.seeds)
    MaxVoids    \* wire_match.max_void_replays

\* SeedSchedule.__init__ raises on a list shorter than num_games.
ASSUME ScheduleAssumption ==
    /\ Pairs \in Nat \ {0}
    /\ NumSeeds \in Nat /\ NumSeeds >= 2 * Pairs
    /\ MaxVoids \in Nat \ {0}

Games == 1 .. 2 * Pairs
PairIds == 0 .. Pairs - 1
Seeds == 0 .. NumSeeds - 1
NoSeed == -1

PairOf(g) == IF g <= Pairs THEN g - 1 ELSE g - Pairs - 1     \* (g - 1) % Pairs
BaseOf(g) == PairOf(g) + 1

VARIABLES
    pairSeed,   \* _pair_seed: the seed each mirror pair is played on
    spare,      \* _spare: the next unused spare
    pending,    \* _pending: ids still to play, next one first
    done,       \* _done: ids whose completed record stands
    voids       \* _voids: consecutive technical voids of the head sub-game

schedVars == <<pairSeed, spare, pending, done, voids>>

SchedTypeOK ==
    /\ pairSeed \in [PairIds -> Seeds]
    /\ spare \in Pairs .. NumSeeds
    /\ pending \in Seq(Games)
    /\ done \in SUBSET Games
    /\ voids \in Nat

SchedInit ==
    /\ pairSeed = [k \in PairIds |-> k]
    /\ spare = Pairs
    /\ pending = [g \in Games |-> g]
    /\ done = {}
    /\ voids = 0

(* next_game(): None once nothing is pending. *)
HasNext == pending # <<>>
NextGame == Head(pending)
SeedFor(g) == pairSeed[PairOf(g)]

(* record_result(g): its one caller passes the game next_game returned. *)
RecordResult(g) ==
    /\ pending' = Tail(pending)
    /\ done' = done \union {g}
    /\ voids' = 0
    /\ UNCHANGED <<pairSeed, spare>>

EscalatesLate == voids >= MaxVoids                           \* mutant: counts before adding
Escalates == voids + 1 >= MaxVoids
Exhausted == Escalates /\ spare >= NumSeeds

StaleNever(g) == {}                                          \* mutant: base record kept
(* The completed records a void of g makes stale: its base game's, when the *)
(* pair moves to a spare and the base game was already played.              *)
Stale(g) ==
    IF Escalates /\ BaseOf(g) # g /\ BaseOf(g) \in done THEN {BaseOf(g)} ELSE {}

(* record_void(g) below the threshold: same sub-game, same seed again. *)
ReplayVoid(g) ==
    /\ ~Escalates
    /\ voids' = voids + 1
    /\ UNCHANGED <<pairSeed, spare, pending, done>>

(* Mutants of Escalate: the void count survives, the spare is given again. *)
EscalateKeepingCount(g) ==
    /\ Escalates /\ ~Exhausted
    /\ pairSeed' = [pairSeed EXCEPT ![PairOf(g)] = spare]
    /\ spare' = spare + 1
    /\ UNCHANGED voids
    /\ done' = done \ Stale(g)
    /\ pending' = IF Stale(g) = {} THEN pending ELSE <<BaseOf(g)>> \o pending
EscalateSameSpare(g) ==
    /\ Escalates /\ ~Exhausted
    /\ pairSeed' = [pairSeed EXCEPT ![PairOf(g)] = spare]
    /\ voids' = 0
    /\ done' = done \ Stale(g)
    /\ pending' = IF Stale(g) = {} THEN pending ELSE <<BaseOf(g)>> \o pending
    /\ UNCHANGED spare

(* record_void(g) at the threshold: the next spare replaces the pair's seed *)
(* and a base game already played goes back to the front of the list.       *)
Escalate(g) ==
    /\ Escalates /\ ~Exhausted
    /\ pairSeed' = [pairSeed EXCEPT ![PairOf(g)] = spare]
    /\ spare' = spare + 1
    /\ voids' = 0
    /\ done' = done \ Stale(g)
    /\ pending' = IF Stale(g) = {} THEN pending ELSE <<BaseOf(g)>> \o pending

RecordVoid(g) == ReplayVoid(g) \/ Escalate(g)

(* record_void(g) with no spare left: the count is kept, RuntimeError. *)
VoidExhausted(g) ==
    /\ Exhausted
    /\ voids' = voids + 1
    /\ UNCHANGED <<pairSeed, spare, pending, done>>
=============================================================================
