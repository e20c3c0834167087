----------------------------- MODULE EpisodeRing -----------------------------
(***************************************************************************)
(* The replay ring of one role (src/src/marl/replay/episode_buffer.py).    *)
(* A slot holds a whole episode: the guard of add_episode, the zeroing of  *)
(* the slot and the padding to t_max make what a slot shows exactly the    *)
(* episode written last, so a slot is that episode.                        *)
(***************************************************************************)
EXTENDS Integers

CONSTANT Capacity   \* replay.buffer_episodes

ASSUME CapacityAssumption == Capacity \in Nat \ {0}

Slots == 0 .. Capacity - 1

(* A new buffer: every slot zeroed, tagged RANDOM.                          *)
EmptyRing(blank) == [slot |-> [i \in Slots |-> blank], cursor |-> 0, size |-> 0]

StuckAtTheEnd(i) == IF i < Capacity - 1 THEN i + 1 ELSE i    \* mutant: no wrap
NextCursor(i) == (i + 1) % Capacity

NextSize(n) == IF n < Capacity THEN n + 1 ELSE Capacity

(* add_episode: write at the cursor, advance it, count up to the capacity.  *)
Added(ring, episode) ==
    [slot   |-> [ring.slot EXCEPT ![ring.cursor] = episode],
     cursor |-> NextCursor(ring.cursor),
     size   |-> NextSize(ring.size)]

(* The indices sample() draws from, with replacement.                       *)
Sampleable(ring) == 0 .. ring.size - 1
=============================================================================
