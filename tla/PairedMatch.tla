----------------------------- MODULE PairedMatch -----------------------------
(***************************************************************************)
(* What the P7 schedule promises to both groups, without its bookkeeping:  *)
(* a mirror pair is played on one layout, a layout is given to one pair    *)
(* only and in the agreed order, and giving a pair a new layout annuls     *)
(* whatever the pair had finished on the old one.                          *)
(***************************************************************************)
EXTENDS Integers

CONSTANTS Pairs, NumSeeds

Games == 1 .. 2 * Pairs
PairIds == 0 .. Pairs - 1
Seeds == 0 .. NumSeeds - 1
NoSeed == -1
Halves(k) == {k + 1, k + 1 + Pairs}

VARIABLES
    layout,     \* layout[k]: the seed pair k is played on
    handedOut,  \* seeds given to some pair so far
    finished    \* finished[g]: the seed g stands finished on, or NoSeed

avars == <<layout, handedOut, finished>>

Init ==
    /\ layout = [k \in PairIds |-> k]
    /\ handedOut = PairIds
    /\ finished = [g \in Games |-> NoSeed]

\* The second half of a pair finishes only on top of a standing first half.
Finish(k, g) ==
    /\ g \in Halves(k) /\ finished[g] = NoSeed
    /\ g # k + 1 => finished[k + 1] # NoSeed
    /\ finished' = [finished EXCEPT ![g] = layout[k]]
    /\ UNCHANGED <<layout, handedOut>>

Reseed(k, s) ==
    /\ s \in Seeds \ handedOut
    /\ \A t \in 0 .. s - 1 : t \in handedOut
    /\ layout' = [layout EXCEPT ![k] = s]
    /\ handedOut' = handedOut \union {s}
    /\ finished' = [g \in Games |-> IF g \in Halves(k) THEN NoSeed ELSE finished[g]]

Next == \E k \in PairIds :
    \/ \E g \in Games : Finish(k, g)
    \/ \E s \in Seeds : Reseed(k, s)

Spec == Init /\ [][Next]_avars
=============================================================================
