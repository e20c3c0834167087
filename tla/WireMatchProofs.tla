--------------------------- MODULE WireMatchProofs ---------------------------
(***************************************************************************)
(* Theorems about WireMatch for every number of pairs, seeds and voids.    *)
(***************************************************************************)
EXTENDS ReplayVerify, FiniteSetTheorems, SequenceTheorems, WellFoundedInduction, TLAPS

InPending(g) == \E i \in 1 .. Len(pending) : pending[i] = g

(* The list of pending games is increasing: a requeued base game goes in    *)
(* front of its mirror, so the head is always the smallest id to play.      *)
PendingSorted ==
    \A i, j \in 1 .. Len(pending) : i < j => pending[i] < pending[j]

DoneOrPending == \A g \in Games : g \in done <=> ~InPending(g)

MirrorAfterBase == \A g \in done : BaseOf(g) \in done

SeedsOwned ==
    /\ \A k \in PairIds : pairSeed[k] < spare
    /\ \A k, l \in PairIds : pairSeed[k] = pairSeed[l] => k = l

VoidsBelowMax == attempt # "aborted" => voids < MaxVoids

OrderInv == PendingSorted /\ DoneOrPending /\ MirrorAfterBase /\ SeedsOwned
SchedInv == OrderInv /\ VoidsBelowMax

(* A record stands exactly for a done game, on its pair's present seed, and *)
(* the last result event of its session says the same seed.                 *)
RecordsMatch ==
    \A g \in Games :
        /\ records[g].seed # NoSeed <=> g \in done
        /\ g \in done => /\ records[g].seed = SeedFor(g)
                         /\ session[g].seed = SeedFor(g)
                         /\ session[g].started

(* What a session has been or will be charged: a started attempt costs one  *)
(* void as soon as it is superseded.                                        *)
Charge(s) == s.voids + (IF s.started THEN 1 ELSE 0)
Paid(g) == MaxVoids * SpareIndex(SeedFor(g))

IsHead(g) == HasNext /\ g = NextGame

ThiefSeen(s) == s.started => s.spawns["thief"] # NoCell

ChargeOf(g) ==
    /\ ThiefSeen(session[g])
    /\ g \in done => session[g].voids <= Paid(g) + (MaxVoids - 1)
    /\ InPending(g) /\ ~IsHead(g) => Charge(session[g]) <= Paid(g)
    /\ IsHead(g) /\ attempt \in {"idle", "cop_greeted"} => Charge(session[g]) <= Paid(g) + voids
    /\ IsHead(g) /\ attempt = "playing" =>
            session[g].spawns["thief"] # NoCell /\ session[g].voids <= Paid(g) + voids

ChargeInv == \A g \in Games : ChargeOf(g)

IInv == TypeOK /\ SchedInv /\ RecordsMatch /\ ChargeInv
-----------------------------------------------------------------------------
(* Arithmetic of ids: every game has a pair and a base game in range, the   *)
(* base precedes its mirror, and a pair's two games are those two ids.      *)
LEMMA GameIds ==
    ASSUME NEW g \in Games
    PROVE  /\ PairOf(g) \in PairIds
           /\ BaseOf(g) \in Games /\ PairOf(BaseOf(g)) = PairOf(g)
           /\ BaseOf(BaseOf(g)) = BaseOf(g)
           /\ BaseOf(g) <= g
           /\ \A h \in Games : PairOf(h) = PairOf(g) /\ h # BaseOf(g) /\ g # BaseOf(g) => h = g
           /\ \A h \in Games : PairOf(h) = PairOf(g) => BaseOf(h) = BaseOf(g)
BY ScheduleAssumption DEF Games, PairOf, BaseOf, PairIds

(* next_game returns a game of the match, and it is the one pending first.  *)
LEMMA HeadIsPending ==
    ASSUME SchedTypeOK, HasNext
    PROVE  NextGame \in Games /\ Len(pending) \in Nat \ {0} /\ pending[1] = NextGame
BY DEF SchedTypeOK, HasNext, NextGame

(* The four operations keep the schedule's types. *)
LEMMA ScheduleTypes ==
    ASSUME SchedTypeOK, NEW g \in Games, HasNext,
           RecordResult(g) \/ RecordVoid(g) \/ VoidExhausted(g) \/ UNCHANGED schedVars
    PROVE  SchedTypeOK'
<1>1. PairOf(g) \in PairIds /\ BaseOf(g) \in Games
  BY GameIds
<1>2. CASE RecordResult(g)
  BY <1>2 DEF RecordResult, SchedTypeOK, HasNext
<1>3. CASE ReplayVoid(g)
  BY <1>3 DEF ReplayVoid, SchedTypeOK
<1>4. CASE Escalate(g)
  <2>1. pairSeed' \in [PairIds -> Seeds] /\ spare' \in Pairs .. NumSeeds
    BY <1>1, <1>4, ScheduleAssumption DEF Escalate, Exhausted, SchedTypeOK, Seeds
  <2>2. pending' \in Seq(Games)
    BY <1>1, <1>4 DEF Escalate, SchedTypeOK
  <2>3. QED
    BY <1>4, <2>1, <2>2 DEF Escalate, SchedTypeOK
<1>5. CASE VoidExhausted(g)
  BY <1>5 DEF VoidExhausted, SchedTypeOK
<1>6. CASE UNCHANGED schedVars
  BY <1>6 DEF schedVars, SchedTypeOK
<1>7. QED
  BY <1>2, <1>3, <1>4, <1>5, <1>6 DEF RecordVoid

(* Reading one more line of the log keeps a session's type. *)
LEMMA SessionTypes ==
    ASSUME TypeOK, NEW g \in Games, NEW r \in Roles
    PROVE  /\ [session EXCEPT ![g] = ParseHello(@, r, Spawn[SeedFor(g)][r])]
                  \in [Games -> [spawns : [Roles -> Cells \union {NoCell}], started : BOOLEAN,
                                 voids : Nat, seed : Seeds \union {NoSeed}]]
           /\ [session EXCEPT ![g] = ParseMove(@)]
                  \in [Games -> [spawns : [Roles -> Cells \union {NoCell}], started : BOOLEAN,
                                 voids : Nat, seed : Seeds \union {NoSeed}]]
           /\ [session EXCEPT ![g] = ParseResult(@, SeedFor(g))]
                  \in [Games -> [spawns : [Roles -> Cells \union {NoCell}], started : BOOLEAN,
                                 voids : Nat, seed : Seeds \union {NoSeed}]]
<1> DEFINE S == [spawns : [Roles -> Cells \union {NoCell}], started : BOOLEAN,
                 voids : Nat, seed : Seeds \union {NoSeed}]
<1>1. SeedFor(g) \in Seeds /\ Spawn[SeedFor(g)][r] \in Cells
  BY GameIds, SpawnAssumption DEF TypeOK, SchedTypeOK, SeedFor
<1>2. session[g] \in S
  BY DEF TypeOK
<1>3. ParseHello(session[g], r, Spawn[SeedFor(g)][r]) \in S
  BY <1>1, <1>2 DEF ParseHello
<1>4. ParseMove(session[g]) \in S /\ ParseResult(session[g], SeedFor(g)) \in S
  BY <1>1, <1>2 DEF ParseMove, ParseResult
<1>5. QED
  BY <1>3, <1>4 DEF TypeOK

(* Every step the referee takes is one of these, on the next game. *)
LEMMA StepCases ==
    ASSUME SchedTypeOK, Next, ~UNCHANGED vars
    PROVE  /\ HasNext /\ NextGame \in Games
           /\ \/ \E r \in Roles : HelloOk(NextGame, r)
              \/ \E r \in Roles : HelloVoid(NextGame, r)
              \/ MoveOk(NextGame)
              \/ MoveVoid(NextGame)
              \/ FinishSubGame(NextGame)
BY HeadIsPending DEF Next, Stopped, PlaySubGame

(* Whatever the step, the schedule takes one of its own operations. *)
LEMMA SchedulePart ==
    ASSUME NEW g \in Games,
           \/ \E r \in Roles : HelloOk(g, r)
           \/ \E r \in Roles : HelloVoid(g, r)
           \/ MoveOk(g)
           \/ MoveVoid(g)
           \/ FinishSubGame(g)
    PROVE  RecordResult(g) \/ RecordVoid(g) \/ VoidExhausted(g) \/ UNCHANGED schedVars
BY DEF HelloOk, HelloVoid, MoveOk, MoveVoid, FinishSubGame, VoidSubGame, schedVars

LEMMA TypeStep == TypeOK /\ [Next]_vars => TypeOK'
<1> SUFFICES ASSUME TypeOK, Next, ~UNCHANGED vars PROVE TypeOK'
  BY DEF vars, TypeOK, SchedTypeOK
<1> DEFINE g == NextGame
<1>1. SchedTypeOK
  BY DEF TypeOK
<1>2. HasNext /\ g \in Games
  BY <1>1, StepCases
<1>3. SchedTypeOK'
  BY <1>1, <1>2, StepCases, SchedulePart, ScheduleTypes
<1>4. SeedFor(g) \in Seeds
  BY <1>2, GameIds DEF TypeOK, SchedTypeOK, SeedFor
<1>5. ASSUME VoidSubGame(g)
      PROVE  /\ attempt' \in {"idle", "aborted"}
             /\ records' \in [Games -> [seed : Seeds \union {NoSeed}, ended : Nat]]
             /\ results' \in Nat /\ voidEvents' \in Nat
  BY <1>5 DEF VoidSubGame, TypeOK, NoRecord
<1>6. ASSUME NEW r \in Roles, HelloOk(g, r) PROVE TypeOK'
  BY <1>2, <1>3, <1>6, SessionTypes DEF HelloOk, Hello, TypeOK
<1>7. ASSUME NEW r \in Roles, HelloVoid(g, r) PROVE TypeOK'
  BY <1>2, <1>3, <1>5, <1>7, SessionTypes DEF HelloVoid, Hello, TypeOK
<1>8. CASE MoveOk(g)
  <2>1. "cop" \in Roles
    BY DEF Roles
  <2>2. QED
    BY <1>2, <1>3, <1>8, <2>1, SessionTypes DEF MoveOk, TypeOK
<1>9. CASE MoveVoid(g)
  <2>1. "cop" \in Roles
    BY DEF Roles
  <2>2. QED
    BY <1>2, <1>3, <1>5, <1>9, <2>1, SessionTypes DEF MoveVoid, TypeOK
<1>10. CASE FinishSubGame(g)
  <2>1. "cop" \in Roles
    BY DEF Roles
  <2>2. [seed |-> SeedFor(g), ended |-> results + 1] \in [seed : Seeds \union {NoSeed}, ended : Nat]
    BY <1>4 DEF TypeOK
  <2>3. QED
    BY <1>2, <1>3, <1>10, <2>1, <2>2, SessionTypes DEF FinishSubGame, TypeOK
<1>11. QED
  BY <1>1, <1>6, <1>7, <1>8, <1>9, <1>10, StepCases

LEMMA TypeInit == Init => TypeOK
<1> SUFFICES ASSUME Init PROVE TypeOK
  OBVIOUS
<1>1. SchedTypeOK
  <2>1. pending \in Seq(Games)
    BY ScheduleAssumption DEF Init, SchedInit, Games
  <2>2. QED
    BY <2>1, ScheduleAssumption DEF Init, SchedInit, SchedTypeOK, PairIds, Seeds
<1>2. QED
  BY <1>1 DEF Init, TypeOK, NoRecord, NewSession

(* The match state keeps its types whatever the agents and the network do. *)
THEOREM TypeCorrect == Spec => []TypeOK
BY TypeInit, TypeStep, PTL DEF Spec
-----------------------------------------------------------------------------
(* The head of a sorted pending list: no pending game is smaller, its base  *)
(* game (if another one) is done, and games done before it stay done.       *)
LEMMA HeadFacts ==
    ASSUME SchedTypeOK, OrderInv, HasNext
    PROVE  /\ InPending(NextGame) /\ NextGame \notin done
           /\ \A h \in Games : InPending(h) => NextGame <= h
           /\ BaseOf(NextGame) = NextGame \/ BaseOf(NextGame) \in done
           /\ \A h \in done : PairOf(h) = PairOf(NextGame) => h = BaseOf(NextGame)
<1> DEFINE g == NextGame
<1>1. g \in Games /\ Len(pending) \in Nat \ {0} /\ pending[1] = g
  BY HeadIsPending
<1>2. InPending(g) /\ g \notin done
  BY <1>1 DEF InPending, OrderInv, DoneOrPending
<1>3. \A h \in Games : InPending(h) => g <= h
  BY <1>1 DEF InPending, OrderInv, PendingSorted, Games, SchedTypeOK
<1>4. BaseOf(g) = g \/ BaseOf(g) \in done
  <2>1. BaseOf(g) \in Games /\ BaseOf(g) <= g
    BY <1>1, GameIds
  <2>2. CASE InPending(BaseOf(g))
    BY <1>1, <1>3, <2>1, <2>2 DEF Games
  <2>3. CASE ~InPending(BaseOf(g))
    BY <2>1, <2>3 DEF OrderInv, DoneOrPending
  <2>4. QED
    BY <2>2, <2>3
<1>5. ASSUME NEW h \in done, PairOf(h) = PairOf(g) PROVE h = BaseOf(g)
  <2>1. h \in Games
    BY DEF SchedTypeOK
  <2>2. h # g
    BY <1>2
  <2>3. BaseOf(h) \in done /\ BaseOf(h) = BaseOf(g)
    BY <1>1, <1>5, <2>1, GameIds DEF OrderInv, MirrorAfterBase
  <2>4. g # BaseOf(g)
    BY <1>2, <2>3
  <2>5. QED
    BY <1>1, <1>5, <2>1, <2>2, <2>4, GameIds
<1>6. QED
  BY <1>2, <1>3, <1>4, <1>5

(* A completed game leaves the list sorted, and only that game leaves it. *)
LEMMA OrderAfterResult ==
    ASSUME SchedTypeOK, OrderInv, HasNext, RecordResult(NextGame)
    PROVE  OrderInv'
<1> DEFINE g == NextGame
<1>1. g \in Games /\ Len(pending) \in Nat \ {0} /\ pending[1] = g
  BY HeadIsPending
<1>2. /\ Len(pending') = Len(pending) - 1
      /\ \A i \in 1 .. Len(pending) - 1 : pending'[i] = pending[i + 1]
  BY <1>1 DEF RecordResult, SchedTypeOK
<1>3. PendingSorted'
  BY <1>1, <1>2 DEF OrderInv, PendingSorted
<1>4. \A h \in Games : InPending(h)' <=> InPending(h) /\ h # g
  <2>1. ASSUME NEW h \in Games, InPending(h)' PROVE InPending(h) /\ h # g
    <3>1. PICK i \in 1 .. Len(pending) - 1 : pending[i + 1] = h
      BY <1>1, <1>2, <2>1 DEF InPending
    <3>2. i + 1 \in 1 .. Len(pending) /\ 1 \in 1 .. Len(pending) /\ 1 < i + 1
      BY <1>1
    <3>3. pending[1] < pending[i + 1]
      BY <3>2 DEF OrderInv, PendingSorted
    <3>4. QED
      BY <1>1, <3>1, <3>2, <3>3 DEF InPending, Games
  <2>2. ASSUME NEW h \in Games, InPending(h), h # g PROVE InPending(h)'
    <3>1. PICK i \in 1 .. Len(pending) : pending[i] = h
      BY <2>2 DEF InPending
    <3>2. i - 1 \in 1 .. Len(pending) - 1 /\ pending'[i - 1] = h
      BY <1>1, <1>2, <2>2, <3>1
    <3>3. QED
      BY <1>2, <3>2 DEF InPending
  <2>3. QED
    BY <2>1, <2>2
<1>5. done' = done \union {g}
  BY DEF RecordResult
<1>6. DoneOrPending'
  BY <1>4, <1>5 DEF OrderInv, DoneOrPending
<1>7. MirrorAfterBase'
  BY <1>5, HeadFacts DEF OrderInv, MirrorAfterBase
<1>8. SeedsOwned'
  BY DEF RecordResult, OrderInv, SeedsOwned
<1>9. QED
  BY <1>3, <1>6, <1>7, <1>8 DEF OrderInv

(* An escalation gives the pair a fresh spare; a requeued base game goes in *)
(* front of the list, still sorted, and only that game stops being done.    *)
LEMMA OrderAfterEscalate ==
    ASSUME SchedTypeOK, OrderInv, HasNext, Escalate(NextGame)
    PROVE  OrderInv'
<1> DEFINE g == NextGame
           b == BaseOf(g)
<1>1. g \in Games /\ Len(pending) \in Nat \ {0} /\ pending[1] = g
  BY HeadIsPending
<1>2. b \in Games /\ PairOf(g) \in PairIds /\ b <= g
  BY <1>1, GameIds
<1>3. SeedsOwned'
  <2>1. pairSeed' = [pairSeed EXCEPT ![PairOf(g)] = spare] /\ spare' = spare + 1
    BY DEF Escalate
  <2>2. \A k \in PairIds : pairSeed[k] \in Int /\ pairSeed[k] < spare /\ spare \in Int
    BY ScheduleAssumption DEF SchedTypeOK, Seeds, OrderInv, SeedsOwned
  <2>3. QED
    BY <1>2, <2>1, <2>2 DEF SchedTypeOK, OrderInv, SeedsOwned
<1>4. CASE Stale(g) = {}
  BY <1>3, <1>4 DEF Escalate, OrderInv, PendingSorted, DoneOrPending, MirrorAfterBase, InPending
<1>5. CASE Stale(g) # {}
  <2>1. Stale(g) = {b} /\ b # g /\ b \in done
    BY <1>5 DEF Stale
  <2>2. pending' = <<b>> \o pending /\ done' = done \ {b}
    BY <1>5, <2>1 DEF Escalate
  <2>3. /\ Len(pending') = Len(pending) + 1
        /\ pending'[1] = b
        /\ \A i \in 2 .. Len(pending) + 1 : pending'[i] = pending[i - 1]
    BY <1>1, <2>2 DEF SchedTypeOK
  <2>4. PendingSorted'
    <3>1. \A i \in 1 .. Len(pending) : b < pending[i]
      <4>1. ASSUME NEW i \in 1 .. Len(pending) PROVE g <= pending[i]
        BY <1>1, HeadFacts DEF InPending, SchedTypeOK
      <4>2. b < g
        BY <1>2, <2>1, <1>1 DEF Games
      <4>3. ASSUME NEW i \in 1 .. Len(pending) PROVE pending[i] \in Int
        <5>1. pending[i] \in Games
          BY DEF SchedTypeOK
        <5>2. QED
          BY <5>1 DEF Games
      <4>4. QED
        BY <1>1, <1>2, <4>1, <4>2, <4>3 DEF Games
    <3>2. SUFFICES ASSUME NEW i \in 1 .. Len(pending) + 1, NEW j \in 1 .. Len(pending) + 1, i < j
                   PROVE  pending'[i] < pending'[j]
      BY <2>3 DEF PendingSorted
    <3>3. j \in 2 .. Len(pending) + 1 /\ j - 1 \in 1 .. Len(pending)
      BY <1>1, <3>2
    <3>4. CASE i = 1
      BY <2>3, <3>1, <3>3, <3>4
    <3>5. CASE i # 1
      <4>1. i \in 2 .. Len(pending) + 1 /\ i - 1 \in 1 .. Len(pending) /\ i - 1 < j - 1
        BY <1>1, <3>2, <3>5
      <4>2. QED
        BY <2>3, <3>3, <4>1 DEF OrderInv, PendingSorted
    <3>6. QED
      BY <3>4, <3>5
  <2>5. \A h \in Games : InPending(h)' <=> InPending(h) \/ h = b
    <3>1. ASSUME NEW h \in Games, InPending(h)' PROVE InPending(h) \/ h = b
      <4>1. PICK i \in 1 .. Len(pending) + 1 : pending'[i] = h
        BY <2>3, <3>1 DEF InPending
      <4>2. i = 1 \/ (i \in 2 .. Len(pending) + 1 /\ i - 1 \in 1 .. Len(pending))
        BY <1>1
      <4>3. QED
        BY <2>3, <4>1, <4>2 DEF InPending
    <3>2. ASSUME NEW h \in Games, InPending(h) PROVE InPending(h)'
      <4>1. PICK i \in 1 .. Len(pending) : pending[i] = h
        BY <3>2 DEF InPending
      <4>2. i + 1 \in 2 .. Len(pending) + 1 /\ i + 1 \in 1 .. Len(pending') /\ (i + 1) - 1 = i
        BY <1>1, <2>3
      <4>3. pending'[i + 1] = h
        BY <2>3, <4>1, <4>2
      <4>4. QED
        BY <4>2, <4>3 DEF InPending
    <3>3. ASSUME NEW h \in Games, h = b PROVE InPending(h)'
      <4>1. 1 \in 1 .. Len(pending')
        BY <1>1, <2>3
      <4>2. QED
        BY <2>3, <3>3, <4>1 DEF InPending
    <3>4. QED
      BY <3>1, <3>2, <3>3
  <2>6. DoneOrPending'
    BY <2>2, <2>5, <1>2 DEF OrderInv, DoneOrPending
  <2>7. MirrorAfterBase'
    <3>1. SUFFICES ASSUME NEW h \in done, h # b PROVE BaseOf(h) \in done /\ BaseOf(h) # b
      BY <2>2 DEF MirrorAfterBase
    <3>2. h \in Games
      BY DEF SchedTypeOK
    <3>3. BaseOf(h) \in done
      BY DEF OrderInv, MirrorAfterBase
    <3>4. BaseOf(h) # b
      <4>1. PairOf(h) # PairOf(g)
        BY <3>1, HeadFacts
      <4>2. PairOf(h) \in Int /\ PairOf(g) \in Int
        BY <1>1, <3>2, GameIds, ScheduleAssumption DEF PairIds
      <4>3. QED
        BY <4>1, <4>2 DEF BaseOf
    <3>5. QED
      BY <3>3, <3>4
  <2>8. QED
    BY <1>3, <2>4, <2>6, <2>7 DEF OrderInv
<1>6. QED
  BY <1>4, <1>5

LEMMA OrderStep ==
    ASSUME SchedTypeOK, OrderInv, HasNext,
           \/ RecordResult(NextGame) \/ RecordVoid(NextGame)
           \/ VoidExhausted(NextGame) \/ UNCHANGED schedVars
    PROVE  OrderInv'
<1>1. CASE RecordResult(NextGame)
  BY <1>1, OrderAfterResult
<1>2. CASE Escalate(NextGame)
  BY <1>2, OrderAfterEscalate
<1>3. CASE UNCHANGED <<pairSeed, spare, pending, done>>
  BY <1>3 DEF OrderInv, PendingSorted, DoneOrPending, MirrorAfterBase, SeedsOwned, InPending
<1>4. QED
  BY <1>1, <1>2, <1>3 DEF RecordVoid, ReplayVoid, VoidExhausted, schedVars
-----------------------------------------------------------------------------
(* What record_void keeps: below the threshold or out of spares nothing but *)
(* the counter moves; an escalation keeps every other pair's seed and every *)
(* done game of another pair, and nothing of the pair itself stays done.    *)
LEMMA EscalateKeeps ==
    ASSUME SchedTypeOK, OrderInv, HasNext, NEW g \in Games, g = NextGame, Escalate(g)
    PROVE  /\ \A h \in Games : PairOf(h) # PairOf(g) => SeedFor(h)' = SeedFor(h)
           /\ \A h \in Games : PairOf(h) = PairOf(g) => SeedFor(h)' = spare /\ h \notin done'
           /\ \A h \in Games : h \in done' <=> h \in done /\ h \notin Stale(g)
           /\ \A h \in Games : PairOf(h) # PairOf(g) => h \notin Stale(g)
           /\ SeedFor(g) < spare
<1>1. PairOf(g) \in PairIds /\ \A h \in Games : PairOf(h) \in PairIds
  BY GameIds
<1>2. \A h \in Games : h \in Stale(g) => h = BaseOf(g) /\ PairOf(h) = PairOf(g)
  BY GameIds DEF Stale
<1>3. ASSUME NEW h \in Games, PairOf(h) = PairOf(g), h \in done PROVE h \in Stale(g)
  <2>1. h = BaseOf(g) /\ g \notin done
    BY <1>3, HeadFacts
  <2>2. QED
    BY <1>3, <2>1 DEF Stale, Escalate
<1>4. QED
  BY <1>1, <1>2, <1>3 DEF Escalate, SeedFor, SchedTypeOK, OrderInv, SeedsOwned

(* Reading one more line never changes the seed of the last result, and     *)
(* only the session of the game being played is read into.                  *)
LEMMA SessionSeedKept ==
    ASSUME TypeOK, NEW g \in Games, NEW r \in Roles
    PROVE  /\ ParseHello(session[g], r, Spawn[SeedFor(g)][r]).seed = session[g].seed
           /\ ParseMove(session[g]).seed = session[g].seed
BY DEF ParseHello, ParseMove, TypeOK

(* A void drops exactly the records whose pair got a new seed. *)
LEMMA RecordsAfterVoid ==
    ASSUME TypeOK, OrderInv, RecordsMatch, HasNext, NEW g \in Games, g = NextGame,
           VoidSubGame(g), \A h \in Games \ {g} : session'[h] = session[h]
    PROVE  RecordsMatch'
<1>1. SchedTypeOK /\ g \notin done
  BY HeadFacts DEF TypeOK
<1>2. CASE ReplayVoid(g) \/ VoidExhausted(g)
  <2>1. Stale(g) = {} \/ UNCHANGED records
    BY <1>2 DEF VoidSubGame, RecordVoid, ReplayVoid, Stale, VoidExhausted, Exhausted, Escalate
  <2>2. UNCHANGED records
    BY <2>1, <1>2 DEF VoidSubGame, TypeOK
  <2>3. UNCHANGED <<done, pairSeed>>
    BY <1>2 DEF ReplayVoid, VoidExhausted
  <2>4. QED
    BY <1>1, <2>2, <2>3 DEF RecordsMatch, SeedFor
<1>3. CASE Escalate(g)
  <2>1. records' = [h \in Games |-> IF h \in Stale(g) THEN NoRecord ELSE records[h]]
    BY <1>3 DEF VoidSubGame, VoidExhausted, Escalate
  <2>2. SUFFICES ASSUME NEW h \in Games
                 PROVE  /\ records'[h].seed # NoSeed <=> h \in done'
                        /\ h \in done' => /\ records'[h].seed = SeedFor(h)'
                                          /\ session'[h].seed = SeedFor(h)'
                                          /\ session'[h].started
    BY DEF RecordsMatch, SeedFor
  <2>3. h \in done' <=> h \in done /\ h \notin Stale(g)
    BY <1>1, <1>3, EscalateKeeps
  <2>4. h \in done' => SeedFor(h)' = SeedFor(h) /\ h # g
    BY <1>1, <1>3, EscalateKeeps
  <2>5. CASE h \in Stale(g)
    BY <2>1, <2>3, <2>5 DEF NoRecord
  <2>6. CASE h \notin Stale(g)
    BY <1>1, <2>1, <2>3, <2>4, <2>6 DEF RecordsMatch
  <2>7. QED
    BY <2>5, <2>6
<1>4. QED
  BY <1>2, <1>3 DEF VoidSubGame, RecordVoid

(* A completed run records its pair's present seed, in record and log. *)
LEMMA RecordsAfterResult ==
    ASSUME TypeOK, OrderInv, RecordsMatch, HasNext, NEW g \in Games, g = NextGame,
           FinishSubGame(g)
    PROVE  RecordsMatch'
<1>1. SchedTypeOK /\ g \notin done
  BY HeadFacts DEF TypeOK
<1>2. SeedFor(g) \in Seeds /\ SeedFor(g) # NoSeed
  BY <1>1, GameIds DEF SchedTypeOK, SeedFor, Seeds, NoSeed
<1>3. done' = done \union {g} /\ pairSeed' = pairSeed
  BY DEF FinishSubGame, RecordResult
<1>4. records' = [records EXCEPT ![g] = [seed |-> SeedFor(g), ended |-> results + 1]]
  BY DEF FinishSubGame
<1>5. /\ session'[g].seed = SeedFor(g) /\ session'[g].started
      /\ \A h \in Games \ {g} : session'[h] = session[h]
  BY DEF FinishSubGame, ParseResult, TypeOK
<1>6. QED
  BY <1>2, <1>3, <1>4, <1>5 DEF RecordsMatch, SeedFor, TypeOK

LEMMA RecordsStep ==
    ASSUME TypeOK, OrderInv, RecordsMatch, [Next]_vars
    PROVE  RecordsMatch'
<1>1. CASE UNCHANGED vars
  BY <1>1 DEF vars, RecordsMatch, SeedFor
<1>2. CASE ~UNCHANGED vars
  <2>1. SchedTypeOK
    BY DEF TypeOK
  <2>2. HasNext /\ NextGame \in Games
    BY <1>2, <2>1, StepCases
  <2>3. PICK g \in Games : g = NextGame
    BY <2>2
  <2>4. g \notin done
    BY <2>1, <2>2, <2>3, HeadFacts
  <2>5. ASSUME NEW r \in Roles, HelloOk(g, r) PROVE RecordsMatch'
    BY <2>4, <2>5 DEF HelloOk, Hello, RecordsMatch, SeedFor, TypeOK
  <2>6. ASSUME NEW r \in Roles, HelloVoid(g, r) PROVE RecordsMatch'
    <3>1. \A h \in Games \ {g} : session'[h] = session[h]
      BY <2>6 DEF HelloVoid, Hello, TypeOK
    <3>2. QED
      BY <2>2, <2>3, <2>6, <3>1, RecordsAfterVoid DEF HelloVoid
  <2>7. CASE MoveOk(g)
    BY <2>4, <2>7 DEF MoveOk, RecordsMatch, SeedFor, TypeOK
  <2>8. CASE MoveVoid(g)
    <3>1. \A h \in Games \ {g} : session'[h] = session[h]
      BY <2>8 DEF MoveVoid, TypeOK
    <3>2. QED
      BY <2>2, <2>3, <2>8, <3>1, RecordsAfterVoid DEF MoveVoid
  <2>9. CASE FinishSubGame(g)
    BY <2>2, <2>3, <2>9, RecordsAfterResult
  <2>10. QED
    BY <1>2, <2>1, <2>3, <2>5, <2>6, <2>7, <2>8, <2>9, StepCases
<1>3. QED
  BY <1>1, <1>2
-----------------------------------------------------------------------------
(* A hello never changes what a session is charged: a superseded started    *)
(* attempt turns into a void.  After the thief's hello nothing is started.  *)
LEMMA HelloCharge ==
    ASSUME TypeOK, NEW g \in Games, NEW r \in Roles, ThiefSeen(session[g]),
           NEW t, t = ParseHello(session[g], r, Spawn[SeedFor(g)][r])
    PROVE  /\ Charge(t) = Charge(session[g]) /\ t.voids \in Nat /\ t.voids <= Charge(t)
           /\ ThiefSeen(t)
           /\ r = "thief" => ~t.started /\ t.spawns["thief"] # NoCell
<1>1. SeedFor(g) \in Seeds /\ Spawn[SeedFor(g)][r] \in Cells /\ Spawn[SeedFor(g)][r] # NoCell
  <2>1. SeedFor(g) \in Seeds
    BY GameIds DEF TypeOK, SchedTypeOK, SeedFor
  <2>2. QED
    BY <2>1, SpawnAssumption DEF NoCell
<1>2. /\ session[g].started \in BOOLEAN /\ session[g].voids \in Nat
      /\ session[g].spawns \in [Roles -> Cells \union {NoCell}]
  BY DEF TypeOK
<1>3. {"cop", "thief"} = Roles
  BY DEF Roles
<1> DEFINE s == session[g]
           cell == Spawn[SeedFor(g)][r]
           again == s.spawns[r] # NoCell /\ ~(s.spawns[r] = cell /\ ~s.started)
<1>4. /\ t.started = (s.started /\ ~again)
      /\ t.voids = IF again /\ s.started THEN s.voids + 1 ELSE s.voids
      /\ t.spawns = [x \in Roles |-> IF x = r THEN cell ELSE IF again THEN NoCell ELSE s.spawns[x]]
  BY DEF ParseHello
<1>5. "thief" \in Roles /\ t.spawns[r] = cell
  BY <1>3, <1>4
<1>6. r = "thief" => ~t.started /\ t.spawns["thief"] # NoCell
  BY <1>1, <1>4, <1>5 DEF ThiefSeen
<1>7. ThiefSeen(t)
  BY <1>1, <1>4, <1>5 DEF ThiefSeen
<1>8. Charge(t) = Charge(s) /\ t.voids \in Nat /\ t.voids <= Charge(t)
  <2>1. CASE s.started /\ again
    <3>1. ~t.started /\ t.voids = s.voids + 1
      BY <1>4, <2>1
    <3>2. QED
      BY <1>2, <2>1, <3>1 DEF Charge
  <2>2. CASE s.started /\ ~again
    <3>1. t.started /\ t.voids = s.voids
      BY <1>4, <2>2
    <3>2. QED
      BY <1>2, <2>2, <3>1 DEF Charge
  <2>3. CASE ~s.started
    <3>1. ~t.started /\ t.voids = s.voids
      BY <1>4, <2>3
    <3>2. QED
      BY <1>2, <2>3, <3>1 DEF Charge
  <2>4. QED
    BY <2>1, <2>2, <2>3
<1>9. QED
  BY <1>6, <1>7, <1>8

(* The price of a pair's seed: a later spare costs at least MaxVoids more.  *)
LEMMA SparePrice ==
    ASSUME NEW x \in Seeds, NEW y \in Nat, x < y, y >= Pairs
    PROVE  /\ MaxVoids * SpareIndex(x) \in Nat
           /\ MaxVoids * SpareIndex(y) \in Nat
           /\ MaxVoids * SpareIndex(x) + MaxVoids <= MaxVoids * SpareIndex(y)
<1>1. /\ SpareIndex(x) \in Nat /\ SpareIndex(y) \in Nat
      /\ SpareIndex(x) + 1 <= SpareIndex(y)
  BY ScheduleAssumption DEF SpareIndex, Seeds
<1>2. \A m, i, j \in Nat : i + 1 <= j => m * i \in Nat /\ m * j \in Nat /\ m * i + m <= m * j
  <2>1. TAKE m, i, j \in Nat
  <2>2. HAVE i + 1 <= j
  <2>3. PICK d \in Nat : j = i + 1 + d
    <3>1. j - (i + 1) \in Nat /\ j = i + 1 + (j - (i + 1))
      BY <2>2
    <3>2. QED
      BY <3>1
  <2>4. m * j = m * i + m + m * d /\ m * i \in Nat /\ m * d \in Nat
    BY <2>3
  <2>5. QED
    BY <2>4
<1>3. QED
  BY <1>1, <1>2, ScheduleAssumption

(* While the list stays as it is, so do the head and every game's place.    *)
LEMMA PlacesKept ==
    ASSUME UNCHANGED pending, NEW h
    PROVE  (InPending(h)' <=> InPending(h)) /\ (IsHead(h)' <=> IsHead(h))
BY DEF InPending, IsHead, HasNext, NextGame

(* A void leaves every session within what its pair has paid. *)
LEMMA ChargeAfterVoid ==
    ASSUME TypeOK, TypeOK', OrderInv, OrderInv', VoidsBelowMax, ChargeInv, HasNext,
           attempt # "aborted", NEW g \in Games, g = NextGame, VoidSubGame(g),
           \A h \in Games \ {g} : session'[h] = session[h],
           ThiefSeen(session'[g]), Charge(session'[g]) <= Paid(g) + voids + 1
    PROVE  ChargeInv'
<1> SUFFICES ASSUME NEW h \in Games PROVE ChargeOf(h)'
  BY DEF ChargeInv
<1>1. /\ SchedTypeOK /\ SchedTypeOK' /\ IsHead(g) /\ g \notin done /\ InPending(g)
      /\ ThiefSeen(session'[h]) /\ attempt' \in {"idle", "aborted"} /\ ChargeOf(h)
  BY HeadFacts DEF TypeOK, IsHead, ChargeInv, ChargeOf, VoidSubGame
<1>2. /\ voids \in Nat /\ voids < MaxVoids /\ MaxVoids \in Nat /\ spare \in Nat /\ spare >= Pairs
      /\ \A k \in Games : SeedFor(k) \in Seeds /\ SeedFor(k) < spare
      /\ \A k \in Games : session[k].voids \in Nat /\ session[k].started \in BOOLEAN
      /\ \A k \in Games : session'[k].voids \in Nat /\ session'[k].started \in BOOLEAN
  <2>1. /\ voids \in Nat /\ voids < MaxVoids /\ MaxVoids \in Nat
        /\ spare \in Nat /\ spare >= Pairs
    BY ScheduleAssumption DEF TypeOK, SchedTypeOK, VoidsBelowMax
  <2>2. \A k \in Games : SeedFor(k) \in Seeds /\ SeedFor(k) < spare
    BY GameIds DEF TypeOK, SchedTypeOK, SeedFor, OrderInv, SeedsOwned
  <2>3. \A k \in Games : session[k].voids \in Nat /\ session[k].started \in BOOLEAN
    BY DEF TypeOK
  <2>4. \A k \in Games : session'[k].voids \in Nat /\ session'[k].started \in BOOLEAN
    BY DEF TypeOK
  <2>5. QED
    BY <2>1, <2>2, <2>3, <2>4
<1>3. Paid(h) \in Nat /\ Paid(g) \in Nat
  BY <1>2, SparePrice DEF Paid
<1>4. CASE ReplayVoid(g)
  <2>1. UNCHANGED <<pairSeed, spare, pending, done>> /\ voids' = voids + 1
    BY <1>4 DEF ReplayVoid
  <2>2. Paid(h)' = Paid(h)
    BY <2>1 DEF Paid, SeedFor
  <2>3. /\ InPending(h)' <=> InPending(h)
        /\ IsHead(h)' <=> IsHead(h)
    BY <2>1, PlacesKept
  <2>4. CASE h = g
    BY <1>1, <1>2, <1>3, <2>1, <2>2, <2>3, <2>4 DEF ChargeOf
  <2>5. CASE h # g
    BY <1>1, <1>2, <1>3, <2>1, <2>2, <2>3, <2>5 DEF ChargeOf, IsHead
  <2>6. QED
    BY <2>4, <2>5
<1>5. CASE VoidExhausted(g)
  <2>1. UNCHANGED <<pairSeed, spare, pending, done>>
    BY <1>5 DEF VoidExhausted
  <2>2. Paid(h)' = Paid(h)
    BY <2>1 DEF Paid, SeedFor
  <2>3. /\ InPending(h)' <=> InPending(h)
        /\ IsHead(h)' <=> IsHead(h)
    BY <2>1, PlacesKept
  <2>4. attempt' = "aborted"
    BY <1>5 DEF VoidSubGame, RecordVoid, ReplayVoid, Escalate, VoidExhausted, Exhausted
  <2>5. QED
    BY <1>1, <1>2, <1>3, <2>1, <2>2, <2>3, <2>4 DEF ChargeOf, IsHead
<1>6. CASE Escalate(g)
  <2>1. voids' = 0
    BY <1>6 DEF Escalate
  <2>2. InPending(h)' <=> h \notin done'
    BY <1>1 DEF OrderInv, DoneOrPending
  <2>3. IsHead(h)' => InPending(h)'
    <3>1. SUFFICES ASSUME IsHead(h)' PROVE InPending(h)'
      OBVIOUS
    <3>2. Len(pending') \in Nat \ {0} /\ pending'[1] = h
      BY <1>1, <3>1 DEF IsHead, HasNext, NextGame, SchedTypeOK
    <3>3. 1 \in 1 .. Len(pending')
      BY <3>2
    <3>4. QED
      BY <3>2, <3>3 DEF InPending
  <2>4. CASE PairOf(h) # PairOf(g)
    <3>1. Paid(h)' = Paid(h)
      BY <1>1, <1>6, <2>4, EscalateKeeps DEF Paid
    <3>2. (h \in done' <=> h \in done) /\ h # g
      BY <1>1, <1>6, <2>4, EscalateKeeps
    <3>3. InPending(h)' => Charge(session[h]) <= Paid(h)
      BY <1>1, <2>2, <3>2 DEF OrderInv, DoneOrPending, ChargeOf, IsHead
    <3>4. QED
      BY <1>1, <1>2, <1>3, <2>1, <2>2, <2>3, <3>1, <3>2, <3>3 DEF ChargeOf
  <2>5. CASE PairOf(h) = PairOf(g)
    <3>1. h \notin done' /\ SeedFor(h)' = spare /\ SeedFor(h) = SeedFor(g)
      BY <1>1, <1>6, <2>5, EscalateKeeps DEF SeedFor
    <3>2. Paid(h) = Paid(g) /\ Paid(h) + MaxVoids <= Paid(h)' /\ Paid(h)' \in Nat
      BY <1>2, <3>1, SparePrice DEF Paid
    <3>3. CASE h = g
      BY <1>1, <1>2, <1>3, <2>1, <3>1, <3>2, <3>3 DEF ChargeOf, Charge
    <3>4. CASE h # g
      <4>1. Charge(session[h]) <= Paid(h) + MaxVoids
        <5>1. h \in done \/ InPending(h)
          BY DEF OrderInv, DoneOrPending
        <5>2. QED
          BY <1>1, <1>2, <1>3, <3>4, <5>1 DEF ChargeOf, Charge, IsHead
      <4>2. Charge(session'[h]) <= Paid(h)'
        BY <1>2, <1>3, <3>2, <3>4, <4>1 DEF Charge
      <4>3. QED
        BY <1>1, <1>2, <2>1, <3>1, <3>2, <4>2 DEF ChargeOf, Charge
    <3>5. QED
      BY <3>3, <3>4
  <2>6. QED
    BY <2>4, <2>5
<1>7. QED
  BY <1>4, <1>5, <1>6 DEF VoidSubGame, RecordVoid

(* A completed run turns its head's charge into a standing game's, and the  *)
(* next head starts from what its pair has paid.                            *)
LEMMA ChargeAfterResult ==
    ASSUME TypeOK, TypeOK', OrderInv, OrderInv', VoidsBelowMax, ChargeInv, HasNext,
           NEW g \in Games, g = NextGame, FinishSubGame(g)
    PROVE  ChargeInv'
<1> SUFFICES ASSUME NEW h \in Games PROVE ChargeOf(h)'
  BY DEF ChargeInv
<1>1. /\ SchedTypeOK /\ SchedTypeOK' /\ IsHead(g) /\ g \notin done /\ InPending(g) /\ ChargeOf(h)
      /\ attempt = "playing" /\ attempt' = "idle" /\ voids' = 0 /\ done' = done \union {g}
  BY HeadFacts DEF TypeOK, IsHead, ChargeInv, FinishSubGame, RecordResult
<1>2. /\ session'[h].voids = session[h].voids
      /\ session'[h].started = session[h].started
      /\ session'[h].spawns = session[h].spawns
  BY DEF FinishSubGame, ParseResult, TypeOK
<1>3. Charge(session'[h]) = Charge(session[h]) /\ (ThiefSeen(session'[h]) <=> ThiefSeen(session[h]))
  BY <1>2 DEF Charge, ThiefSeen
<1>4. Paid(h)' = Paid(h) /\ Paid(h) \in Nat
  <2>1. Paid(h)' = Paid(h)
    BY DEF FinishSubGame, RecordResult, Paid, SeedFor
  <2>2. SeedFor(h) \in Seeds /\ spare \in Nat /\ SeedFor(h) < spare /\ spare >= Pairs
    BY ScheduleAssumption, GameIds DEF TypeOK, SchedTypeOK, SeedFor, OrderInv, SeedsOwned
  <2>3. QED
    BY <2>1, <2>2, SparePrice DEF Paid
<1>5. voids \in Nat /\ voids < MaxVoids /\ MaxVoids \in Nat /\ session[h].voids \in Nat
  BY <1>1, ScheduleAssumption DEF TypeOK, SchedTypeOK, VoidsBelowMax
<1>6. InPending(h)' <=> InPending(h) /\ h # g
  BY <1>1 DEF OrderInv, DoneOrPending
<1>7. IsHead(h)' => InPending(h)'
  <2>1. SUFFICES ASSUME IsHead(h)' PROVE InPending(h)'
    OBVIOUS
  <2>2. Len(pending') \in Nat \ {0} /\ pending'[1] = h
    BY <1>1, <2>1 DEF IsHead, HasNext, NextGame, SchedTypeOK
  <2>3. 1 \in 1 .. Len(pending')
    BY <2>2
  <2>4. QED
    BY <2>2, <2>3 DEF InPending
<1>8. InPending(h)' => Charge(session[h]) <= Paid(h)
  BY <1>1, <1>6 DEF ChargeOf, IsHead
<1>9. h \in done' => session[h].voids <= Paid(h) + (MaxVoids - 1)
  <2>1. CASE h = g
    BY <1>1, <1>4, <1>5, <2>1 DEF ChargeOf
  <2>2. CASE h # g
    BY <1>1, <2>2 DEF ChargeOf
  <2>3. QED
    BY <2>1, <2>2
<1>10. ThiefSeen(session'[h])
  BY <1>1, <1>3 DEF ChargeOf
<1>11. QED
  BY <1>1, <1>2, <1>3, <1>4, <1>7, <1>8, <1>9, <1>10 DEF ChargeOf

LEMMA ChargeStep ==
    ASSUME TypeOK, TypeOK', OrderInv, OrderInv', VoidsBelowMax, ChargeInv, [Next]_vars
    PROVE  ChargeInv'
<1>1. CASE UNCHANGED vars
  BY <1>1 DEF vars, ChargeInv, ChargeOf, Paid, SeedFor, IsHead, HasNext, NextGame, InPending
<1>2. CASE ~UNCHANGED vars
  <2>1. SchedTypeOK
    BY DEF TypeOK
  <2>2. HasNext /\ NextGame \in Games
    BY <1>2, <2>1, StepCases
  <2>3. PICK g \in Games : g = NextGame
    BY <2>2
  <2>4. g \notin done /\ InPending(g) /\ IsHead(g) /\ ChargeOf(g) /\ ThiefSeen(session[g])
    BY <2>1, <2>2, <2>3, HeadFacts DEF ChargeInv, ChargeOf, IsHead
  <2>5. Paid(g) \in Nat /\ voids \in Nat
    <3>1. SeedFor(g) \in Seeds /\ spare \in Nat /\ SeedFor(g) < spare /\ spare >= Pairs
      BY ScheduleAssumption, GameIds DEF TypeOK, SchedTypeOK, SeedFor, OrderInv, SeedsOwned
    <3>2. QED
      BY <3>1, SparePrice DEF Paid, TypeOK, SchedTypeOK
  <2>6. ASSUME NEW r \in Roles, HelloOk(g, r) PROVE ChargeInv'
    <3> DEFINE t == ParseHello(session[g], r, Spawn[SeedFor(g)][r])
    <3>1. /\ Charge(t) = Charge(session[g]) /\ t.voids \in Nat /\ t.voids <= Charge(t)
          /\ ThiefSeen(t)
          /\ r = "thief" => ~t.started /\ t.spawns["thief"] # NoCell
      BY <2>4, HelloCharge
    <3>2. /\ session' = [session EXCEPT ![g] = t]
          /\ UNCHANGED <<pairSeed, spare, pending, done, voids>>
          /\ attempt \in {"idle", "cop_greeted"}
          /\ attempt' = IF r = "cop" THEN "cop_greeted" ELSE "playing"
      BY <2>6 DEF HelloOk, Hello
    <3>3. SUFFICES ASSUME NEW h \in Games PROVE ChargeOf(h)'
      BY DEF ChargeInv
    <3>4. /\ InPending(h)' <=> InPending(h)
          /\ IsHead(h)' <=> IsHead(h)
          /\ Paid(h)' = Paid(h)
      BY <3>2, PlacesKept DEF Paid, SeedFor
    <3>5. CASE h = g
      <4>1. session'[h] = t /\ Charge(t) <= Paid(g) + voids
        BY <2>4, <3>1, <3>2, <3>5 DEF TypeOK, ChargeOf
      <4>2. t.voids <= Paid(g) + voids
        BY <2>5, <3>1, <4>1 DEF Charge, TypeOK
      <4>3. QED
        BY <2>3, <2>4, <3>1, <3>2, <3>4, <3>5, <4>1, <4>2 DEF ChargeOf, Roles
    <3>6. CASE h # g
      <4>1. session'[h] = session[h] /\ ~IsHead(h)
        BY <2>3, <3>2, <3>6 DEF TypeOK, IsHead
      <4>2. QED
        BY <3>2, <3>4, <4>1 DEF ChargeInv, ChargeOf
    <3>7. QED
      BY <3>5, <3>6
  <2>7. ASSUME NEW r \in Roles, HelloVoid(g, r) PROVE ChargeInv'
    <3> DEFINE t == ParseHello(session[g], r, Spawn[SeedFor(g)][r])
    <3>1. Charge(t) = Charge(session[g]) /\ t.voids \in Nat /\ ThiefSeen(t)
      BY <2>4, HelloCharge
    <3>2. /\ session' = [session EXCEPT ![g] = t] /\ VoidSubGame(g)
          /\ attempt \in {"idle", "cop_greeted"}
      BY <2>7 DEF HelloVoid, Hello
    <3>3. session'[g] = t /\ \A h \in Games \ {g} : session'[h] = session[h]
      BY <3>2 DEF TypeOK
    <3>4. Charge(session[g]) <= Paid(g) + voids /\ Charge(session[g]) \in Nat
      BY <2>4, <3>2 DEF ChargeOf, Charge, TypeOK
    <3>5. Charge(t) <= Paid(g) + voids + 1
      BY <2>5, <3>1, <3>4
    <3>6. attempt # "aborted"
      BY <3>2
    <3>7. QED
      BY <2>2, <2>3, <3>1, <3>2, <3>3, <3>5, <3>6, ChargeAfterVoid
  <2>8. CASE MoveOk(g)
    <3>1. /\ session' = [session EXCEPT ![g] = ParseMove(@)] /\ attempt = "playing"
          /\ UNCHANGED <<pairSeed, spare, pending, done, voids, attempt>>
      BY <2>8 DEF MoveOk
    <3>2. SUFFICES ASSUME NEW h \in Games PROVE ChargeOf(h)'
      BY DEF ChargeInv
    <3>3. /\ InPending(h)' <=> InPending(h)
          /\ IsHead(h)' <=> IsHead(h)
          /\ Paid(h)' = Paid(h)
      BY <3>1, PlacesKept DEF Paid, SeedFor
    <3>4. CASE h = g
      <4>1. session'[h].voids = session[h].voids /\ session'[h].spawns = session[h].spawns
        BY <3>1, <3>4 DEF TypeOK, ParseMove
      <4>2. QED
        BY <2>4, <3>1, <3>3, <3>4, <4>1 DEF ChargeOf, ThiefSeen
    <3>5. CASE h # g
      <4>1. session'[h] = session[h]
        BY <3>1, <3>5 DEF TypeOK
      <4>2. QED
        BY <3>1, <3>3, <4>1 DEF ChargeInv, ChargeOf
    <3>6. QED
      BY <3>4, <3>5
  <2>9. CASE MoveVoid(g)
    <3>1. /\ session' = [session EXCEPT ![g] = ParseMove(@)] /\ attempt = "playing"
          /\ VoidSubGame(g)
      BY <2>9 DEF MoveVoid
    <3>2. /\ session'[g].voids = session[g].voids /\ session'[g].started
          /\ session'[g].spawns = session[g].spawns
          /\ \A h \in Games \ {g} : session'[h] = session[h]
      BY <3>1 DEF TypeOK, ParseMove
    <3>3. session[g].voids \in Nat /\ session[g].voids <= Paid(g) + voids
          /\ session[g].spawns["thief"] # NoCell
      BY <2>4, <3>1 DEF ChargeOf, TypeOK
    <3>4. Charge(session'[g]) <= Paid(g) + voids + 1 /\ ThiefSeen(session'[g])
      BY <2>5, <3>2, <3>3 DEF Charge, ThiefSeen
    <3>5. attempt # "aborted"
      BY <3>1
    <3>6. QED
      BY <2>2, <2>3, <3>1, <3>2, <3>4, <3>5, ChargeAfterVoid
  <2>10. CASE FinishSubGame(g)
    BY <2>2, <2>3, <2>10, ChargeAfterResult
  <2>11. QED
    BY <1>2, <2>1, <2>3, <2>6, <2>7, <2>8, <2>9, <2>10, StepCases
<1>3. QED
  BY <1>1, <1>2

(* The consecutive-void counter never reaches the threshold and stays.      *)
LEMMA VoidsStep ==
    ASSUME TypeOK, VoidsBelowMax, [Next]_vars
    PROVE  VoidsBelowMax'
<1>1. voids \in Nat /\ MaxVoids \in Nat \ {0}
  BY ScheduleAssumption DEF TypeOK, SchedTypeOK
<1>2. ASSUME NEW g \in Games, VoidSubGame(g) PROVE VoidsBelowMax'
  BY <1>1, <1>2
     DEF VoidSubGame, RecordVoid, ReplayVoid, Escalate, Escalates, VoidExhausted, VoidsBelowMax
<1>3. CASE UNCHANGED vars
  BY <1>3 DEF vars, VoidsBelowMax
<1>4. CASE ~UNCHANGED vars
  <2>1. SchedTypeOK
    BY DEF TypeOK
  <2>2. PICK g \in Games : g = NextGame
    BY <1>4, <2>1, StepCases
  <2>3. ASSUME NEW r \in Roles, HelloOk(g, r) PROVE VoidsBelowMax'
    BY <2>3 DEF HelloOk, Hello, VoidsBelowMax
  <2>4. ASSUME NEW r \in Roles, HelloVoid(g, r) PROVE VoidsBelowMax'
    BY <1>2, <2>4 DEF HelloVoid
  <2>5. CASE MoveOk(g)
    BY <2>5 DEF MoveOk, VoidsBelowMax
  <2>6. CASE MoveVoid(g)
    BY <1>2, <2>6 DEF MoveVoid
  <2>7. CASE FinishSubGame(g)
    BY <1>1, <2>7 DEF FinishSubGame, RecordResult, VoidsBelowMax
  <2>8. QED
    BY <1>4, <2>1, <2>2, <2>3, <2>4, <2>5, <2>6, <2>7, StepCases
<1>5. QED
  BY <1>3, <1>4

(* The whole invariant holds initially and every step keeps it. *)
LEMMA IInvInit == Init => IInv
<1> SUFFICES ASSUME Init PROVE IInv
  OBVIOUS
<1>1. TypeOK
  BY TypeInit
<1>2. /\ done = {} /\ voids = 0 /\ spare = Pairs /\ attempt = "idle"
      /\ pairSeed = [k \in PairIds |-> k]
      /\ records = [g \in Games |-> NoRecord] /\ session = [g \in Games |-> NewSession]
  BY DEF Init, SchedInit
<1>3. /\ pending = [g \in Games |-> g] /\ Len(pending) = 2 * Pairs
  BY ScheduleAssumption DEF Init, SchedInit, Games
<1>4. \A g \in Games : InPending(g)
  BY <1>3 DEF InPending, Games
<1>5. OrderInv
  <2>1. PendingSorted
    BY <1>3, ScheduleAssumption DEF PendingSorted, Games
  <2>2. SeedsOwned
    BY <1>2, ScheduleAssumption DEF SeedsOwned, PairIds
  <2>3. QED
    BY <1>2, <1>4, <2>1, <2>2 DEF OrderInv, DoneOrPending, MirrorAfterBase
<1>6. VoidsBelowMax /\ RecordsMatch
  BY <1>2, ScheduleAssumption DEF VoidsBelowMax, RecordsMatch, NoRecord, NoSeed
<1>7. ChargeInv
  <2>1. SUFFICES ASSUME NEW g \in Games PROVE ChargeOf(g)
    BY DEF ChargeInv
  <2>2. session[g].voids = 0 /\ ~session[g].started /\ Charge(session[g]) = 0
    BY <1>2 DEF NewSession, Charge
  <2>3. Paid(g) \in Nat
    <3>1. SeedFor(g) \in Seeds /\ SeedFor(g) < spare /\ spare \in Nat
      BY <1>1, <1>2, <1>5, GameIds, ScheduleAssumption
         DEF TypeOK, SchedTypeOK, OrderInv, SeedsOwned, SeedFor
    <3>2. QED
      BY <1>2, <3>1, SparePrice DEF Paid
  <2>4. QED
    BY <1>2, <2>2, <2>3 DEF ChargeOf, ThiefSeen
<1>8. QED
  BY <1>1, <1>5, <1>6, <1>7 DEF IInv, SchedInv

LEMMA IInvStep == IInv /\ [Next]_vars => IInv'
<1> SUFFICES ASSUME IInv, [Next]_vars PROVE IInv'
  OBVIOUS
<1>1. TypeOK /\ SchedTypeOK /\ OrderInv /\ VoidsBelowMax /\ RecordsMatch /\ ChargeInv
  BY DEF IInv, SchedInv, TypeOK
<1>2. TypeOK'
  BY <1>1, TypeStep
<1>3. OrderInv'
  <2>1. CASE UNCHANGED vars
    BY <1>1, <2>1
       DEF vars, OrderInv, PendingSorted, DoneOrPending, MirrorAfterBase, SeedsOwned, InPending
  <2>2. CASE ~UNCHANGED vars
    <3>1. HasNext
      BY <1>1, <2>2, StepCases
    <3>2. QED
      BY <1>1, <2>2, <3>1, StepCases, SchedulePart, OrderStep
  <2>3. QED
    BY <2>1, <2>2
<1>4. VoidsBelowMax' /\ RecordsMatch' /\ ChargeInv'
  BY <1>1, <1>2, <1>3, VoidsStep, RecordsStep, ChargeStep
<1>5. QED
  BY <1>2, <1>3, <1>4 DEF IInv, SchedInv

THEOREM Invariance == Spec => []IInv
BY IInvInit, IInvStep, PTL DEF Spec
-----------------------------------------------------------------------------
(* The log of an honest match resolves one seed per mirror pair and never   *)
(* the same seed for two pairs, for any number of pairs, spares and voids.  *)
THEOREM SeedsResolveToPairs == Spec => []OneSeedPerPair
<1>1. IInv => OneSeedPerPair
  <2> SUFFICES ASSUME IInv, NEW g \in Played, NEW h \in Played
               PROVE  (session[g].seed = session[h].seed) <=> (PairOf(g) = PairOf(h))
    BY DEF OneSeedPerPair
  <2>1. g \in Games /\ h \in Games /\ session[g].seed = SeedFor(g) /\ session[h].seed = SeedFor(h)
    BY DEF IInv, RecordsMatch, Played
  <2>2. PairOf(g) \in PairIds /\ PairOf(h) \in PairIds
    BY <2>1, GameIds
  <2>3. QED
    BY <2>1, <2>2 DEF IInv, SchedInv, OrderInv, SeedsOwned, SeedFor
<1>2. QED
  BY <1>1, Invariance, PTL

(* verify_session_voids accepts every honest log: whatever was voided,      *)
(* escalated or requeued, a session carries at most the cap of its seed.    *)
THEOREM SessionCapSound == Spec => []WithinSessionCap
<1>1. IInv => WithinSessionCap
  <2> SUFFICES ASSUME IInv, NEW g \in Played
               PROVE  session[g].voids <= SessionCap(session[g].seed)
    BY DEF WithinSessionCap
  <2>1. g \in Games /\ g \in done /\ session[g].seed = SeedFor(g)
    BY DEF IInv, RecordsMatch, Played
  <2>2. session[g].voids <= Paid(g) + (MaxVoids - 1)
    BY <2>1 DEF IInv, ChargeInv, ChargeOf
  <2>3. QED
    BY <2>1, <2>2 DEF SessionCap, Paid
<1>2. QED
  BY <1>1, Invariance, PTL
-----------------------------------------------------------------------------
(* Every step of the referee is a step of the promise or leaves it alone.   *)
LEMMA RefinementStep ==
    ASSUME IInv, IInv', [Next]_vars
    PROVE  [Promise!Next]_(Promise!avars)
<1> DEFINE fin == [g \in Games |-> records[g].seed]
<1>1. TypeOK /\ SchedTypeOK /\ OrderInv /\ RecordsMatch /\ RecordsMatch'
  BY DEF IInv, SchedInv, TypeOK
<1>2. Promise!Games = Games /\ Promise!PairIds = PairIds /\ Promise!Seeds = Seeds /\ Promise!NoSeed = NoSeed
  BY DEF Promise!Games, Promise!PairIds, Promise!Seeds, Promise!NoSeed, Games, PairIds, Seeds, NoSeed
<1>3. CASE UNCHANGED <<pairSeed, spare, records>>
  BY <1>3 DEF Promise!avars
<1>4. CASE ~UNCHANGED <<pairSeed, spare, records>>
  <2>1. ~UNCHANGED vars
    BY <1>4 DEF vars
  <2>2. HasNext /\ NextGame \in Games
    BY <1>1, <2>1, StepCases
  <2>3. PICK g \in Games : g = NextGame
    BY <2>2
  <2>4. PICK k \in PairIds : k = PairOf(g)
    BY GameIds
  <2>5. \A h \in Games : h \in Promise!Halves(k) <=> PairOf(h) = k
    BY <2>4, ScheduleAssumption DEF Promise!Halves, PairOf, PairIds, Games
  <2>6. g \notin done /\ (BaseOf(g) = g \/ BaseOf(g) \in done) /\ BaseOf(g) \in Games /\ BaseOf(g) = k + 1
    BY <1>1, <2>2, <2>3, <2>4, HeadFacts, GameIds DEF BaseOf
  <2>7. CASE FinishSubGame(g)
    <3>1. UNCHANGED <<pairSeed, spare>>
      BY <2>7 DEF FinishSubGame, RecordResult
    <3>2. records' = [records EXCEPT ![g] = [seed |-> SeedFor(g), ended |-> results + 1]]
      BY <2>7 DEF FinishSubGame
    <3>3. fin' = [fin EXCEPT ![g] = pairSeed[k]]
      BY <1>1, <2>4, <3>2 DEF TypeOK, SeedFor
    <3>4. fin[g] = NoSeed /\ (g # k + 1 => fin[k + 1] # NoSeed)
      BY <1>1, <2>6 DEF RecordsMatch
    <3>5. Promise!Finish(k, g)
      BY <2>4, <2>5, <3>1, <3>3, <3>4 DEF Promise!Finish, Promise!NoSeed, NoSeed
    <3>6. QED
      BY <1>2, <3>5 DEF Promise!Next
  <2>8. CASE VoidSubGame(g) /\ Escalate(g)
    <3>1. /\ pairSeed' = [pairSeed EXCEPT ![k] = spare] /\ spare' = spare + 1
          /\ spare \in Nat /\ spare < NumSeeds
      BY <1>1, <2>4, <2>8, ScheduleAssumption DEF Escalate, Exhausted, SchedTypeOK
    <3>2. spare \in Seeds \ (0 .. spare - 1) /\ \A t \in 0 .. spare - 1 : t \in 0 .. spare - 1
      BY <3>1, ScheduleAssumption DEF Seeds
    <3>3. 0 .. spare' - 1 = (0 .. spare - 1) \union {spare}
      BY <3>1
    <3>4. records' = [h \in Games |-> IF h \in Stale(g) THEN NoRecord ELSE records[h]]
      BY <2>8 DEF VoidSubGame, VoidExhausted, Escalate
    <3>5. fin' = [h \in Games |-> IF h \in Promise!Halves(k) THEN NoSeed ELSE fin[h]]
      <4>1. ASSUME NEW h \in Games, h \in Promise!Halves(k) PROVE records'[h].seed = NoSeed
        <5>1. h \notin done'
          BY <1>1, <2>2, <2>3, <2>4, <2>5, <2>8, <4>1, EscalateKeeps
        <5>2. QED
          BY <1>1, <5>1 DEF RecordsMatch
      <4>2. ASSUME NEW h \in Games, h \notin Promise!Halves(k) PROVE records'[h].seed = records[h].seed
        <5>1. h \notin Stale(g)
          BY <1>1, <2>2, <2>3, <2>4, <2>5, <2>8, <4>2, EscalateKeeps
        <5>2. QED
          BY <3>4, <5>1
      <4>3. QED
        BY <4>1, <4>2
    <3>6. PICK s \in Seeds : s = spare
      BY <3>2
    <3>7. Promise!Reseed(k, s)
      BY <1>2, <3>1, <3>2, <3>3, <3>5, <3>6 DEF Promise!Reseed
    <3>8. QED
      BY <1>2, <3>7 DEF Promise!Next
  <2>9. CASE VoidSubGame(g) /\ ~Escalate(g)
    <3>1. UNCHANGED <<pairSeed, spare>>
      BY <2>9 DEF VoidSubGame, RecordVoid, ReplayVoid, VoidExhausted
    <3>2. UNCHANGED records
      BY <1>1, <2>9 DEF VoidSubGame, RecordVoid, ReplayVoid, Stale, TypeOK
    <3>3. QED
      BY <1>4, <3>1, <3>2
  <2>10. CASE VoidSubGame(g)
    BY <2>8, <2>9, <2>10
  <2>11. ASSUME \/ \E r \in Roles : HelloOk(g, r)
                \/ MoveOk(g)
         PROVE  FALSE
    BY <1>4, <2>11 DEF HelloOk, MoveOk
  <2>12. QED
    BY <1>1, <2>1, <2>3, <2>7, <2>10, <2>11, StepCases DEF HelloVoid, MoveVoid
<1>5. QED
  BY <1>3, <1>4

LEMMA RefinementInit == Init => Promise!Init
<1> SUFFICES ASSUME Init PROVE Promise!Init
  OBVIOUS
<1>1. 0 .. spare - 1 = PairIds /\ pairSeed = [k \in PairIds |-> k]
  BY DEF Init, SchedInit, PairIds
<1>2. [g \in Games |-> records[g].seed] = [g \in Games |-> NoSeed]
  BY DEF Init, NoRecord
<1>3. QED
  BY <1>1, <1>2
     DEF Promise!Init, Promise!PairIds, Promise!Games, Promise!NoSeed, PairIds, Games, NoSeed

(* The match the referee plays is one the P7 promise allows, for any number *)
(* of pairs, spares and consecutive voids: one layout per pair, every spare *)
(* to one pair and in order, nothing standing on an annulled layout.        *)
THEOREM Refinement == Spec => ImplementsPairedMatch
<1>1. IInv /\ IInv' /\ [Next]_vars => [Promise!Next]_(Promise!avars)
  BY RefinementStep
<1>2. QED
  BY <1>1, RefinementInit, Invariance, PTL DEF Spec, ImplementsPairedMatch, Promise!Spec
-----------------------------------------------------------------------------
(* Every operation of the schedule leaves voidEvents and what was paid for  *)
(* in step: a void counts one, and a spare costs MaxVoids.                  *)
LEMMA BillStep ==
    ASSUME TypeOK, VoidsBelowMax, VoidsPayForSpares, [Next]_vars
    PROVE  VoidsPayForSpares'
<1> DEFINE paid == MaxVoids * (spare - Pairs)
           slack == (MaxVoids - 1) * results
<1>1. /\ MaxVoids \in Nat \ {0} /\ voids \in Nat /\ results \in Nat /\ voidEvents \in Nat
      /\ spare \in Nat /\ Pairs \in Nat /\ spare >= Pairs
  BY ScheduleAssumption DEF TypeOK, SchedTypeOK
<1>2. /\ paid \in Nat /\ slack \in Nat
      /\ \A next \in Nat : next = spare + 1 => MaxVoids * (next - Pairs) = paid + MaxVoids
      /\ (MaxVoids - 1) * (results + 1) = slack + (MaxVoids - 1)
  <2>1. \A m, n \in Nat : m * n \in Nat /\ m * (n + 1) = m * n + m
    OBVIOUS
  <2>2. spare - Pairs \in Nat /\ MaxVoids - 1 \in Nat
        /\ \A next \in Nat : next = spare + 1 => next - Pairs = (spare - Pairs) + 1
    BY <1>1
  <2>3. MaxVoids * (spare - Pairs) \in Nat
        /\ MaxVoids * ((spare - Pairs) + 1) = MaxVoids * (spare - Pairs) + MaxVoids
    BY <1>1, <2>1, <2>2
  <2>4. (MaxVoids - 1) * results \in Nat
        /\ (MaxVoids - 1) * (results + 1) = (MaxVoids - 1) * results + (MaxVoids - 1)
    BY <1>1, <2>1, <2>2
  <2>5. QED
    BY <2>2, <2>3, <2>4
<1> HIDE DEF paid, slack
<1>3. /\ attempt # "aborted" => voidEvents >= paid + voids
      /\ attempt # "aborted" => voidEvents <= paid + voids + slack
  BY DEF VoidsPayForSpares, paid, slack
<1>4. ASSUME NEW g \in Games, attempt # "aborted", VoidSubGame(g)
      PROVE  VoidsPayForSpares'
  <2>1. CASE ReplayVoid(g) /\ attempt' = "idle"
    <3>1. voids' = voids + 1 /\ spare' = spare /\ voidEvents' = voidEvents + 1 /\ results' = results
      BY <1>4, <2>1 DEF VoidSubGame, ReplayVoid
    <3>2. QED
      BY <1>1, <1>2, <1>3, <1>4, <3>1 DEF VoidsPayForSpares, paid, slack
  <2>2. CASE Escalate(g) /\ attempt' = "idle"
    <3>1. /\ voids' = 0 /\ spare' = spare + 1 /\ voidEvents' = voidEvents + 1 /\ results' = results
          /\ voids + 1 = MaxVoids
      BY <1>1, <1>4, <2>2 DEF VoidSubGame, Escalate, Escalates, VoidsBelowMax
    <3>2. MaxVoids * (spare' - Pairs) = paid + MaxVoids /\ (MaxVoids - 1) * results' = slack
      <4>1. PICK next \in Nat : next = spare' /\ next = spare + 1
        BY <1>1, <3>1
      <4>2. (MaxVoids - 1) * results' = slack
        BY <3>1, Zenon DEF slack
      <4>3. QED
        BY <1>2, <4>1, <4>2
    <3>3. voidEvents' >= (paid + MaxVoids) + 0 /\ voidEvents' <= (paid + MaxVoids) + 0 + slack
      BY <1>1, <1>2, <1>3, <1>4, <3>1
    <3>4. QED
      BY <3>1, <3>2, <3>3 DEF VoidsPayForSpares
  <2>3. CASE attempt' = "aborted"
    BY <2>3 DEF VoidsPayForSpares
  <2>4. QED
    BY <1>4, <2>1, <2>2, <2>3 DEF VoidSubGame, RecordVoid
<1>5. CASE UNCHANGED vars
  BY <1>5 DEF vars, VoidsPayForSpares
<1>6. CASE ~UNCHANGED vars
  <2>1. SchedTypeOK
    BY DEF TypeOK
  <2>2. PICK g \in Games : g = NextGame
    BY <1>6, <2>1, StepCases
  <2>3. ASSUME NEW r \in Roles, HelloOk(g, r) PROVE VoidsPayForSpares'
    BY <2>3 DEF HelloOk, Hello, VoidsPayForSpares
  <2>4. ASSUME NEW r \in Roles, HelloVoid(g, r) PROVE VoidsPayForSpares'
    BY <1>4, <2>4 DEF HelloVoid, Hello
  <2>5. CASE MoveOk(g)
    BY <2>5 DEF MoveOk, VoidsPayForSpares
  <2>6. CASE MoveVoid(g)
    BY <1>4, <2>6 DEF MoveVoid
  <2>7. CASE FinishSubGame(g)
    <3>1. /\ voids' = 0 /\ spare' = spare /\ voidEvents' = voidEvents /\ results' = results + 1
          /\ attempt # "aborted" /\ voids <= MaxVoids - 1
      BY <1>1, <2>7 DEF FinishSubGame, RecordResult, VoidsBelowMax
    <3>2. MaxVoids * (spare' - Pairs) = paid /\ (MaxVoids - 1) * results' = slack + (MaxVoids - 1)
      BY <1>2, <3>1 DEF paid
    <3>3. voidEvents' >= paid + 0 /\ voidEvents' <= paid + 0 + (slack + (MaxVoids - 1))
      BY <1>1, <1>2, <1>3, <3>1
    <3>4. QED
      BY <3>1, <3>2, <3>3 DEF VoidsPayForSpares
  <2>8. QED
    BY <1>6, <2>1, <2>2, <2>3, <2>4, <2>5, <2>6, <2>7, StepCases
<1>7. QED
  BY <1>5, <1>6

(* Every spare handed out was paid for by MaxVoids logged voids; what else  *)
(* is in the log are the unpaid voids of the head and fewer than MaxVoids   *)
(* for each result.  What verify_escalation_budget rests on.                *)
THEOREM SparesArePaidFor == Spec => []VoidsPayForSpares
<1>1. Init => VoidsPayForSpares
  <2>1. SUFFICES ASSUME Init PROVE VoidsPayForSpares
    OBVIOUS
  <2>2. spare = Pairs /\ voids = 0 /\ results = 0 /\ voidEvents = 0
    BY <2>1 DEF Init, SchedInit
  <2>3. spare - Pairs = 0 /\ MaxVoids * 0 = 0 /\ (MaxVoids - 1) * 0 = 0
    BY <2>2, ScheduleAssumption
  <2>4. QED
    BY <2>2, <2>3, ScheduleAssumption DEF VoidsPayForSpares
<1>2. IInv /\ VoidsPayForSpares /\ [Next]_vars => VoidsPayForSpares'
  BY BillStep DEF IInv, SchedInv
<1>3. QED
  BY <1>1, <1>2, Invariance, PTL DEF Spec
-----------------------------------------------------------------------------
(* No two seeds of the list spawn the cop alike and the thief apart: what   *)
(* the parser needs to tell an attempt on a new seed from a retried hello.  *)
CopTellsThief ==
    \A s, u \in Seeds : Spawn[s]["cop"] = Spawn[u]["cop"] => Spawn[s]["thief"] = Spawn[u]["thief"]

Logged == [spawns : [Roles -> Cells \union {NoCell}], started : BOOLEAN,
           voids : Nat, seed : Seeds \union {NoSeed}]

(* A session's spawns so far are those of one seed, the cop's first.        *)
Greeting(s, seed) ==
    /\ s.spawns["cop"] = Spawn[seed]["cop"]
    /\ s.spawns["thief"] \in {NoCell, Spawn[seed]["thief"]}

SpawnsOf(g) ==
    /\ \/ session[g].spawns = [r \in Roles |-> NoCell] /\ ~session[g].started
       \/ \E seed \in Seeds : Greeting(session[g], seed)
    /\ IsHead(g) /\ attempt = "cop_greeted" =>
            Greeting(session[g], SeedFor(g)) /\ ~session[g].started
    /\ IsHead(g) /\ attempt = "playing" => session[g].spawns = Spawn[SeedFor(g)]
    /\ g \in done => session[g].spawns = Spawn[SeedFor(g)]

SpawnsInv == \A g \in Games : SpawnsOf(g)

(* What one role's hello leaves of a session: after the cop's, nothing of   *)
(* another seed is left; the thief's then completes the pair of spawns.     *)
LEMMA HelloSpawns ==
    ASSUME CopTellsThief, NEW s \in Logged, NEW seed \in Seeds, NEW r \in Roles,
           \/ s.spawns = [x \in Roles |-> NoCell] /\ ~s.started
           \/ \E u \in Seeds : Greeting(s, u),
           r = "thief" => Greeting(s, seed) /\ ~s.started,
           NEW t, t = ParseHello(s, r, Spawn[seed][r])
    PROVE  /\ Greeting(t, seed) /\ ~t.started
           /\ r = "thief" => t.spawns = Spawn[seed]
<1> DEFINE cell == Spawn[seed][r]
           again == s.spawns[r] # NoCell /\ ~(s.spawns[r] = cell /\ ~s.started)
<1>1. /\ t.started = (s.started /\ ~again)
      /\ t.spawns = [x \in Roles |-> IF x = r THEN cell ELSE IF again THEN NoCell ELSE s.spawns[x]]
  BY DEF ParseHello
<1>2. Roles = {"cop", "thief"}
  BY DEF Roles
<1>3. /\ \A u \in Seeds : Spawn[u] \in [Roles -> Cells] /\ Spawn[u]["cop"] # NoCell
                          /\ Spawn[u]["thief"] # NoCell
      /\ s.spawns \in [Roles -> Cells \union {NoCell}] /\ s.started \in BOOLEAN
  <2>1. \A u \in Seeds : Spawn[u] \in [Roles -> Cells]
    BY SpawnAssumption
  <2>2. \A u \in Seeds : Spawn[u]["cop"] \in Nat /\ Spawn[u]["thief"] \in Nat
    BY <1>2, <2>1, SpawnAssumption
  <2>3. QED
    BY <2>1, <2>2 DEF NoCell, Logged
<1>4. CASE r = "cop"
  <2>1. s.started => again
    <3>1. s.started => s.spawns["cop"] # NoCell
      BY <1>3 DEF Greeting
    <3>2. QED
      BY <1>4, <3>1
  <2>2. ~t.started
    BY <1>1, <2>1, Zenon
  <2>3. t.spawns["cop"] = Spawn[seed]["cop"]
    BY <1>1, <1>2, <1>4
  <2>4. again => t.spawns["thief"] = NoCell
    BY <1>1, <1>2, <1>4
  <2>5. ASSUME ~again
        PROVE  t.spawns["thief"] \in {NoCell, Spawn[seed]["thief"]}
    <3>1. t.spawns["thief"] = s.spawns["thief"]
      BY <1>1, <1>2, <1>4, <2>5
    <3>2. CASE s.spawns["cop"] = NoCell
      BY <1>2, <1>3, <3>1, <3>2 DEF Greeting
    <3>3. CASE s.spawns["cop"] = Spawn[seed]["cop"] /\ s.spawns["cop"] # NoCell
      <4>1. PICK u \in Seeds : Greeting(s, u)
        BY <1>2, <3>3
      <4>2. Spawn[u]["thief"] = Spawn[seed]["thief"]
        BY <3>3, <4>1 DEF Greeting, CopTellsThief
      <4>3. QED
        BY <3>1, <4>1, <4>2 DEF Greeting
    <3>4. QED
      BY <1>4, <2>5, <3>2, <3>3
  <2>6. QED
    BY <1>4, <2>2, <2>3, <2>4, <2>5 DEF Greeting
<1>5. CASE r = "thief"
  <2>1. ~again
    BY <1>3, <1>5 DEF Greeting
  <2>2. t.spawns["cop"] = s.spawns["cop"] /\ t.spawns["thief"] = Spawn[seed]["thief"]
    BY <1>1, <1>2, <1>5, <2>1
  <2>3. t.spawns["cop"] = Spawn[seed]["cop"]
    BY <1>5, <2>2 DEF Greeting
  <2>4. t.spawns = Spawn[seed]
    BY <1>1, <1>2, <1>3, <2>2, <2>3
  <2>5. ~t.started
    BY <1>1, <1>5, Zenon
  <2>6. QED
    BY <2>2, <2>3, <2>4, <2>5 DEF Greeting
<1>6. QED
  BY <1>2, <1>4, <1>5

(* Other sessions stand as they did through a void: a game whose pair gets  *)
(* a new seed is not done any more.                                         *)
LEMMA SpawnsAfterVoid ==
    ASSUME TypeOK, OrderInv, SpawnsInv, HasNext, NEW g \in Games, g = NextGame, VoidSubGame(g),
           \A h \in Games \ {g} : session'[h] = session[h],
           \E seed \in Seeds : Greeting(session'[g], seed)
    PROVE  SpawnsInv'
<1>1. SchedTypeOK /\ g \notin done /\ attempt' \in {"idle", "aborted"}
  BY HeadFacts DEF TypeOK, VoidSubGame
<1>2. \A h \in Games : h \in done' => h \in done /\ SeedFor(h)' = SeedFor(h)
  <2>1. CASE ReplayVoid(g) \/ VoidExhausted(g)
    BY <2>1 DEF ReplayVoid, VoidExhausted, SeedFor
  <2>2. CASE Escalate(g)
    BY <1>1, <2>2, EscalateKeeps
  <2>3. QED
    BY <2>1, <2>2 DEF VoidSubGame, RecordVoid
<1>3. SUFFICES ASSUME NEW h \in Games PROVE SpawnsOf(h)'
  BY DEF SpawnsInv
<1>4. CASE h = g
  BY <1>1, <1>2, <1>4 DEF SpawnsOf, Greeting
<1>5. CASE h # g
  <2>1. session'[h] = session[h] /\ SpawnsOf(h)
    BY <1>5 DEF SpawnsInv
  <2>2. QED
    BY <1>1, <1>2, <2>1 DEF SpawnsOf, Greeting
<1>6. QED
  BY <1>4, <1>5

(* Every step leaves the sessions' spawns so. *)
LEMMA SpawnsStep ==
    ASSUME CopTellsThief, TypeOK, OrderInv, OrderInv', SpawnsInv, [Next]_vars
    PROVE  SpawnsInv'
<1>1. CASE UNCHANGED vars
  BY <1>1 DEF vars, SpawnsInv, SpawnsOf, Greeting, SeedFor, IsHead, HasNext, NextGame
<1>2. CASE ~UNCHANGED vars
  <2>1. SchedTypeOK
    BY DEF TypeOK
  <2>2. HasNext /\ NextGame \in Games
    BY <1>2, <2>1, StepCases
  <2>3. PICK g \in Games : g = NextGame
    BY <2>2
  <2>4. g \notin done /\ IsHead(g) /\ SpawnsOf(g) /\ session[g] \in Logged /\ SeedFor(g) \in Seeds
    <3>1. session[g] \in Logged
      BY DEF TypeOK, Logged
    <3>2. SeedFor(g) \in Seeds
      BY GameIds DEF TypeOK, SchedTypeOK, SeedFor
    <3>3. QED
      BY <2>1, <2>2, <2>3, <3>1, <3>2, HeadFacts DEF SpawnsInv, IsHead
  <2>5. PICK seed \in Seeds : seed = SeedFor(g)
    BY <2>4
  <2>6. ASSUME NEW r \in Roles, Hello(g, r)
        PROVE  /\ Greeting(session'[g], seed) /\ ~session'[g].started
               /\ r = "thief" => session'[g].spawns = Spawn[seed]
               /\ \A h \in Games \ {g} : session'[h] = session[h]
    <3>1. PICK t : t = ParseHello(session[g], r, Spawn[seed][r])
      OBVIOUS
    <3>2. /\ session' = [session EXCEPT ![g] = t]
          /\ attempt = IF r = "cop" THEN "idle" ELSE "cop_greeted"
      BY <2>5, <2>6, <3>1 DEF Hello
    <3>3. r = "thief" => Greeting(session[g], seed) /\ ~session[g].started
      BY <2>4, <2>5, <3>2 DEF SpawnsOf
    <3>4. PICK s \in Logged : s = session[g]
      BY <2>4
    <3>5. \/ s.spawns = [x \in Roles |-> NoCell] /\ ~s.started
          \/ \E u \in Seeds : Greeting(s, u)
      BY <2>4, <3>4 DEF SpawnsOf
    <3>6. /\ Greeting(t, seed) /\ ~t.started
          /\ r = "thief" => t.spawns = Spawn[seed]
      BY <3>1, <3>3, <3>4, <3>5, HelloSpawns
    <3>7. session'[g] = t /\ \A h \in Games \ {g} : session'[h] = session[h]
      BY <3>2 DEF TypeOK
    <3>8. QED
      BY <3>6, <3>7
  <2>7. ASSUME NEW r \in Roles, HelloOk(g, r) PROVE SpawnsInv'
    <3>1. /\ UNCHANGED <<pairSeed, pending, done>>
          /\ attempt' = IF r = "cop" THEN "cop_greeted" ELSE "playing"
          /\ Greeting(session'[g], seed) /\ ~session'[g].started
          /\ r = "thief" => session'[g].spawns = Spawn[seed]
          /\ \A h \in Games \ {g} : session'[h] = session[h]
      BY <2>6, <2>7 DEF HelloOk
    <3>2. SUFFICES ASSUME NEW h \in Games PROVE SpawnsOf(h)'
      BY DEF SpawnsInv
    <3>3. (IsHead(h)' <=> h = g) /\ SeedFor(h)' = SeedFor(h) /\ (h \in done' <=> h \in done)
      BY <2>3, <2>4, <3>1 DEF IsHead, HasNext, NextGame, SeedFor
    <3>4. CASE h = g
      BY <2>4, <2>5, <3>1, <3>3, <3>4 DEF SpawnsOf, Greeting, Roles
    <3>5. CASE h # g
      BY <3>1, <3>3, <3>5 DEF SpawnsInv, SpawnsOf, Greeting
    <3>6. QED
      BY <3>4, <3>5
  <2>8. ASSUME NEW r \in Roles, HelloVoid(g, r) PROVE SpawnsInv'
    <3>1. VoidSubGame(g) /\ Greeting(session'[g], seed)
          /\ \A h \in Games \ {g} : session'[h] = session[h]
      BY <2>6, <2>8 DEF HelloVoid
    <3>2. QED
      BY <2>2, <2>3, <3>1, SpawnsAfterVoid
  <2>9. ASSUME attempt = "playing", session' = [session EXCEPT ![g] = ParseMove(@)]
        PROVE  /\ session'[g].spawns = Spawn[seed] /\ Greeting(session'[g], seed)
               /\ \A h \in Games \ {g} : session'[h] = session[h]
    <3>1. session'[g].spawns = session[g].spawns /\ \A h \in Games \ {g} : session'[h] = session[h]
      BY <2>9 DEF TypeOK, ParseMove
    <3>2. session[g].spawns = Spawn[seed]
      BY <2>4, <2>5, <2>9 DEF SpawnsOf
    <3>3. QED
      BY <3>1, <3>2 DEF Greeting
  <2>10. CASE MoveOk(g)
    <3>1. /\ UNCHANGED <<pairSeed, pending, done, attempt>> /\ attempt = "playing"
          /\ session'[g].spawns = Spawn[seed] /\ Greeting(session'[g], seed)
          /\ \A h \in Games \ {g} : session'[h] = session[h]
      BY <2>9, <2>10 DEF MoveOk
    <3>2. SUFFICES ASSUME NEW h \in Games PROVE SpawnsOf(h)'
      BY DEF SpawnsInv
    <3>3. (IsHead(h)' <=> h = g) /\ SeedFor(h)' = SeedFor(h) /\ (h \in done' <=> h \in done)
      BY <2>3, <2>4, <3>1 DEF IsHead, HasNext, NextGame, SeedFor
    <3>4. CASE h = g
      BY <2>4, <2>5, <3>1, <3>3, <3>4 DEF SpawnsOf, Greeting
    <3>5. CASE h # g
      BY <3>1, <3>3, <3>5 DEF SpawnsInv, SpawnsOf, Greeting
    <3>6. QED
      BY <3>4, <3>5
  <2>11. CASE MoveVoid(g)
    <3>1. VoidSubGame(g) /\ Greeting(session'[g], seed)
          /\ \A h \in Games \ {g} : session'[h] = session[h]
      BY <2>9, <2>11 DEF MoveVoid
    <3>2. QED
      BY <2>2, <2>3, <3>1, SpawnsAfterVoid
  <2>12. CASE FinishSubGame(g)
    <3>1. /\ attempt = "playing" /\ attempt' = "idle" /\ pairSeed' = pairSeed
          /\ done' = done \union {g}
          /\ session' = [session EXCEPT ![g] = ParseResult(@, SeedFor(g))]
      BY <2>12 DEF FinishSubGame, RecordResult
    <3>2. /\ session'[g].spawns = session[g].spawns
          /\ \A h \in Games \ {g} : session'[h] = session[h]
      BY <3>1 DEF TypeOK, ParseResult
    <3>3. session'[g].spawns = Spawn[seed] /\ Greeting(session'[g], seed)
      BY <2>4, <2>5, <3>1, <3>2 DEF SpawnsOf, Greeting
    <3>4. SUFFICES ASSUME NEW h \in Games PROVE SpawnsOf(h)'
      BY DEF SpawnsInv
    <3>5. SeedFor(h)' = SeedFor(h) /\ (h # g => (h \in done' <=> h \in done))
      BY <3>1 DEF SeedFor
    <3>6. CASE h = g
      BY <2>5, <3>1, <3>3, <3>5, <3>6 DEF SpawnsOf, Greeting
    <3>7. CASE h # g
      BY <3>1, <3>2, <3>5, <3>7 DEF SpawnsInv, SpawnsOf, Greeting
    <3>8. QED
      BY <3>6, <3>7
  <2>13. QED
    BY <1>2, <2>1, <2>3, <2>7, <2>8, <2>10, <2>11, <2>12, StepCases
<1>3. QED
  BY <1>1, <1>2

(* When no two seeds spawn the cop alike and the thief apart, the log of a  *)
(* standing game is parsed to the spawns and the seed of the run that       *)
(* stands, however many attempts were voided at whatever call before it.    *)
THEOREM LastRunParsed ==
    ASSUME CopTellsThief
    PROVE  Spec => []SurvivingRunParsed
<1>1. Init => SpawnsInv
  BY DEF Init, SchedInit, SpawnsInv, SpawnsOf, NewSession
<1>2. IInv /\ IInv' /\ SpawnsInv /\ [Next]_vars => SpawnsInv'
  BY SpawnsStep DEF IInv, SchedInv
<1>3. IInv /\ SpawnsInv => SurvivingRunParsed
  BY DEF IInv, RecordsMatch, SpawnsInv, SpawnsOf, SurvivingRunParsed, Played
<1>4. QED
  BY <1>1, <1>2, <1>3, Invariance, PTL DEF Spec
-----------------------------------------------------------------------------
(* Sums.  The sum of a value over a finite set takes the elements one by    *)
(* one, in the order CHOOSE gives; its running totals are a function of the *)
(* set of elements still to come.                                           *)
Taken(t) == CHOOSE x \in t : TRUE
Tallies(F, v, D) ==
    F = [t \in SUBSET D |-> IF t = {} THEN 0 ELSE v[Taken(t)] + F[t \ {Taken(t)}]]

(* A set of numbers that is not empty has a least one. *)
LEMMA LeastNumber ==
    ASSUME NEW T \in SUBSET Nat, T # {}
    PROVE  \E n \in T : \A m \in T : n <= m
<1>1. PICK n \in T : \A m \in T : ~ (<<m, n>> \in OpToRel(<, Nat))
  BY NatLessThanWellFounded, WFMin
<1>2. \A m \in T : ~ (m < n)
  BY <1>1 DEF OpToRel
<1>3. QED
  BY <1>2

(* Taking one element of a finite set leaves a smaller one. *)
LEMMA TakenOut ==
    ASSUME NEW D, IsFiniteSet(D), NEW t \in SUBSET D, t # {}
    PROVE  /\ Taken(t) \in t /\ Taken(t) \in D
           /\ t \ {Taken(t)} \in SUBSET D
           /\ Cardinality(t) \in Nat /\ Cardinality(t \ {Taken(t)}) \in Nat
           /\ Cardinality(t \ {Taken(t)}) = Cardinality(t) - 1
<1>1. Taken(t) \in t
  BY DEF Taken
<1>2. IsFiniteSet(t)
  BY FS_Subset
<1>3. IsFiniteSet(t \ {Taken(t)}) /\ Cardinality(t \ {Taken(t)}) = Cardinality(t) - 1
  BY <1>1, <1>2, FS_RemoveElement
<1>4. QED
  BY <1>1, <1>2, <1>3, FS_CardinalityType

(* The running totals exist: those of the sets of at most n + 1 elements    *)
(* follow from those of the sets of at most n.                              *)
LEMMA TalliesExist ==
    ASSUME NEW D, IsFiniteSet(D), NEW v
    PROVE  \E F : Tallies(F, v, D)
<1> DEFINE Small(n) == {t \in SUBSET D : Cardinality(t) <= n}
           UpTo(F, n) == F = [t \in Small(n) |->
                                IF t = {} THEN 0 ELSE v[Taken(t)] + F[t \ {Taken(t)}]]
           Bad == {n \in Nat : ~ \E F : UpTo(F, n)}
<1>1. \A t \in SUBSET D : t # {} => /\ t \ {Taken(t)} \in SUBSET D
                                    /\ Cardinality(t) \in Nat
                                    /\ Cardinality(t \ {Taken(t)}) = Cardinality(t) - 1
  BY TakenOut
<1>2. Cardinality({}) = 0 /\ {} \in SUBSET D
  BY FS_EmptySet
<1>3. ASSUME NEW t \in Small(0), t # {} PROVE FALSE
  <2>1. t \in SUBSET D /\ Cardinality(t) <= 0
    OBVIOUS
  <2>2. Cardinality(t) \in Nat /\ Cardinality(t \ {Taken(t)}) \in Nat
    BY <1>3, <2>1, TakenOut
  <2>3. Cardinality(t \ {Taken(t)}) = Cardinality(t) - 1
    BY <1>3, <2>1, TakenOut
  <2>4. QED
    BY <2>1, <2>2, <2>3
<1>4. Bad = {}
  <2>1. SUFFICES ASSUME Bad # {} PROVE FALSE
    OBVIOUS
  <2>2. PICK n \in Bad : \A m \in Bad : n <= m
    BY <2>1, LeastNumber
  <2>3. CASE n = 0
    <3> DEFINE F == [t \in Small(0) |-> 0]
    <3>1. UpTo(F, 0)
      BY <1>3
    <3>2. QED
      BY <2>2, <2>3, <3>1
  <2>4. CASE n # 0
    <3>1. n \in Nat /\ n - 1 \in Nat /\ ~ (n <= n - 1)
      BY <2>2, <2>4
    <3>2. n - 1 \notin Bad
      <4> HIDE DEF Bad
      <4>1. QED
        BY <2>2, <3>1
    <3>3. PICK F : UpTo(F, n - 1)
      BY <3>1, <3>2
    <3> DEFINE G == [t \in Small(n) |-> IF t = {} THEN 0 ELSE v[Taken(t)] + F[t \ {Taken(t)}]]
    <3>4. ASSUME NEW t \in Small(n), t # {} PROVE G[t \ {Taken(t)}] = F[t \ {Taken(t)}]
      <4> DEFINE u == t \ {Taken(t)}
      <4>1. u \in Small(n - 1) /\ u \in Small(n)
        BY <1>1, <2>2, <3>4
      <4>2. F[u] = IF u = {} THEN 0 ELSE v[Taken(u)] + F[u \ {Taken(u)}]
        BY <3>3, <4>1
      <4>3. G[u] = IF u = {} THEN 0 ELSE v[Taken(u)] + F[u \ {Taken(u)}]
        BY <4>1
      <4>4. QED
        BY <4>2, <4>3
    <3>5. UpTo(G, n)
      BY <3>4
    <3>6. QED
      BY <2>2, <3>5
  <2>5. QED
    BY <2>3, <2>4
<1>5. Cardinality(D) \in Nat
  BY FS_CardinalityType
<1>6. PICK F : UpTo(F, Cardinality(D))
  BY <1>4, <1>5
<1>7. Small(Cardinality(D)) = SUBSET D
  BY FS_Subset
<1>8. Tallies(F, v, D)
  BY <1>6, <1>7 DEF Tallies
<1>9. QED
  BY <1>8

(* Two sums whose values differ at one element differ by as much. *)
LEMMA TalliesMove ==
    ASSUME NEW D, IsFiniteSet(D), NEW v, NEW w, NEW F, NEW G, Tallies(F, v, D), Tallies(G, w, D),
           \A x \in D : v[x] \in Int /\ w[x] \in Int,
           NEW g \in D, \A x \in D \ {g} : w[x] = v[x]
    PROVE  F[D] \in Int /\ G[D] = F[D] + (w[g] - v[g])
<1> DEFINE Moved(u) == F[u] \in Int /\ G[u] = F[u] + (IF g \in u THEN w[g] - v[g] ELSE 0)
           Bad == {n \in Nat : \E u \in SUBSET D : Cardinality(u) = n /\ ~Moved(u)}
<1>1. Bad = {}
  <2>1. SUFFICES ASSUME Bad # {} PROVE FALSE
    OBVIOUS
  <2>2. PICK n \in Bad : \A m \in Bad : n <= m
    BY <2>1, LeastNumber
  <2>3. PICK u \in SUBSET D : Cardinality(u) = n /\ ~Moved(u)
    BY <2>2
  <2>4. u # {}
    BY <2>3 DEF Tallies
  <2> DEFINE x == Taken(u)
             r == u \ {x}
  <2>5. x \in u /\ x \in D /\ r \in SUBSET D /\ Cardinality(r) \in Nat /\ Cardinality(r) < n
    BY <2>3, <2>4, TakenOut
  <2>6. Moved(r)
    BY <2>2, <2>5
  <2>7. F[u] = v[x] + F[r] /\ G[u] = w[x] + G[r]
    BY <2>4 DEF Tallies
  <2>8. g \in r <=> g \in u /\ g # x
    OBVIOUS
  <2> HIDE DEF x, r
  <2>9. Moved(u)
    BY <2>5, <2>6, <2>7, <2>8
  <2>10. QED
    BY <2>3, <2>9
<1>2. Cardinality(D) \in Nat
  BY FS_CardinalityType
<1>3. Moved(D)
  BY <1>1, <1>2
<1>4. QED
  BY <1>3

(* A sum of zeros is zero. *)
LEMMA TalliesOfZero ==
    ASSUME NEW D, IsFiniteSet(D), NEW v, NEW F, Tallies(F, v, D), \A x \in D : v[x] = 0
    PROVE  F[D] = 0
<1> DEFINE Bad == {n \in Nat : \E u \in SUBSET D : Cardinality(u) = n /\ F[u] # 0}
<1>1. Bad = {}
  <2>1. SUFFICES ASSUME Bad # {} PROVE FALSE
    OBVIOUS
  <2>2. PICK n \in Bad : \A m \in Bad : n <= m
    BY <2>1, LeastNumber
  <2>3. PICK u \in SUBSET D : Cardinality(u) = n /\ F[u] # 0
    BY <2>2
  <2>4. u # {}
    BY <2>3 DEF Tallies
  <2> DEFINE x == Taken(u)
             r == u \ {x}
  <2>5. x \in D /\ r \in SUBSET D /\ Cardinality(r) \in Nat /\ Cardinality(r) < n
    BY <2>3, <2>4, TakenOut
  <2>6. F[r] = 0
    BY <2>2, <2>5
  <2>7. F[u] = v[x] + F[r]
    BY <2>4 DEF Tallies
  <2> HIDE DEF x, r
  <2>8. QED
    BY <2>3, <2>5, <2>6, <2>7
<1>2. QED
  BY <1>1, FS_CardinalityType
-----------------------------------------------------------------------------
(* Results in id order so far: nothing was played again.                    *)
InOrder == done = 1 .. results /\ \A g \in done : records[g].ended = g

(* Two neighbours the wrong way round: the first one is to be played again, *)
(* or was, after the second.  A base game that is played again comes after  *)
(* the base game next to it, the last one after the first mirror game.      *)
Inverted ==
    \E i \in Games :
        /\ i + 1 \in done
        /\ i \in done => records[i].ended > records[i + 1].ended

(* Two results for one sub-game put the clock ahead of the records for good.*)
TimesInv ==
    /\ \A g \in done : records[g].ended \in 1 .. results
    /\ InOrder \/ (results > Cardinality(done) /\ (Pairs > 1 => Inverted))

(* The ids and the done games are finite sets, and 2 * Pairs is all of them.*)
LEMMA DoneIsFinite ==
    ASSUME SchedTypeOK
    PROVE  /\ IsFiniteSet(Games) /\ Cardinality(Games) = 2 * Pairs
           /\ IsFiniteSet(done) /\ Cardinality(done) \in Nat /\ Cardinality(done) <= 2 * Pairs
           /\ Cardinality(done) = 2 * Pairs => done = Games
<1>1. IsFiniteSet(Games) /\ Cardinality(Games) = 2 * Pairs
  BY FS_Interval, ScheduleAssumption DEF Games
<1>2. QED
  BY <1>1, FS_Subset, FS_CardinalityType DEF SchedTypeOK

(* In order, the game to play is the one after the last result. *)
LEMMA HeadInOrder ==
    ASSUME TypeOK, OrderInv, HasNext, InOrder
    PROVE  /\ NextGame = results + 1
           /\ \A g \in done : g <= results
<1>1. SchedTypeOK /\ results \in Nat /\ NextGame \in Games
  BY HeadIsPending DEF TypeOK
<1>2. NextGame \notin done /\ \A h \in Games : h \notin done => NextGame <= h
  BY <1>1, HeadFacts DEF OrderInv, DoneOrPending
<1>3. results + 1 \in Games
  BY <1>1, <1>2, ScheduleAssumption DEF InOrder, Games
<1>4. QED
  BY <1>1, <1>2, <1>3 DEF InOrder, Games

(* A void keeps the order unless it sends a base game back: that game then  *)
(* is behind the one after it, which was finished before the mirror began.  *)
LEMMA TimesAfterVoid ==
    ASSUME TypeOK, OrderInv, TimesInv, HasNext, NEW g \in Games, g = NextGame, VoidSubGame(g)
    PROVE  TimesInv'
<1>1. SchedTypeOK /\ g \notin done /\ results \in Nat /\ results' = results
  BY HeadFacts DEF TypeOK, VoidSubGame
<1>2. CASE ReplayVoid(g) \/ VoidExhausted(g)
  <2>1. Stale(g) = {} \/ UNCHANGED records
    BY <1>2 DEF VoidSubGame, RecordVoid, ReplayVoid, Stale, VoidExhausted, Exhausted, Escalate
  <2>2. UNCHANGED <<records, done>>
    BY <2>1, <1>2 DEF VoidSubGame, TypeOK, ReplayVoid, VoidExhausted
  <2>3. QED
    BY <1>1, <2>2 DEF TimesInv, InOrder, Inverted
<1>3. CASE Escalate(g)
  <2>1. /\ records' = [h \in Games |-> IF h \in Stale(g) THEN NoRecord ELSE records[h]]
        /\ done' = done \ Stale(g)
    BY <1>3 DEF VoidSubGame, VoidExhausted, Escalate
  <2>2. CASE Stale(g) = {}
    <3>1. done' = done /\ \A h \in done : records'[h] = records[h]
      BY <1>1, <2>1, <2>2 DEF SchedTypeOK
    <3>2. \A h \in Games : h \in done => records'[h] = records[h]
      BY <3>1
    <3>3. QED
      BY <1>1, <3>1, <3>2 DEF TimesInv, InOrder, Inverted
  <2>3. CASE Stale(g) # {}
    <3> DEFINE b == BaseOf(g)
    <3>1. Stale(g) = {b} /\ b \in done /\ b # g
      BY <2>3 DEF Stale
    <3>2. /\ b \in Games /\ b <= g /\ done' = done \ {b}
          /\ \A h \in done' : records'[h] = records[h]
      BY <1>1, <2>1, <3>1, GameIds DEF SchedTypeOK
    <3>3. \A h \in Games : h < g => h \in done
      BY <1>1, HeadFacts DEF OrderInv, DoneOrPending, Games
    <3>4. \A h \in done' : records'[h].ended \in 1 .. results'
      BY <1>1, <3>2 DEF TimesInv
    <3>5. results' > Cardinality(done')
      <4>1. Cardinality(done') = Cardinality(done) - 1
        BY <1>1, <3>1, <3>2, DoneIsFinite, FS_RemoveElement
      <4>2. InOrder => Cardinality(done) = results
        BY <1>1, FS_Interval DEF InOrder
      <4>3. QED
        BY <1>1, <4>1, <4>2, DoneIsFinite DEF TimesInv
    <3>6. Pairs > 1 => Inverted'
      <4>1. SUFFICES ASSUME Pairs > 1 PROVE Inverted'
        OBVIOUS
      <4>2. b + 1 \in Games /\ b + 1 < g
        BY <3>1, <3>2, <4>1, ScheduleAssumption DEF BaseOf, PairOf, Games
      <4>3. b + 1 \in done' /\ b \notin done'
        BY <3>2, <3>3, <4>2 DEF Games
      <4>4. QED
        BY <3>2, <4>3 DEF Inverted
    <3>7. QED
      BY <3>4, <3>5, <3>6 DEF TimesInv
  <2>4. QED
    BY <2>2, <2>3
<1>4. QED
  BY <1>2, <1>3 DEF VoidSubGame, RecordVoid

(* A result is later than every record, and in order it is the next one's. *)
LEMMA TimesAfterResult ==
    ASSUME TypeOK, OrderInv, TimesInv, HasNext, NEW g \in Games, g = NextGame, FinishSubGame(g)
    PROVE  TimesInv'
<1>1. SchedTypeOK /\ g \notin done /\ results \in Nat /\ results' = results + 1
  BY HeadFacts DEF TypeOK, FinishSubGame
<1>2. /\ done' = done \union {g}
      /\ \A h \in Games : h # g => records'[h] = records[h]
      /\ records'[g].ended = results + 1
  BY DEF FinishSubGame, RecordResult, TypeOK
<1>3. \A h \in done : h \in Games /\ h # g
  BY <1>1 DEF SchedTypeOK
<1>4. \A h \in done' : records'[h].ended \in 1 .. results'
  BY <1>1, <1>2, <1>3 DEF TimesInv
<1>5. Cardinality(done') = Cardinality(done) + 1 /\ IsFiniteSet(done')
  BY <1>1, <1>2, DoneIsFinite, FS_AddElement
<1>6. CASE InOrder
  <2>1. g = results + 1
    BY <1>6, HeadInOrder
  <2>2. done' = 1 .. results'
    BY <1>1, <1>2, <1>6, <2>1 DEF InOrder
  <2>3. \A h \in done' : records'[h].ended = h
    BY <1>2, <1>3, <1>6, <2>1 DEF InOrder
  <2>4. QED
    BY <1>4, <1>6, <2>2, <2>3 DEF TimesInv, InOrder
<1>7. CASE ~InOrder
  <2>1. results' > Cardinality(done')
    BY <1>1, <1>5, <1>7, DoneIsFinite DEF TimesInv
  <2>2. Pairs > 1 => Inverted'
    <3>1. SUFFICES ASSUME Pairs > 1 PROVE Inverted'
      OBVIOUS
    <3>2. PICK i \in Games : i + 1 \in done /\ (i \in done => records[i].ended > records[i + 1].ended)
      BY <1>7, <3>1 DEF TimesInv, Inverted
    <3>3. i + 1 \in done' /\ i + 1 # g /\ records'[i + 1] = records[i + 1]
      BY <1>1, <1>2, <1>3, <3>2
    <3>4. records[i + 1].ended \in 1 .. results
      BY <3>2 DEF TimesInv
    <3>5. i \in done' => records'[i].ended > records'[i + 1].ended
      BY <1>1, <1>2, <3>2, <3>3, <3>4
    <3>6. QED
      BY <3>3, <3>5 DEF Inverted
  <2>3. QED
    BY <1>4, <2>1, <2>2 DEF TimesInv
<1>8. QED
  BY <1>6, <1>7
-----------------------------------------------------------------------------
(* The voids of all sessions, as the match-wide bound adds them up.         *)
VoidTotal(s) == MapThenSumSet(LAMBDA g : s[g].voids, Games)

(* The sessions whose last hellos were followed by a move, and all the runs *)
(* the log knows of: a session's voids are the ones before its last.        *)
Begun(s) == {g \in Games : s[g].started}
RunTotal(s) == VoidTotal(s) + Cardinality(Begun(s))

(* The run being played, once its first move is logged. *)
Underway == IF attempt = "playing" /\ HasNext /\ session[NextGame].started THEN 1 ELSE 0

(* Every run that was begun has ended in a void or a result, but for the one*)
(* under way; a game has a second result for each spare at most; and the    *)
(* match ends with a result, which resets the count of consecutive voids.   *)
BooksInv ==
    /\ RunTotal(session) <= voidEvents + results + Underway
    /\ results <= Cardinality(done) + (spare - Pairs)
    /\ ~HasNext => voids = 0

(* The fold of LoggedVoids is the last of the running totals. *)
LEMMA VoidTotalTallied ==
    ASSUME NEW s
    PROVE  \E F : Tallies(F, [g \in Games |-> s[g].voids], Games) /\ VoidTotal(s) = F[Games]
<1> DEFINE v == [g \in Games |-> s[g].voids]
           Unrolls(F) == F = [t \in SUBSET Games |-> IF t = {} THEN 0
                                ELSE s[Taken(t)].voids + F[t \ {Taken(t)}]]
           iter == CHOOSE F : Unrolls(F)
<1>1. IsFiniteSet(Games)
  BY FS_Interval, ScheduleAssumption DEF Games
<1>2. \A t \in SUBSET Games : t # {} => Taken(t) \in Games /\ v[Taken(t)] = s[Taken(t)].voids
  BY DEF Taken
<1>3. PICK F : Tallies(F, v, Games)
  BY <1>1, TalliesExist
<1>4. Unrolls(F)
  BY <1>2, <1>3 DEF Tallies
<1>5. Unrolls(iter)
  <2> HIDE DEF Unrolls
  <2>1. QED
    BY <1>4, Zenon
<1>6. VoidTotal(s) = iter[Games]
  BY Zenon DEF VoidTotal, MapThenSumSet, MapThenFoldSet, Taken
<1>7. Tallies(iter, v, Games)
  <2> HIDE DEF iter
  <2>1. QED
    BY <1>2, <1>5 DEF Tallies
<1>8. QED
  BY <1>6, <1>7, Zenon

(* One session's voids move the total by as much. *)
LEMMA VoidTotalMoves ==
    ASSUME NEW s, NEW t, NEW g \in Games, \A h \in Games : s[h].voids \in Int /\ t[h].voids \in Int,
           \A h \in Games \ {g} : t[h].voids = s[h].voids
    PROVE  VoidTotal(s) \in Int /\ VoidTotal(t) = VoidTotal(s) + (t[g].voids - s[g].voids)
<1> DEFINE v == [h \in Games |-> s[h].voids]
           w == [h \in Games |-> t[h].voids]
<1>1. PICK F : Tallies(F, v, Games) /\ VoidTotal(s) = F[Games]
  BY VoidTotalTallied
<1>2. PICK G : Tallies(G, w, Games) /\ VoidTotal(t) = G[Games]
  BY VoidTotalTallied
<1>3. IsFiniteSet(Games)
  BY FS_Interval, ScheduleAssumption DEF Games
<1>4. /\ \A h \in Games : v[h] \in Int /\ w[h] \in Int
      /\ \A h \in Games \ {g} : w[h] = v[h]
      /\ v[g] = s[g].voids /\ w[g] = t[g].voids
  OBVIOUS
<1> HIDE DEF v, w
<1>5. F[Games] \in Int /\ G[Games] = F[Games] + (w[g] - v[g])
  BY <1>1, <1>2, <1>3, <1>4, TalliesMove
<1>6. QED
  BY <1>1, <1>2, <1>4, <1>5

(* A step that writes one session moves the total by that session's voids. *)
LEMMA SessionVoids ==
    ASSUME TypeOK, TypeOK', NEW g \in Games, \A h \in Games \ {g} : session'[h] = session[h]
    PROVE  /\ VoidTotal(session) \in Int
           /\ VoidTotal(session') = VoidTotal(session) + (session'[g].voids - session[g].voids)
           /\ session[g].voids \in Int /\ session'[g].voids \in Int
<1>1. \A h \in Games : session[h].voids \in Int /\ session'[h].voids \in Int
  BY DEF TypeOK
<1>2. \A h \in Games \ {g} : session'[h].voids = session[h].voids
  OBVIOUS
<1>3. QED
  BY <1>1, <1>2, VoidTotalMoves

(* A hello that supersedes a logged run counts it, and nothing else. *)
LEMMA HelloCounts ==
    ASSUME TypeOK, NEW g \in Games, NEW r \in Roles, Hello(g, r)
    PROVE  /\ Charge(session'[g]) = Charge(session[g])
           /\ \A h \in Games \ {g} : session'[h] = session[h]
<1> DEFINE s == session[g]
           cell == Spawn[SeedFor(g)][r]
<1>1. /\ session'[g] = ParseHello(s, r, cell)
      /\ \A h \in Games \ {g} : session'[h] = session[h]
  BY DEF Hello, TypeOK
<1>2. s.voids \in Nat /\ s.started \in BOOLEAN
  BY DEF TypeOK
<1> HIDE DEF s, cell
<1>3. Charge(ParseHello(s, r, cell)) = Charge(s)
  <2> DEFINE t == ParseHello(s, r, cell)
             again == s.spawns[r] # NoCell /\ ~ (s.spawns[r] = cell /\ ~s.started)
  <2>1. /\ t.started <=> s.started /\ ~again
        /\ t.voids = IF again /\ s.started THEN s.voids + 1 ELSE s.voids
    BY <1>2 DEF ParseHello
  <2>2. s.started /\ again => ~t.started
    BY <2>1
  <2> HIDE DEF t, again
  <2>3. Charge(t) = Charge(s)
    BY <1>2, <2>1 DEF Charge
  <2>4. QED
    BY <2>3 DEF t
<1>4. QED
  BY <1>1, <1>3 DEF s

(* A step that writes one session moves the runs by that session's charge.  *)
LEMMA RunsMove ==
    ASSUME TypeOK, TypeOK', NEW g \in Games, \A h \in Games \ {g} : session'[h] = session[h]
    PROVE  /\ RunTotal(session) \in Int
           /\ RunTotal(session') = RunTotal(session) + (Charge(session'[g]) - Charge(session[g]))
           /\ Charge(session[g]) \in Nat /\ Charge(session'[g]) \in Nat
<1> DEFINE B == Begun(session)
           C == Begun(session')
<1>1. /\ VoidTotal(session) \in Int
      /\ VoidTotal(session') = VoidTotal(session) + (session'[g].voids - session[g].voids)
  BY SessionVoids
<1>2. /\ session[g].voids \in Nat /\ session[g].started \in BOOLEAN
      /\ session'[g].voids \in Nat /\ session'[g].started \in BOOLEAN
  BY DEF TypeOK
<1>3. IsFiniteSet(B) /\ IsFiniteSet(C) /\ Cardinality(B) \in Nat /\ Cardinality(C) \in Nat
  <2>1. IsFiniteSet(Games)
    BY FS_Interval, ScheduleAssumption DEF Games
  <2>2. QED
    BY <2>1, FS_Subset, FS_CardinalityType DEF Begun
<1>4. /\ \A h \in Games \ {g} : h \in B <=> h \in C
      /\ g \in B <=> session[g].started
      /\ g \in C <=> session'[g].started
      /\ B \subseteq Games /\ C \subseteq Games
  BY DEF Begun
<1> HIDE DEF B, C
<1>5. Cardinality(C) = Cardinality(B) + ((IF session'[g].started THEN 1 ELSE 0)
                                            - (IF session[g].started THEN 1 ELSE 0))
  <2>1. CASE session'[g].started <=> session[g].started
    <3>1. B = C
      BY <1>4, <2>1
    <3>2. QED
      BY <1>3, <2>1, <3>1
  <2>2. CASE session'[g].started /\ ~session[g].started
    <3>1. C = B \union {g} /\ g \notin B
      BY <1>4, <2>2
    <3>2. Cardinality(C) = Cardinality(B) + 1
      BY <1>3, <3>1, FS_AddElement
    <3>3. QED
      BY <1>3, <2>2, <3>2
  <2>3. CASE ~session'[g].started /\ session[g].started
    <3>1. C = B \ {g} /\ g \in B
      BY <1>4, <2>3
    <3>2. Cardinality(C) = Cardinality(B) - 1
      BY <1>3, <3>1, FS_RemoveElement
    <3>3. QED
      BY <1>3, <2>3, <3>2
  <2>4. QED
    BY <1>2, <2>1, <2>2, <2>3
<1>6. RunTotal(session) = VoidTotal(session) + Cardinality(B)
      /\ RunTotal(session') = VoidTotal(session') + Cardinality(C)
  BY DEF RunTotal, B, C
<1>7. QED
  BY <1>1, <1>2, <1>3, <1>5, <1>6 DEF Charge

(* A void sends one game back at most, and only when it takes a spare. *)
LEMMA RequeuesPaid ==
    ASSUME TypeOK, NEW g \in Games, VoidSubGame(g), results <= Cardinality(done) + (spare - Pairs)
    PROVE  results' <= Cardinality(done') + (spare' - Pairs)
<1>1. SchedTypeOK /\ results \in Nat /\ results' = results
  BY DEF TypeOK, VoidSubGame
<1>2. IsFiniteSet(done) /\ Cardinality(done) \in Nat /\ spare \in Int /\ Pairs \in Int
  BY <1>1, DoneIsFinite, ScheduleAssumption DEF SchedTypeOK
<1>3. CASE ReplayVoid(g) \/ VoidExhausted(g)
  BY <1>1, <1>3 DEF ReplayVoid, VoidExhausted
<1>4. CASE Escalate(g)
  <2>1. spare' = spare + 1 /\ done' = done \ Stale(g)
    BY <1>4 DEF Escalate
  <2>2. Cardinality(done') >= Cardinality(done) - 1 /\ Cardinality(done') \in Nat
    <3>1. CASE Stale(g) = {}
      BY <1>2, <2>1, <3>1
    <3>2. CASE Stale(g) = {BaseOf(g)} /\ BaseOf(g) \in done
      <4>1. Cardinality(done') = Cardinality(done) - 1 /\ IsFiniteSet(done')
        BY <1>2, <2>1, <3>2, FS_RemoveElement
      <4>2. QED
        BY <1>2, <4>1, FS_CardinalityType
    <3>3. QED
      BY <3>1, <3>2 DEF Stale
  <2>3. QED
    BY <1>1, <1>2, <2>1, <2>2
<1>5. QED
  BY <1>3, <1>4 DEF VoidSubGame, RecordVoid

(* The order of the records in time is kept by every step. *)
LEMMA TimesStep ==
    ASSUME TypeOK, OrderInv, TimesInv, [Next]_vars
    PROVE  TimesInv'
<1>1. CASE UNCHANGED <<done, records, results>>
  BY <1>1 DEF TimesInv, InOrder, Inverted
<1>2. CASE ~UNCHANGED <<done, records, results>>
  <2>1. ~UNCHANGED vars /\ SchedTypeOK
    BY <1>2 DEF vars, TypeOK
  <2>2. HasNext /\ NextGame \in Games
    BY <2>1, StepCases
  <2>3. PICK g \in Games : g = NextGame
    BY <2>2
  <2>4. VoidSubGame(g) \/ FinishSubGame(g)
    BY <1>2, <2>1, <2>3, StepCases DEF HelloOk, HelloVoid, MoveOk, MoveVoid
  <2>5. QED
    BY <2>2, <2>3, <2>4, TimesAfterVoid, TimesAfterResult
<1>3. QED
  BY <1>1, <1>2

(* A void closes the run it ends, if one was begun. *)
LEMMA BooksAfterVoid ==
    ASSUME TypeOK, TypeOK', BooksInv, HasNext, NEW g \in Games, VoidSubGame(g),
           \A h \in Games \ {g} : session'[h] = session[h],
           Charge(session'[g]) <= Charge(session[g]) + 1 - Underway
    PROVE  BooksInv'
<1>1. /\ RunTotal(session) \in Int
      /\ RunTotal(session') = RunTotal(session) + (Charge(session'[g]) - Charge(session[g]))
      /\ Charge(session[g]) \in Nat /\ Charge(session'[g]) \in Nat
  BY RunsMove
<1>2. /\ results' = results /\ voidEvents' = voidEvents + 1 /\ Underway' = 0
      /\ results \in Nat /\ voidEvents \in Nat /\ Underway \in {0, 1}
  BY DEF VoidSubGame, Underway, TypeOK
<1>3. RunTotal(session)' = RunTotal(session')
  OBVIOUS
<1>4. RunTotal(session) <= voidEvents + results + Underway
  BY DEF BooksInv
<1>5. RunTotal(session)' <= voidEvents' + results' + Underway'
  BY <1>1, <1>2, <1>3, <1>4
<1>6. HasNext'
  <2>1. /\ pending # <<>> /\ pending \in Seq(Games) /\ BaseOf(g) \in Games
        /\ \/ pending' = pending
           \/ pending' = <<BaseOf(g)>> \o pending
    BY GameIds DEF HasNext, TypeOK, SchedTypeOK, VoidSubGame, RecordVoid, ReplayVoid, Escalate,
                   VoidExhausted
  <2>2. <<BaseOf(g)>> \o pending # <<>>
    BY <2>1
  <2>3. QED
    BY <2>1, <2>2 DEF HasNext
<1>7. QED
  BY <1>5, <1>6, RequeuesPaid DEF BooksInv

(* The books are kept by every step. *)
LEMMA BooksStep ==
    ASSUME TypeOK, TypeOK', OrderInv, BooksInv, [Next]_vars
    PROVE  BooksInv'
<1>1. CASE UNCHANGED vars
  BY <1>1 DEF vars, BooksInv, Underway, HasNext, NextGame
<1>2. CASE ~UNCHANGED vars
  <2>1. SchedTypeOK
    BY DEF TypeOK
  <2>2. HasNext /\ NextGame \in Games
    BY <1>2, <2>1, StepCases
  <2>3. PICK g \in Games : g = NextGame
    BY <2>2
  <2>4. /\ results \in Nat /\ voidEvents \in Nat /\ Underway \in {0, 1} /\ Underway' \in {0, 1}
        /\ RunTotal(session) <= voidEvents + results + Underway
        /\ results <= Cardinality(done) + (spare - Pairs)
        /\ RunTotal(session)' = RunTotal(session')
    BY DEF TypeOK, BooksInv, Underway
  <2>5. /\ session[g].voids \in Nat /\ session[g].started \in BOOLEAN
        /\ session'[g].voids \in Nat /\ session'[g].started \in BOOLEAN
    BY DEF TypeOK
  <2>6. ASSUME NEW r \in Roles, HelloOk(g, r) PROVE BooksInv'
    <3>1. UNCHANGED <<pending, voids, done, spare, results, voidEvents>> /\ Underway = 0
      BY <2>6 DEF HelloOk, Hello, Underway
    <3>2. /\ Charge(session'[g]) = Charge(session[g])
          /\ \A h \in Games \ {g} : session'[h] = session[h]
      BY <2>6, HelloCounts DEF HelloOk
    <3>3. RunTotal(session) \in Int /\ RunTotal(session') = RunTotal(session)
      BY <3>2, RunsMove
    <3>4. RunTotal(session)' <= voidEvents' + results' + Underway'
      BY <2>4, <3>1, <3>3
    <3>5. QED
      BY <2>2, <2>4, <3>1, <3>4 DEF BooksInv, HasNext
  <2>7. ASSUME NEW r \in Roles, HelloVoid(g, r) PROVE BooksInv'
    <3>1. /\ Charge(session'[g]) = Charge(session[g])
          /\ \A h \in Games \ {g} : session'[h] = session[h]
      BY <2>7, HelloCounts DEF HelloVoid
    <3>2. Underway = 0 /\ VoidSubGame(g) /\ Charge(session[g]) \in Nat
      BY <2>5, <2>7 DEF HelloVoid, Hello, Underway, Charge
    <3>3. QED
      BY <2>2, <3>1, <3>2, BooksAfterVoid
  <2>8. ASSUME MoveOk(g) \/ MoveVoid(g)
        PROVE  /\ Charge(session'[g]) = Charge(session[g]) + 1 - Underway
               /\ \A h \in Games \ {g} : session'[h] = session[h]
    <3>1. /\ session'[g].voids = session[g].voids /\ session'[g].started
          /\ \A h \in Games \ {g} : session'[h] = session[h]
          /\ attempt = "playing"
      BY <2>8 DEF MoveOk, MoveVoid, ParseMove, TypeOK
    <3>2. Underway = IF session[g].started THEN 1 ELSE 0
      BY <2>2, <2>3, <3>1 DEF Underway
    <3>3. QED
      BY <2>5, <3>1, <3>2 DEF Charge
  <2>9. CASE MoveOk(g)
    <3>1. UNCHANGED <<pending, done, spare, results, voidEvents, attempt>> /\ attempt = "playing"
      BY <2>9 DEF MoveOk
    <3>2. session'[g].started
      BY <2>9 DEF MoveOk, ParseMove, TypeOK
    <3>3. Underway' = 1
      BY <2>2, <2>3, <3>1, <3>2 DEF Underway, HasNext, NextGame
    <3>4. /\ RunTotal(session) \in Int
          /\ RunTotal(session') = RunTotal(session) + (Charge(session'[g]) - Charge(session[g]))
          /\ Charge(session[g]) \in Nat /\ Charge(session'[g]) \in Nat
      BY <2>8, <2>9, RunsMove
    <3>5. Charge(session'[g]) = Charge(session[g]) + 1 - Underway
      BY <2>8, <2>9
    <3>6. RunTotal(session)' <= voidEvents' + results' + Underway'
      BY <2>4, <3>1, <3>3, <3>4, <3>5
    <3>7. QED
      BY <2>2, <2>4, <3>1, <3>6 DEF BooksInv, HasNext
  <2>10. CASE MoveVoid(g)
    <3>1. /\ Charge(session'[g]) = Charge(session[g]) + 1 - Underway
          /\ Charge(session'[g]) \in Nat
          /\ \A h \in Games \ {g} : session'[h] = session[h]
      BY <2>5, <2>8, <2>10 DEF Charge
    <3>2. QED
      BY <2>2, <2>10, <3>1, BooksAfterVoid DEF MoveVoid
  <2>11. CASE FinishSubGame(g)
    <3>1. /\ results' = results + 1 /\ UNCHANGED <<voidEvents, spare>> /\ done' = done \union {g}
          /\ attempt = "playing" /\ attempt' = "idle" /\ session[g].started /\ voids' = 0
      BY <2>11 DEF FinishSubGame, RecordResult
    <3>2. Underway = 1 /\ Underway' = 0
      BY <2>2, <2>3, <3>1 DEF Underway
    <3>3. /\ Charge(session'[g]) = Charge(session[g])
          /\ \A h \in Games \ {g} : session'[h] = session[h]
      BY <2>11 DEF FinishSubGame, ParseResult, TypeOK, Charge
    <3>4. RunTotal(session) \in Int /\ RunTotal(session') = RunTotal(session)
      BY <3>3, RunsMove
    <3>5. RunTotal(session)' <= voidEvents' + results' + Underway'
      BY <2>4, <3>1, <3>2, <3>4
    <3>6. g \notin done
      BY <2>1, <2>2, <2>3, HeadFacts
    <3>7. IsFiniteSet(done) /\ Cardinality(done) \in Nat /\ Cardinality(done') = Cardinality(done) + 1
      BY <2>1, <3>1, <3>6, DoneIsFinite, FS_AddElement
    <3>8. results' <= Cardinality(done') + (spare' - Pairs)
      BY <2>1, <2>4, <3>1, <3>7, ScheduleAssumption DEF SchedTypeOK
    <3>9. QED
      BY <3>1, <3>5, <3>8 DEF BooksInv
  <2>12. QED
    BY <1>2, <2>1, <2>3, <2>6, <2>7, <2>9, <2>10, <2>11, StepCases
<1>3. QED
  BY <1>1, <1>2

(* Before the first attempt nothing is recorded and nothing was begun. *)
LEMMA OrderOfTimesInit == Init => TimesInv /\ BooksInv
<1> SUFFICES ASSUME Init PROVE TimesInv /\ BooksInv
  OBVIOUS
<1>1. /\ done = {} /\ results = 0 /\ voidEvents = 0 /\ attempt = "idle" /\ spare = Pairs /\ voids = 0
      /\ session = [g \in Games |-> NewSession]
  BY DEF Init, SchedInit
<1>2. \A g \in Games : session[g].voids = 0 /\ ~session[g].started
  BY <1>1 DEF NewSession
<1>3. TimesInv
  BY <1>1 DEF TimesInv, InOrder
<1>4. VoidTotal(session) = 0
  <2>1. PICK F : /\ Tallies(F, [g \in Games |-> session[g].voids], Games)
                 /\ VoidTotal(session) = F[Games]
    BY VoidTotalTallied
  <2>2. IsFiniteSet(Games)
    BY FS_Interval, ScheduleAssumption DEF Games
  <2> DEFINE v == [g \in Games |-> session[g].voids]
  <2>3. \A g \in Games : v[g] = 0
    BY <1>2
  <2> HIDE DEF v
  <2>4. Tallies(F, v, Games)
    BY <2>1 DEF v
  <2>5. QED
    BY <2>1, <2>2, <2>3, <2>4, TalliesOfZero
<1>5. Begun(session) = {} /\ Cardinality({}) = 0
  BY <1>2, FS_EmptySet DEF Begun
<1>6. Underway = 0
  BY <1>1 DEF Underway
<1>7. BooksInv
  BY <1>1, <1>4, <1>5, <1>6, ScheduleAssumption DEF BooksInv, RunTotal
<1>8. QED
  BY <1>3, <1>7

(* Every record of the match that is over stands, and its place in time     *)
(* tells whether a sub-game was played again.                               *)
LEMMA AllStand ==
    ASSUME IInv, TimesInv, Over
    PROVE  /\ done = Games /\ results \in Nat
           /\ \A g \in Games : /\ session[g].seed = SeedFor(g)
                               /\ records[g].ended \in 1 .. results
           /\ InOrder <=> results = Cardinality(Games)
           /\ Cardinality(Games) = 2 * Pairs
           /\ ~InOrder => results > 2 * Pairs
<1>1. TypeOK /\ SchedTypeOK /\ RecordsMatch /\ DoneOrPending /\ results \in Nat
  BY DEF IInv, SchedInv, OrderInv, TypeOK
<1>2. pending = <<>>
  BY DEF Over, HasNext
<1>3. done = Games
  <2>1. \A g \in Games : ~InPending(g)
    BY <1>2 DEF InPending
  <2>2. QED
    BY <1>1, <2>1 DEF DoneOrPending, SchedTypeOK
<1>4. Cardinality(Games) = 2 * Pairs
  BY <1>1, DoneIsFinite
<1>5. InOrder => results = 2 * Pairs
  BY <1>1, <1>3, <1>4, FS_Interval DEF InOrder
<1>6. ~InOrder => results > 2 * Pairs
  BY <1>1, <1>3, <1>4 DEF TimesInv
<1>7. \A g \in Games : session[g].seed = SeedFor(g) /\ records[g].ended \in 1 .. results
  BY <1>1, <1>3 DEF RecordsMatch, TimesInv
<1>8. QED
  BY <1>1, <1>3, <1>4, <1>5, <1>6, <1>7, ScheduleAssumption

(* The voids of a match are within the match-wide bound, but for one for    *)
(* each result that was superseded.                                         *)
LEMMA CeilingHolds ==
    ASSUME IInv, BooksInv, VoidsPayForSpares, Over, done = Games
    PROVE  LoggedVoids <= Ceiling + (results - Cardinality(Games))
<1> DEFINE spares == NumSeeds - Pairs
           used == spare - Pairs
           total == VoidTotal(session)
           each == (MaxVoids - 1) * results
<1>1. /\ TypeOK /\ MaxVoids \in Nat \ {0} /\ used \in Nat /\ spares \in Nat \ {0} /\ used <= spares
      /\ results \in Nat /\ voids \in Nat /\ voidEvents \in Nat /\ Pairs \in Nat
  BY ScheduleAssumption DEF IInv, TypeOK, SchedTypeOK
<1>2. voids = 0 /\ attempt # "aborted"
  BY DEF BooksInv, Over
<1>3. voidEvents <= MaxVoids * used + each
  BY <1>1, <1>2 DEF VoidsPayForSpares
<1>4. Cardinality(Games) = 2 * Pairs
  BY <1>1, DoneIsFinite DEF TypeOK
<1>5. total \in Int /\ total + 2 * Pairs <= voidEvents + results
  <2>1. 1 \in Games /\ \A h \in Games : session[h].voids \in Int
    BY <1>1, ScheduleAssumption DEF TypeOK, Games
  <2>2. total \in Int
    BY <2>1, VoidTotalMoves
  <2>3. Begun(session) = Games
    BY DEF Begun, IInv, RecordsMatch
  <2>4. total + Cardinality(Begun(session)) <= voidEvents + results + Underway
    BY DEF BooksInv, RunTotal
  <2>5. Underway = 0
    BY DEF Underway, Over
  <2>6. QED
    BY <1>1, <1>4, <2>2, <2>3, <2>4, <2>5
<1>6. results <= 2 * Pairs + spares
  BY <1>1, <1>4 DEF BooksInv
<1>7. MaxVoids * used <= MaxVoids * spares /\ MaxVoids * used \in Int /\ MaxVoids * spares \in Int
  <2>1. MaxVoids * spares = MaxVoids * used + MaxVoids * (spares - used)
    BY <1>1
  <2>2. MaxVoids * (spares - used) \in Nat /\ MaxVoids * used \in Nat
    BY <1>1
  <2>3. QED
    BY <2>1, <2>2
<1>8. each <= (MaxVoids - 1) * (2 * Pairs + spares) /\ each \in Int
      /\ (MaxVoids - 1) * (2 * Pairs + spares) \in Int
  <2>1. (MaxVoids - 1) * (2 * Pairs + spares) =
            each + (MaxVoids - 1) * (2 * Pairs + spares - results)
    BY <1>1
  <2>2. (MaxVoids - 1) * (2 * Pairs + spares - results) \in Nat /\ each \in Nat
    BY <1>1, <1>6
  <2>3. QED
    BY <2>1, <2>2
<1>9. Ceiling = MaxVoids * spares + (MaxVoids - 1) * (2 * Pairs + spares)
  BY <1>4 DEF Ceiling
<1> HIDE DEF spares, used, total, each
<1>10. total <= Ceiling + (results - 2 * Pairs)
  BY <1>1, <1>3, <1>5, <1>7, <1>8, <1>9
<1>11. QED
  BY <1>4, <1>10, Zenon DEF LoggedVoids, VoidTotal, total

(* The body built from the records: entry g of the list is sub-game g. *)
LEMMA BuiltBody ==
    ASSUME NEW won \in [Games -> Roles], NEW body, body = BodyOf(won)
    PROVE  /\ DOMAIN body.games = Games /\ Len(body.games) = 2 * Pairs
           /\ body.games = [g \in Games |-> body.games[g]]
           /\ body.names = <<"group_1", "group_2">>
           /\ body.totals = Totals(body.games) /\ body.claim = ClaimFor(Totals(body.games))
           /\ Ids(body) = Games
           /\ \A g \in Games :
                 /\ Record(body, g) = body.games[g]
                 /\ body.games[g] =
                       [id |-> g, cop |-> CopGroup(g, 2 * Pairs),
                        thief |-> Rival(CopGroup(g, 2 * Pairs)), winner |-> won[g],
                        scores |-> Table[won[g]],
                        start |-> 2 * records[g].ended - 1, end |-> 2 * records[g].ended]
<1> DEFINE starts == [g \in Games |-> 2 * records[g].ended - 1]
           ends == [g \in Games |-> 2 * records[g].ended]
           list == [g \in Games |->
            [id |-> g, cop |-> CopGroup(g, 2 * Pairs), thief |-> Rival(CopGroup(g, 2 * Pairs)),
             winner |-> won[g], scores |-> Table[won[g]], start |-> starts[g], end |-> ends[g]]]
<1>1. body = [names |-> <<"group_1", "group_2">>, games |-> list, totals |-> Totals(list),
              claim |-> ClaimFor(Totals(list))]
  BY Zenon DEF BodyOf, Built, WithTotals
<1>2. /\ body.games = list /\ body.names = <<"group_1", "group_2">>
      /\ body.totals = Totals(list) /\ body.claim = ClaimFor(Totals(list))
  <2> HIDE DEF list
  <2>1. QED
    BY <1>1
<1>3. DOMAIN list = Games /\ Len(list) = 2 * Pairs /\ list = [g \in Games |-> list[g]]
  BY ScheduleAssumption DEF Games
<1>4. \A g \in Games : list[g] =
          [id |-> g, cop |-> CopGroup(g, 2 * Pairs), thief |-> Rival(CopGroup(g, 2 * Pairs)),
           winner |-> won[g], scores |-> Table[won[g]],
           start |-> 2 * records[g].ended - 1, end |-> 2 * records[g].ended]
  OBVIOUS
<1>5. \A g \in Games : list[g].id = g
  BY <1>4
<1> HIDE DEF list
<1>6. Ids(body) = Games
  BY <1>2, <1>3, <1>5 DEF Ids
<1>7. ASSUME NEW g \in Games PROVE Record(body, g) = body.games[g]
  <2>1. {i \in DOMAIN body.games : body.games[i].id = g} = {g}
    BY <1>2, <1>3, <1>5
  <2>2. g \in Int
    BY DEF Games
  <2>3. Max({g}) = g
    BY <2>2 DEF Max
  <2>4. QED
    BY <2>1, <2>3 DEF Record
<1>8. QED
  BY <1>2, <1>3, <1>4, <1>6, <1>7

(* What the checks of the body ask of an honest one: its draft is valid,    *)
(* and nothing but the order of its times is left to be refused.            *)
LEMMA HonestBody ==
    ASSUME IInv, TimesInv, Over, NEW won \in [Games -> Roles]
    PROVE  /\ DraftValid(BodyOf(won))
           /\ BodyVerified(BodyOf(won), won) <=>
                 \A g \in Games : g > 1 => records[g - 1].ended < records[g].ended
<1> DEFINE body == BodyOf(won)
<1>1. /\ DOMAIN body.games = Games /\ Len(body.games) = 2 * Pairs
      /\ body.names = <<"group_1", "group_2">>
      /\ body.totals = Totals(body.games) /\ body.claim = ClaimFor(Totals(body.games))
      /\ Ids(body) = Games
      /\ \A g \in Games :
            /\ Record(body, g) = body.games[g]
            /\ body.games[g] =
                  [id |-> g, cop |-> CopGroup(g, 2 * Pairs),
                   thief |-> Rival(CopGroup(g, 2 * Pairs)), winner |-> won[g],
                   scores |-> Table[won[g]],
                   start |-> 2 * records[g].ended - 1, end |-> 2 * records[g].ended]
  BY BuiltBody
<1> HIDE DEF body
<1>2. \A g \in Games : /\ body.games[g].id = g
                       /\ body.games[g].cop = CopGroup(g, 2 * Pairs)
                       /\ body.games[g].thief = Rival(CopGroup(g, 2 * Pairs))
                       /\ body.games[g].winner = won[g] /\ body.games[g].scores = Table[won[g]]
                       /\ body.games[g].start = 2 * records[g].ended - 1
                       /\ body.games[g].end = 2 * records[g].ended
  <2> SUFFICES ASSUME NEW g \in Games
               PROVE  /\ body.games[g].id = g
                      /\ body.games[g].cop = CopGroup(g, 2 * Pairs)
                      /\ body.games[g].thief = Rival(CopGroup(g, 2 * Pairs))
                      /\ body.games[g].winner = won[g] /\ body.games[g].scores = Table[won[g]]
                      /\ body.games[g].start = 2 * records[g].ended - 1
                      /\ body.games[g].end = 2 * records[g].ended
    OBVIOUS
  <2>1. body.games[g] =
            [id |-> g, cop |-> CopGroup(g, 2 * Pairs),
             thief |-> Rival(CopGroup(g, 2 * Pairs)), winner |-> won[g],
             scores |-> Table[won[g]],
             start |-> 2 * records[g].ended - 1, end |-> 2 * records[g].ended]
    BY <1>1
  <2>2. QED
    BY <2>1
<1>3. DraftValid(body)
  <2>1. body.names[1] = "group_1" /\ body.names[2] = "group_2"
    <3>1. body.names = <<"group_1", "group_2">>
      BY <1>1
    <3>2. QED
      BY <3>1
  <2>2. \A g \in Games : CopGroup(g, 2 * Pairs) \in {"group_1", "group_2"}
    BY DEF CopGroup
  <2>3. ASSUME NEW i \in Games
        PROVE  /\ body.games[i].scores = Table[body.games[i].winner]
               /\ body.games[i].cop = (IF CopGroup(body.games[i].id, Len(body.games)) = "group_1"
                                       THEN body.names[1] ELSE body.names[2])
               /\ body.games[i].thief = Rival(IF CopGroup(body.games[i].id, Len(body.games)) = "group_1"
                                              THEN body.names[1] ELSE body.names[2])
    <3>1. CopGroup(i, 2 * Pairs) = IF CopGroup(body.games[i].id, Len(body.games)) = "group_1"
                                   THEN body.names[1] ELSE body.names[2]
      BY <1>1, <1>2, <2>1, <2>2
    <3>2. QED
      BY <1>2, <3>1
  <2>4. QED
    BY <1>1, <2>3 DEF DraftValid
<1>4. IdsDistinct(body)
  <2>1. Cardinality(Games) = 2 * Pairs
    BY DoneIsFinite DEF IInv, TypeOK
  <2>2. QED
    BY <1>1, <2>1 DEF IdsDistinct
<1>5. StructureVerified(body)
  BY <1>1, <1>2 DEF StructureVerified
<1>6. OutcomeVerified(body)
  BY <1>1 DEF OutcomeVerified
<1>7. \A g \in Games : RecordVerified(Record(body, g), won[g])
  <2> SUFFICES ASSUME NEW g \in Games PROVE RecordVerified(Record(body, g), won[g])
    OBVIOUS
  <2>1. Record(body, g) = body.games[g]
    BY <1>1
  <2>2. QED
    BY <1>2, <2>1 DEF RecordVerified
<1>8. MetadataVerified(body) <=>
          \A g \in Games : g > 1 => records[g - 1].ended < records[g].ended
  <2>1. \A g \in Games : records[g].ended \in Int
    BY DEF IInv, TypeOK
  <2>2. \A g \in Games : body.games[g].start <= body.games[g].end
    BY <1>2, <2>1
  <2>3. ASSUME NEW g \in Games, g > 1
        PROVE  body.games[g - 1].end <= body.games[g].start
                  <=> records[g - 1].ended < records[g].ended
    <3>1. g - 1 \in Games
      BY <2>3, ScheduleAssumption DEF Games
    <3>2. QED
      BY <1>2, <2>1, <3>1
  <2>4. QED
    BY <1>1, <2>2, <2>3 DEF MetadataVerified
<1>9. QED
  BY <1>3, <1>4, <1>5, <1>6, <1>7, <1>8 DEF BodyVerified, body

(* A match of more than one pair: the verifier's checks of a body and the   *)
(* default choice of a log accept an honest match exactly when no sub-game  *)
(* was played again (the only pair's replayed base game comes first again), *)
(* and the voids in its log pass the match-wide ceiling by no more than the *)
(* results that were superseded.                                            *)
THEOREM VerifiedExactly ==
    ASSUME Pairs > 1
    PROVE  Spec => []VerifiedUnlessReplayed
<1>1. Spec => [](TimesInv /\ BooksInv)
  <2>1. IInv /\ IInv' /\ TimesInv /\ BooksInv /\ [Next]_vars => TimesInv' /\ BooksInv'
    BY TimesStep, BooksStep DEF IInv, SchedInv
  <2>2. QED
    BY <2>1, OrderOfTimesInit, Invariance, PTL DEF Spec
<1>2. IInv /\ TimesInv /\ BooksInv /\ VoidsPayForSpares /\ OneSeedPerPair => VerifiedUnlessReplayed
  <2>1. SUFFICES ASSUME IInv, TimesInv, BooksInv, VoidsPayForSpares, OneSeedPerPair, Over
                 PROVE  VerifiedUnlessReplayed
    BY DEF VerifiedUnlessReplayed
  <2>2. /\ done = Games /\ results \in Nat
        /\ \A g \in Games : /\ session[g].seed = SeedFor(g)
                            /\ records[g].ended \in 1 .. results
        /\ InOrder <=> results = Cardinality(Games)
        /\ Cardinality(Games) = 2 * Pairs
        /\ ~InOrder => results > 2 * Pairs
    BY <2>1, AllStand
  <2>3. SchedulePossible([g \in Games |-> session[g].seed])
    <3>1. Played = Games
      BY <2>1, <2>2 DEF Played, IInv, RecordsMatch
    <3>2. \A g, h \in Games : session[g].seed = session[h].seed <=> PairOf(g) = PairOf(h)
      BY <2>1, <3>1 DEF OneSeedPerPair
    <3> DEFINE seedOf == [g \in Games |-> session[g].seed]
    <3>3. DOMAIN seedOf = Games /\ \A g \in Games : seedOf[g] = session[g].seed
      OBVIOUS
    <3> HIDE DEF seedOf
    <3>4. SchedulePossible(seedOf)
      BY <3>2, <3>3 DEF SchedulePossible
    <3>5. QED
      BY <3>4 DEF seedOf
  <2>4. PairedByDefault <=> results = Cardinality(Games)
    <3>1. CASE InOrder
      <4>1. results = 2 * Pairs /\ 1 .. results = Games
        BY <2>2, <3>1 DEF Games
      <4>2. \A n \in Games : {g \in Games : records[g].ended = n} = {n}
        BY <2>2, <3>1 DEF InOrder
      <4>3. QED
        BY <2>2, <4>1, <4>2 DEF PairedByDefault
    <3>2. CASE ~InOrder
      <4> DEFINE listed == [n \in 1 .. results |-> {g \in Games : records[g].ended = n}]
                 wanted == [n \in Games |-> {n}]
      <4>1. results \in DOMAIN listed /\ results \notin DOMAIN wanted
        BY <2>2, <3>2, ScheduleAssumption DEF Games
      <4> HIDE DEF listed, wanted
      <4>2. listed # wanted
        BY <4>1
      <4>3. QED
        BY <2>2, <3>2, <4>2 DEF PairedByDefault, listed, wanted
    <3>3. QED
      BY <3>1, <3>2
  <2>5. LoggedVoids <= Ceiling + (results - Cardinality(Games))
    BY <2>1, <2>2, CeilingHolds
  <2>6. ASSUME NEW won \in [Games -> Roles]
        PROVE  /\ DraftValid(BodyOf(won))
               /\ BodyVerified(BodyOf(won), won) <=> results = Cardinality(Games)
    <3>1. /\ DraftValid(BodyOf(won))
          /\ BodyVerified(BodyOf(won), won) <=>
                \A g \in Games : g > 1 => records[g - 1].ended < records[g].ended
      BY <2>1, HonestBody
    <3>2. CASE InOrder
      <4>1. \A g \in Games : records[g].ended = g
        BY <2>2, <3>2 DEF InOrder
      <4>2. \A g \in Games : g > 1 => g - 1 \in Games /\ g - 1 < g
        BY ScheduleAssumption DEF Games
      <4>3. QED
        BY <2>2, <3>1, <3>2, <4>1, <4>2
    <3>3. CASE ~InOrder
      <4>1. PICK i \in Games : /\ i + 1 \in Games
                               /\ records[i].ended > records[i + 1].ended
        BY <2>1, <2>2, <3>3 DEF TimesInv, Inverted
      <4>2. i + 1 > 1 /\ (i + 1) - 1 = i /\ records[i].ended \in Int /\ records[i + 1].ended \in Int
        BY <2>2, <4>1, ScheduleAssumption DEF Games
      <4>3. ~ (records[(i + 1) - 1].ended < records[i + 1].ended)
        BY <4>1, <4>2
      <4>4. QED
        BY <2>2, <3>1, <3>3, <4>1, <4>2, <4>3
    <3>4. QED
      BY <3>2, <3>3
  <2>7. QED
    BY <2>3, <2>4, <2>5, <2>6 DEF VerifiedUnlessReplayed
<1>3. QED
  BY <1>1, <1>2, Invariance, SparesArePaidFor, SeedsResolveToPairs, PTL

(* What one entry of the list adds to a group's total. *)
Share(games, group) ==
    [i \in DOMAIN games |->
        (IF games[i].cop = group THEN games[i].scores["cop"] ELSE 0)
          + (IF games[i].thief = group THEN games[i].scores["thief"] ELSE 0)]

(* The fold of Totals is the last of the running totals. *)
LEMMA TotalsTallied ==
    ASSUME NEW games, IsFiniteSet(DOMAIN games), NEW group \in Groups
    PROVE  \E F : Tallies(F, Share(games, group), DOMAIN games) /\ Totals(games)[group] = F[DOMAIN games]
<1> DEFINE v == Share(games, group)
           part(i) == (IF games[i].cop = group THEN games[i].scores["cop"] ELSE 0)
                        + (IF games[i].thief = group THEN games[i].scores["thief"] ELSE 0)
           Unrolls(F) == F = [t \in SUBSET (DOMAIN games) |-> IF t = {} THEN 0
                                ELSE part(Taken(t)) + F[t \ {Taken(t)}]]
           iter == CHOOSE F : Unrolls(F)
<1>1. \A t \in SUBSET (DOMAIN games) : t # {} =>
          Taken(t) \in DOMAIN games /\ v[Taken(t)] = part(Taken(t))
  BY DEF Taken, Share
<1>2. PICK F : Tallies(F, v, DOMAIN games)
  BY TalliesExist
<1>3. Totals(games)[group] = iter[DOMAIN games]
  BY Zenon DEF Totals, MapThenSumSet, MapThenFoldSet, Taken
<1> HIDE DEF v, part
<1>4. Unrolls(F)
  BY <1>1, <1>2 DEF Tallies
<1>5. Unrolls(iter)
  <2> HIDE DEF Unrolls
  <2>1. QED
    BY <1>4, Zenon
<1>6. Tallies(iter, v, DOMAIN games)
  <2> HIDE DEF iter
  <2>1. QED
    BY <1>1, <1>5 DEF Tallies
<1>7. QED
  BY <1>3, <1>6, Zenon DEF v

(* Lists that give the same entry of the same id the same groups and scores *)
(* have the same totals.                                                    *)
LEMMA SameTotals ==
    ASSUME NEW old, NEW new, DOMAIN old = Games, DOMAIN new = Games,
           \A g \in Games : /\ new[g].cop = old[g].cop /\ new[g].thief = old[g].thief
                            /\ new[g].scores = old[g].scores
                            /\ old[g].scores["cop"] \in Int /\ old[g].scores["thief"] \in Int
    PROVE  Totals(new) = Totals(old)
<1>1. IsFiniteSet(Games) /\ 1 \in Games
  BY FS_Interval, ScheduleAssumption DEF Games
<1>2. ASSUME NEW group \in Groups PROVE Totals(new)[group] = Totals(old)[group]
  <2> DEFINE v == Share(old, group)
             w == Share(new, group)
  <2>1. \A g \in Games : v[g] \in Int /\ w[g] = v[g]
    BY DEF Share
  <2>2. PICK F : Tallies(F, v, Games) /\ Totals(old)[group] = F[Games]
    BY <1>1, TotalsTallied
  <2>3. PICK G : Tallies(G, w, Games) /\ Totals(new)[group] = G[Games]
    BY <1>1, TotalsTallied
  <2> HIDE DEF v, w
  <2>4. F[Games] \in Int /\ G[Games] = F[Games] + (w[1] - v[1])
    BY <1>1, <2>1, <2>2, <2>3, TalliesMove
  <2>5. QED
    BY <1>1, <2>1, <2>2, <2>3, <2>4
<1>3. \A games : DOMAIN Totals(games) = Groups /\ Totals(games) = [group \in Groups |-> Totals(games)[group]]
  BY DEF Totals
<1>4. QED
  BY <1>2, <1>3

(* What losing, doubling and prefixing an entry does to the length of a list. *)
LEMMA ListLengths ==
    ASSUME NEW S, NEW L \in Seq(S), NEW i \in 1 .. Len(L), NEW x \in S
    PROVE  /\ Len(Without(L, i)) = Len(L) - 1
           /\ Len(SubSeq(L, 1, i - 1) \o <<x>> \o SubSeq(L, i, Len(L))) = Len(L) + 1
           /\ Len(<<x>> \o L) = Len(L) + 1
<1>1. Len(L) \in Nat /\ i \in Int /\ \A j \in 1 .. Len(L) : L[j] \in S
  BY ElementOfSeq, LenProperties
<1>2. SubSeq(L, 1, i - 1) \in Seq(S) /\ Len(SubSeq(L, 1, i - 1)) = i - 1
  BY <1>1
<1>3. SubSeq(L, i, Len(L)) \in Seq(S) /\ Len(SubSeq(L, i, Len(L))) = Len(L) - i + 1
  BY <1>1
<1>4. SubSeq(L, i + 1, Len(L)) \in Seq(S) /\ Len(SubSeq(L, i + 1, Len(L))) = Len(L) - i
  BY <1>1
<1>5. <<x>> \in Seq(S) /\ Len(<<x>>) = 1
  OBVIOUS
<1>6. Len(Without(L, i)) = Len(L) - 1
  <2> DEFINE before == SubSeq(L, 1, i - 1)
             after == SubSeq(L, i + 1, Len(L))
  <2>1. Without(L, i) = before \o after
    BY Zenon DEF Without
  <2>2. before \in Seq(S) /\ Len(before) = i - 1 /\ after \in Seq(S) /\ Len(after) = Len(L) - i
    BY <1>2, <1>4
  <2> HIDE DEF before, after
  <2>3. Len(before \o after) = Len(before) + Len(after)
    BY <2>2, ConcatProperties
  <2>4. QED
    BY <1>1, <2>1, <2>2, <2>3
<1>7. Len(SubSeq(L, 1, i - 1) \o <<x>> \o SubSeq(L, i, Len(L))) = Len(L) + 1
  <2>1. /\ SubSeq(L, 1, i - 1) \o <<x>> \in Seq(S)
        /\ Len(SubSeq(L, 1, i - 1) \o <<x>>) = i
    BY <1>1, <1>2, <1>5, ConcatProperties
  <2>2. QED
    BY <1>1, <1>3, <2>1, ConcatProperties
<1>8. Len(<<x>> \o L) = Len(L) + 1
  BY <1>1, <1>5, ConcatProperties
<1>9. QED
  BY <1>6, <1>7, <1>8

(* Of the ways a list is altered only a rewritten entry keeps its length.   *)
LEMMA AlteredLists ==
    ASSUME NEW body, body.games = [g \in Games |-> body.games[g]],
           NEW list \in Lists(body), Len(list) = 2 * Pairs
    PROVE  \E i \in Games, e \in Entries(body) : list = [body.games EXCEPT ![i] = e]
<1> DEFINE L == body.games
           put(e) == [e EXCEPT !.start = 0, !.end = 0]
<1>1. Games = 1 .. 2 * Pairs /\ Pairs \in Nat
  BY ScheduleAssumption DEF Games
<1>2. DOMAIN L = Games
  OBVIOUS
<1>3. ASSUME NEW S, \A g \in Games : L[g] \in S PROVE L \in Seq(S) /\ Len(L) = 2 * Pairs
  BY <1>1, <1>3
<1>4. PICK i \in Games :
          \/ list = Without(L, i)
          \/ list = SubSeq(L, 1, i - 1) \o <<L[i]>> \o SubSeq(L, i, Len(L))
          \/ \E e \in Entries(body) : list = [L EXCEPT ![i] = e]
          \/ \E e \in Entries(body) : list = <<put(e)>> \o L
  <2> HIDE DEF put
  <2>1. PICK i \in DOMAIN L :
            list \in {Without(L, i), SubSeq(L, 1, i - 1) \o <<L[i]>> \o SubSeq(L, i, Len(L))}
                      \union {[L EXCEPT ![i] = e] : e \in Entries(body)}
                      \union {<<put(e)>> \o L : e \in Entries(body)}
    BY Zenon DEF Lists, put
  <2> HIDE DEF L
  <2>2. QED
    BY <1>2, <2>1, Zenon
<1> HIDE DEF L, put
<1>5. ASSUME NEW x
      PROVE  /\ Len(Without(L, i)) = 2 * Pairs - 1
             /\ Len(SubSeq(L, 1, i - 1) \o <<L[i]>> \o SubSeq(L, i, Len(L))) = 2 * Pairs + 1
             /\ Len(<<x>> \o L) = 2 * Pairs + 1
  <2> DEFINE S == {L[g] : g \in Games} \union {x}
  <2>1. x \in S /\ L[i] \in S /\ \A g \in Games : L[g] \in S
    OBVIOUS
  <2> HIDE DEF S
  <2>2. L \in Seq(S) /\ Len(L) = 2 * Pairs
    BY <1>3, <2>1
  <2>3. i \in 1 .. Len(L)
    BY <1>1, <2>2
  <2>4. QED
    BY <2>1, <2>2, <2>3, ListLengths
<1>6. list # Without(L, i) /\ list # SubSeq(L, 1, i - 1) \o <<L[i]>> \o SubSeq(L, i, Len(L))
  <2>1. 2 * Pairs - 1 # 2 * Pairs /\ 2 * Pairs + 1 # 2 * Pairs
    BY <1>1
  <2>2. QED
    BY <1>5, <2>1, Zenon
<1>7. \A e : list # <<put(e)>> \o L
  <2>1. 2 * Pairs + 1 # 2 * Pairs
    BY <1>1
  <2>2. QED
    BY <1>5, <2>1, Zenon
<1>8. QED
  BY <1>4, <1>6, <1>7, Zenon DEF L

(* A body that was altered and is still accepted replays the match it was   *)
(* built from: whatever was rewritten, its winners, its totals and its claim*)
(* are those of the match, for every scoring table and bonus claim.         *)
THEOREM AlterationsRefused == Spec => []AlteredBodyRefused
<1>1. ASSUME NEW won \in [Games -> Roles], NEW body \in Altered(BodyOf(won)),
             BodyVerified(body, won)
      PROVE  /\ body.totals = BodyOf(won).totals /\ body.claim = BodyOf(won).claim
             /\ \A id \in Games : Record(body, id).winner = won[id]
  <2> DEFINE old == BodyOf(won)
  <2>1. /\ old.games = [g \in Games |-> old.games[g]]
        /\ old.totals = Totals(old.games) /\ old.claim = ClaimFor(Totals(old.games))
        /\ \A g \in Games : /\ old.games[g].id = g
                            /\ old.games[g].cop = CopGroup(g, 2 * Pairs)
                            /\ old.games[g].thief = Rival(CopGroup(g, 2 * Pairs))
                            /\ old.games[g].scores = Table[won[g]]
    <3>1. /\ old.games = [g \in Games |-> old.games[g]]
          /\ old.totals = Totals(old.games) /\ old.claim = ClaimFor(Totals(old.games))
          /\ \A g \in Games : old.games[g] =
                  [id |-> g, cop |-> CopGroup(g, 2 * Pairs),
                   thief |-> Rival(CopGroup(g, 2 * Pairs)), winner |-> won[g],
                   scores |-> Table[won[g]],
                   start |-> 2 * records[g].ended - 1, end |-> 2 * records[g].ended]
      BY BuiltBody
    <3> HIDE DEF old
    <3>2. ASSUME NEW g \in Games
          PROVE  /\ old.games[g].id = g /\ old.games[g].cop = CopGroup(g, 2 * Pairs)
                 /\ old.games[g].thief = Rival(CopGroup(g, 2 * Pairs))
                 /\ old.games[g].scores = Table[won[g]]
      <4>1. old.games[g] =
                  [id |-> g, cop |-> CopGroup(g, 2 * Pairs),
                   thief |-> Rival(CopGroup(g, 2 * Pairs)), winner |-> won[g],
                   scores |-> Table[won[g]],
                   start |-> 2 * records[g].ended - 1, end |-> 2 * records[g].ended]
        BY <3>1
      <4>2. QED
        BY <4>1
    <3>3. QED
      BY <3>1, <3>2
  <2>2. body \in Altered(old) /\ BodyVerified(body, won)
    BY <1>1
  <2> HIDE DEF old
  <2>3. PICK list \in Lists(old) :
            /\ body.games = list
            /\ \/ body.totals = Totals(list) /\ body.claim = ClaimFor(Totals(list))
               \/ body.totals = old.totals /\ body.claim = old.claim
    <3>1. CASE \E names \in {old.names, <<old.names[2], old.names[1]>>}, list \in Lists(old) :
                   body = WithTotals(names, list)
      BY <3>1 DEF WithTotals
    <3>2. CASE \E list \in Lists(old) : body = [old EXCEPT !.games = list]
      <4>1. old = [names |-> old.names, games |-> old.games, totals |-> old.totals,
                   claim |-> old.claim]
        BY DEF old, BodyOf, Built, WithTotals
      <4>2. QED
        BY <3>2, <4>1
    <3>3. QED
      BY <2>2, <3>1, <3>2 DEF Altered
  <2>4. Ids(body) = Games /\ Cardinality(Games) = Len(list)
    BY <2>2, <2>3 DEF BodyVerified, IdsDistinct, StructureVerified
  <2>5. Cardinality(Games) = 2 * Pairs
    BY FS_Interval, ScheduleAssumption DEF Games
  <2>6. PICK i \in Games, e \in Entries(old) : list = [old.games EXCEPT ![i] = e]
    <3>1. old.games = [g \in Games |-> old.games[g]]
      BY <2>1
    <3>2. Len(list) = 2 * Pairs
      BY <2>4, <2>5
    <3>3. QED
      BY <3>1, <3>2, AlteredLists
  <2>7. /\ DOMAIN list = Games /\ list[i] = e
        /\ \A g \in Games : g # i => list[g] = old.games[g]
    BY <2>1, <2>6
  <2>8. \A g \in Games : list[g].id = g
    <3>1. PICK j \in Games : list[j].id = i
      BY <2>3, <2>4, <2>7 DEF Ids
    <3>2. j = i
      BY <2>1, <2>7, <3>1
    <3>3. QED
      BY <2>1, <2>7, <3>1, <3>2
  <2>9. \A g \in Games : Record(body, g) = list[g]
    <3>1. SUFFICES ASSUME NEW g \in Games PROVE Record(body, g) = list[g]
      OBVIOUS
    <3>2. {j \in DOMAIN list : list[j].id = g} = {g} /\ g \in Int
      BY <2>7, <2>8 DEF Games
    <3>3. Max({g}) = g
      BY <3>2 DEF Max
    <3>4. QED
      BY <2>3, <3>2, <3>3 DEF Record
  <2>10. \A g \in Games : /\ list[g].cop = CopGroup(g, 2 * Pairs)
                          /\ list[g].thief = Rival(CopGroup(g, 2 * Pairs))
                          /\ list[g].winner = won[g] /\ list[g].scores = Table[won[g]]
    BY <2>2, <2>9 DEF BodyVerified, StructureVerified, RecordVerified
  <2>11. Totals(list) = Totals(old.games)
    <3>1. \A g \in Games : Table[won[g]]["cop"] \in Int /\ Table[won[g]]["thief"] \in Int
      BY ScoringAssumption DEF Sides, Roles
    <3>2. \A g \in Games : /\ list[g].cop = old.games[g].cop /\ list[g].thief = old.games[g].thief
                           /\ list[g].scores = old.games[g].scores
                           /\ old.games[g].scores["cop"] \in Int
                           /\ old.games[g].scores["thief"] \in Int
      BY <2>1, <2>10, <3>1
    <3>3. DOMAIN old.games = Games
      BY <2>1
    <3>4. QED
      BY <2>7, <3>2, <3>3, SameTotals
  <2>12. QED
    BY <2>1, <2>3, <2>9, <2>10, <2>11 DEF old
<1>2. AlteredBodyRefused
  BY <1>1, Zenon DEF AlteredBodyRefused
<1>3. QED
  BY <1>2, PTL
=============================================================================
