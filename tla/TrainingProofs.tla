---------------------------- MODULE TrainingProofs ----------------------------
(***************************************************************************)
(* Theorems about SelfPlay for every curriculum, schedule, buffer and pool. *)
(***************************************************************************)
EXTENDS SelfPlay, RunLog, FiniteSetTheorems, TLAPS

Nets == [round : Int, updates : Int, agents : Nat]
Episodes == [id : Int, opponent : Nets, len : Nat, active : Nat]
Rings == [slot : [Slots -> Episodes], cursor : Slots, size : 0 .. Capacity]
Learners == [online : Nat, target : Nat, updates : Nat]

TypeOK ==
    /\ stage \in 1 .. Len(CopsByStage) /\ round \in 0 .. Rounds
    /\ played \in 0 .. EpisodesPerRound
    /\ (playing /\ round < Rounds) \/ (~playing /\ played = 0)
    /\ learner \in [Roles -> Learners] /\ ring \in [Roles -> Rings]
    /\ pool \in [Roles -> Seq(Nets)]
    /\ opponent \in Nets /\ oppWindow \in Int

(* After n episodes, the slots behind the cursor hold the last ones and the *)
(* slots from it on, once the ring is full, the ones Capacity before them.  *)
RingOK(b, n) ==
    /\ b.size < Capacity => b.cursor = b.size /\ n = b.size
    /\ b.size = Capacity => n >= Capacity
    /\ \A i \in 0 .. b.size - 1 :
          b.slot[i].id = n - b.cursor + i - (IF i < b.cursor THEN 0 ELSE Capacity)

RingsInv ==
    \A r \in Roles :
        /\ RingOK(ring[r], EpisodeId)
        /\ \A i \in Sampleable(ring[r]) : /\ ring[r].slot[i].len \in Lengths
                                          /\ ring[r].slot[i].active = Team(r, stage)

(* As PoolIsRecentHistory says it, by index in _snaps, and with the weights *)
(* the newest snapshot was taken of.                                        *)
PoolOK(p, T, agents, online) ==
    /\ Len(p) = 1 + (IF Cardinality(T) < PoolSize THEN Cardinality(T) ELSE PoolSize)
    /\ p[1] = Heuristic
    /\ \A k \in 2 .. Len(p) :
          /\ p[k].round \in T
          /\ Cardinality({r \in T : r > p[k].round}) = Len(p) - k
          /\ p[k].agents = agents
          /\ p[k].updates <= online
          /\ k > 2 => p[k - 1].updates <= p[k].updates

PoolsInv ==
    \A role \in Roles :
        PoolOK(pool[role], TrainedRounds(role), Team(role, stage), learner[role].online)

(* The opponent held is the rival's of the trainee of its window, and older *)
(* than it; the games so far are of the windows up to it.                   *)
RoleOfWindow(w) == IF w % 2 = 0 THEN "cop" ELSE "thief"
FairRival(o, w) ==
    o # Heuristic => TrainingRole(o.round) # RoleOfWindow(w) /\ Window(o.round) < w

GamesFair(games, o, w) ==
    \A e \in games :
        /\ GameWindow(e) \in Nat /\ GameWindow(e) <= w
        /\ GameWindow(e) = w => e.opponent = o
        /\ FairRival(e.opponent, GameWindow(e))
        /\ \A f \in games : GameWindow(e) = GameWindow(f) => e.opponent = f.opponent

OpponentInv ==
    /\ oppWindow <= Window(round)
    /\ playing => oppWindow = Window(round)
    /\ FairRival(opponent, oppWindow)
    /\ GamesFair(GamesDrawn, opponent, oppWindow)

-----------------------------------------------------------------------------
(* Multiplication by a positive number keeps the order. *)
LEMMA TimesMonotone ==
    ASSUME NEW b \in Nat, NEW p \in Nat, NEW q \in Nat, p < q
    PROVE  b * p \in Nat /\ b * q \in Nat /\ b * p + b <= b * q
<1>1. PICK d \in Nat : q = p + 1 + d
  <2>1. q - (p + 1) \in Nat /\ q = p + 1 + (q - (p + 1))
    OBVIOUS
  <2>2. QED
    BY <2>1
<1>2. b * q = b * p + b + b * d /\ b * p \in Nat /\ b * d \in Nat
  BY <1>1
<1>3. QED
  BY <1>2

(* A quotient and a remainder are the quotient and the remainder. *)
LEMMA DivModUnique ==
    ASSUME NEW b \in Nat \ {0}, NEW q \in Nat, NEW r \in 0 .. b - 1
    PROVE  (b * q + r) \div b = q /\ (b * q + r) % b = r /\ b * q + r \in Nat
<1>1. PICK a \in Nat : a = b * q + r
  <2>1. \A m, n \in Nat : m * n \in Nat
    OBVIOUS
  <2>2. b * q \in Nat
    BY <2>1
  <2>3. QED
    BY <2>2
<1>2. a \div b = q
  BY <1>1
<1>3. a % b = r
  BY <1>1
<1>4. QED
  BY <1>1, <1>2, <1>3

(* Every number has them: a least one without would leave another when b is *)
(* taken away.                                                              *)
LEMMA DivModExist ==
    ASSUME NEW b \in Nat \ {0}, NEW a \in Nat
    PROVE  \E q \in Nat, r \in 0 .. b - 1 : a = b * q + r
<1> DEFINE Bad == {n \in Nat : ~ \E q \in Nat, r \in 0 .. b - 1 : n = b * q + r}
<1>1. CASE Bad = {}
  BY <1>1
<1>2. CASE Bad # {}
  <2>1. PICK n \in Bad : \A m \in Bad : ~ (<<m, n>> \in OpToRel(<, Nat))
    <3>1. Bad \subseteq Nat
      OBVIOUS
    <3> HIDE DEF Bad
    <3>2. QED
      BY <1>2, <3>1, NatLessThanWellFounded, WFMin
  <2>2. n \in Nat /\ \A m \in Nat : m < n => m \notin Bad
    BY <2>1 DEF OpToRel
  <2>3. CASE n < b
    <3>1. n = b * 0 + n /\ n \in 0 .. b - 1
      BY <2>2, <2>3
    <3>2. QED
      BY <2>1, <3>1
  <2>4. CASE ~(n < b)
    <3>1. n - b \in Nat /\ n - b < n
      BY <2>2, <2>4
    <3>2. PICK q \in Nat, r \in 0 .. b - 1 : n - b = b * q + r
      BY <2>2, <3>1
    <3>3. b * (q + 1) = b * q + b
      OBVIOUS
    <3>4. n = b * (q + 1) + r /\ q + 1 \in Nat
      BY <2>2, <3>2, <3>3
    <3>5. QED
      BY <2>1, <3>4
  <2>5. QED
    BY <2>3, <2>4
<1>3. QED
  BY <1>1, <1>2

(* Division by b is monotone, and counting on by one leaves the quotient    *)
(* until the remainder is full.                                             *)
LEMMA DivMonotone ==
    ASSUME NEW b \in Nat \ {0}, NEW a \in Nat, NEW c \in Nat, a <= c
    PROVE  a \div b \in Nat /\ c \div b \in Nat /\ a \div b <= c \div b
<1>1. PICK q \in Nat, r \in 0 .. b - 1 : a = b * q + r
  BY DivModExist
<1>2. PICK p \in Nat, s \in 0 .. b - 1 : c = b * p + s
  BY DivModExist
<1>3. a \div b = q /\ c \div b = p
  BY <1>1, <1>2, DivModUnique
<1>4. ~(p < q)
  <2>1. SUFFICES ASSUME p < q PROVE FALSE
    OBVIOUS
  <2>2. b * p \in Nat /\ b * q \in Nat /\ b * p + b <= b * q
    BY <2>1, TimesMonotone
  <2>3. QED
    BY <1>1, <1>2, <2>2
<1>5. QED
  BY <1>3, <1>4

(* A remainder counts up and starts again at b. *)
LEMMA ModCounts ==
    ASSUME NEW b \in Nat \ {0}, NEW a \in Nat
    PROVE  /\ a % b \in 0 .. b - 1
           /\ (a + 1) % b = (IF a % b = b - 1 THEN 0 ELSE (a % b) + 1)
<1>1. PICK q \in Nat, r \in 0 .. b - 1 : a = b * q + r
  BY DivModExist
<1>2. a % b = r
  BY <1>1, DivModUnique
<1>3. CASE r = b - 1
  <2>1. PICK p \in Nat, z \in 0 .. b - 1 : p = q + 1 /\ z = 0
    OBVIOUS
  <2>2. a + 1 = b * p + z
    BY <1>1, <1>3, <2>1
  <2>3. (b * p + z) % b = z
    BY DivModUnique
  <2>4. (a + 1) % b = 0
    BY <2>1, <2>2, <2>3
  <2>5. QED
    BY <1>2, <1>3, <2>4
<1>4. CASE r # b - 1
  <2>1. a + 1 = b * q + (r + 1) /\ r + 1 \in 0 .. b - 1
    BY <1>1, <1>4
  <2>2. (a + 1) % b = r + 1
    BY <2>1, DivModUnique
  <2>3. QED
    BY <1>2, <1>4, <2>2
<1>5. QED
  BY <1>3, <1>4
-----------------------------------------------------------------------------
(* The target net is as many updates behind as were made since the last     *)
(* multiple of the interval.                                                *)
Lags(l) == l.online - l.target = l.updates % SyncInterval

(* update() with its _maybe_sync. *)
LEMMA UpdateCounts ==
    ASSUME NEW l \in Learners
    PROVE  /\ OneUpdate(l) \in Learners /\ OneUpdate(l).updates = l.updates + 1
           /\ Lags(l) => Lags(OneUpdate(l))
<1>1. SyncInterval \in Nat \ {0}
  BY TrainerAssumption
<1>2. l.online \in Nat /\ l.target \in Nat /\ l.updates \in Nat
  BY DEF Learners
<1>3. PICK n \in Nat : n = l.updates + 1
  BY <1>2
<1>4. /\ l.updates % SyncInterval \in 0 .. SyncInterval - 1
      /\ n % SyncInterval = (IF l.updates % SyncInterval = SyncInterval - 1 THEN 0
                             ELSE (l.updates % SyncInterval) + 1)
  BY <1>1, <1>2, <1>3, ModCounts
<1>5. OneUpdate(l) = [online |-> l.online + 1, updates |-> n,
                      target |-> IF n % SyncInterval = 0 THEN l.online + 1 ELSE l.target]
  BY <1>3 DEF OneUpdate
<1>6. OneUpdate(l) \in Learners /\ OneUpdate(l).updates = n
  BY <1>2, <1>5 DEF Learners
<1>7. ASSUME Lags(l) PROVE Lags(OneUpdate(l))
  <2>1. CASE n % SyncInterval = 0
    BY <1>2, <1>5, <2>1 DEF Lags
  <2>2. CASE n % SyncInterval # 0
    BY <1>1, <1>2, <1>4, <1>5, <1>7, <2>2 DEF Lags
  <2>3. QED
    BY <2>1, <2>2
<1>8. QED
  BY <1>3, <1>6, <1>7

(* The weights after each of the first n updates of a learner. *)
Chain(l, n, g) == g = [k \in 0 .. n |-> IF k = 0 THEN l ELSE OneUpdate(g[k - 1])]

(* They exist for every n: of a least n without them, n - 1 has them.       *)
LEMMA ChainExists ==
    ASSUME NEW l, NEW n \in Nat
    PROVE  \E g : Chain(l, n, g)
<1> DEFINE Bad == {m \in Nat : ~ \E g : Chain(l, m, g)}
<1>1. CASE Bad = {}
  BY <1>1
<1>2. CASE Bad # {}
  <2>1. PICK m \in Bad : \A j \in Bad : ~ (<<j, m>> \in OpToRel(<, Nat))
    <3>1. Bad \subseteq Nat
      OBVIOUS
    <3> HIDE DEF Bad
    <3>2. QED
      BY <1>2, <3>1, NatLessThanWellFounded, WFMin
  <2>2. m \in Nat /\ \A j \in Nat : j < m => j \notin Bad
    BY <2>1 DEF OpToRel
  <2>3. CASE m = 0
    <3> DEFINE g == [k \in 0 .. 0 |-> l]
    <3>1. g = [k \in 0 .. 0 |-> IF k = 0 THEN l ELSE OneUpdate(g[k - 1])]
      OBVIOUS
    <3>2. Chain(l, 0, g)
      BY <3>1 DEF Chain
    <3>3. QED
      BY <2>1, <2>3, <3>2
  <2>4. CASE m # 0
    <3>1. m - 1 \in Nat /\ m - 1 < m
      BY <2>2, <2>4
    <3>2. PICK h : Chain(l, m - 1, h)
      BY <2>2, <3>1
    <3>3. h = [k \in 0 .. m - 1 |-> IF k = 0 THEN l ELSE OneUpdate(h[k - 1])]
      BY <3>2 DEF Chain
    <3> DEFINE g == [k \in 0 .. m |-> IF k = m THEN OneUpdate(h[m - 1]) ELSE h[k]]
    <3>4. \A k \in 0 .. m : g[k] = IF k = 0 THEN l ELSE OneUpdate(g[k - 1])
      <4>1. TAKE k \in 0 .. m
      <4>2. CASE k = 0
        BY <2>2, <2>4, <3>1, <3>3, <4>2
      <4>3. CASE k = m
        <5>1. g[m] = OneUpdate(h[m - 1]) /\ g[m - 1] = h[m - 1]
          BY <2>2, <3>1
        <5>2. QED
          BY <2>4, <4>3, <5>1
      <4>4. CASE k # 0 /\ k # m
        <5>1. k \in 0 .. m - 1 /\ k - 1 \in 0 .. m - 1 /\ k - 1 \in 0 .. m /\ k - 1 # m
          BY <2>2, <4>4
        <5>2. g[k] = h[k] /\ g[k - 1] = h[k - 1]
          BY <4>4, <5>1
        <5>3. h[k] = OneUpdate(h[k - 1])
          BY <3>3, <4>4, <5>1
        <5>4. QED
          BY <4>4, <5>2, <5>3
      <4>5. QED
        BY <4>2, <4>3, <4>4
    <3>5. Chain(l, m, g)
      <4>1. g = [k \in 0 .. m |-> g[k]]
        OBVIOUS
      <4> HIDE DEF g
      <4>2. g = [k \in 0 .. m |-> IF k = 0 THEN l ELSE OneUpdate(g[k - 1])]
        BY <3>4, <4>1, Zenon
      <4>3. QED
        BY <4>2 DEF Chain
    <3>6. QED
      BY <2>1, <3>5
  <2>5. QED
    BY <2>3, <2>4
<1>3. QED
  BY <1>1, <1>2

(* update_ratio updates in a row. *)
LEMMA TrainedCounts ==
    ASSUME NEW l \in Learners
    PROVE  /\ Trained(l) \in Learners /\ Trained(l).updates = l.updates + UpdateRatio
           /\ l.online <= Trained(l).online
           /\ Lags(l) => Lags(Trained(l))
<1>1. UpdateRatio \in Nat
  BY TrainerAssumption
<1>2. PICK g : Trained(l) = g[UpdateRatio] /\ Chain(l, UpdateRatio, g)
  <2> DEFINE g == CHOOSE a : a = [k \in 0 .. UpdateRatio |-> IF k = 0 THEN l ELSE OneUpdate(a[k - 1])]
  <2>1. Trained(l) = g[UpdateRatio]
    BY DEF Trained
  <2>2. \E a : a = [k \in 0 .. UpdateRatio |-> IF k = 0 THEN l ELSE OneUpdate(a[k - 1])]
    BY <1>1, ChainExists DEF Chain
  <2>3. Chain(l, UpdateRatio, g)
    BY <2>2 DEF Chain
  <2>4. QED
    BY <2>1, <2>3
<1> DEFINE Good(k) == /\ g[k] \in Learners /\ g[k].updates = l.updates + k
                      /\ l.online <= g[k].online
                      /\ Lags(l) => Lags(g[k])
           Bad == {k \in 0 .. UpdateRatio : ~Good(k)}
<1>3. \A k \in 0 .. UpdateRatio : g[k] = IF k = 0 THEN l ELSE OneUpdate(g[k - 1])
  <2>1. g = [k \in 0 .. UpdateRatio |-> IF k = 0 THEN l ELSE OneUpdate(g[k - 1])]
    BY <1>2 DEF Chain
  <2>2. QED
    BY <2>1, Zenon
<1>4. Good(0)
  BY <1>1, <1>3 DEF Learners
<1>5. \A k \in 0 .. UpdateRatio : k # 0 /\ Good(k - 1) => Good(k)
  <2>1. TAKE k \in 0 .. UpdateRatio
  <2>2. HAVE k # 0 /\ Good(k - 1)
  <2>3. g[k] = OneUpdate(g[k - 1]) /\ k - 1 \in 0 .. UpdateRatio
    BY <1>1, <1>3, <2>2
  <2>4. PICK m \in Learners : m = g[k - 1]
    BY <2>2
  <2>5. /\ OneUpdate(m) \in Learners /\ OneUpdate(m).updates = m.updates + 1
        /\ Lags(m) => Lags(OneUpdate(m))
        /\ OneUpdate(m).online = m.online + 1
    BY UpdateCounts DEF OneUpdate
  <2>6. g[k].online = m.online + 1 /\ g[k].updates = m.updates + 1
    BY <2>3, <2>4, <2>5
  <2>7. l.online \in Nat /\ m.online \in Nat /\ l.updates \in Nat
    BY DEF Learners
  <2>8. l.online <= g[k].online /\ g[k].updates = l.updates + k
    BY <1>1, <2>2, <2>4, <2>6, <2>7
  <2>9. QED
    BY <2>2, <2>3, <2>4, <2>5, <2>8
<1>6. Bad = {}
  <2>1. SUFFICES ASSUME Bad # {} PROVE FALSE
    OBVIOUS
  <2>2. Bad \subseteq Nat
    BY <1>1
  <2>3. PICK k \in Bad : \A j \in Bad : ~ (<<j, k>> \in OpToRel(<, Nat))
    <3> HIDE DEF Bad
    <3>1. QED
      BY <2>1, <2>2, NatLessThanWellFounded, WFMin
  <2>4. \A j \in 0 .. UpdateRatio : j < k => Good(j)
    BY <1>1, <2>2, <2>3 DEF OpToRel
  <2>5. k \in 0 .. UpdateRatio /\ ~Good(k)
    BY <2>3
  <2>6. k # 0 => k - 1 \in 0 .. UpdateRatio /\ k - 1 < k
    BY <1>1, <2>5
  <2> HIDE DEF Good
  <2>7. QED
    BY <1>4, <1>5, <2>4, <2>5, <2>6
<1>7. Good(UpdateRatio)
  BY <1>1, <1>6
<1>8. QED
  BY <1>2, <1>7
-----------------------------------------------------------------------------
(* add_episode: the ring goes on holding the newest episodes, and what can  *)
(* be sampled is the new one or could be sampled before.                    *)
LEMMA AddedOK ==
    ASSUME NEW b \in Rings, NEW n \in Nat, RingOK(b, n), NEW e \in Episodes, e.id = n,
           NEW a, a = Added(b, e)
    PROVE  /\ a \in Rings /\ RingOK(a, n + 1)
           /\ a.size = (IF b.size < Capacity THEN b.size + 1 ELSE Capacity)
           /\ \A i \in Sampleable(a) :
                 a.slot[i] = e \/ (i \in Sampleable(b) /\ a.slot[i] = b.slot[i])
<1>1. /\ Capacity \in Nat \ {0} /\ b.cursor \in 0 .. Capacity - 1 /\ b.size \in 0 .. Capacity
      /\ b.slot \in [Slots -> Episodes] /\ b.cursor \in Slots
  BY CapacityAssumption DEF Rings, Slots
<1>2. PICK c \in 0 .. Capacity - 1 :
         c = NextCursor(b.cursor) /\ c = (IF b.cursor = Capacity - 1 THEN 0 ELSE b.cursor + 1)
  <2>1. PICK z \in Nat, k \in 0 .. Capacity - 1 : z = 0 /\ k = b.cursor
    BY <1>1
  <2>2. (Capacity * z + k) % Capacity = k /\ Capacity * z + k = k
    BY <1>1, <2>1, DivModUnique
  <2>3. (k + 1) % Capacity = (IF k % Capacity = Capacity - 1 THEN 0 ELSE (k % Capacity) + 1)
    <3>1. k \in Nat
      BY <1>1
    <3>2. QED
      BY <1>1, <3>1, ModCounts
  <2>4. k % Capacity = k
    BY <2>2
  <2>5. NextCursor(b.cursor) = (IF b.cursor = Capacity - 1 THEN 0 ELSE b.cursor + 1)
    BY <2>1, <2>3, <2>4 DEF NextCursor
  <2>6. QED
    BY <1>1, <2>5
<1>3. /\ a.slot = [b.slot EXCEPT ![b.cursor] = e] /\ a.cursor = c
      /\ a.size = (IF b.size < Capacity THEN b.size + 1 ELSE Capacity)
      /\ a = [slot |-> [b.slot EXCEPT ![b.cursor] = e], cursor |-> c, size |-> a.size]
  BY <1>2 DEF Added, NextSize
<1>4. a.size \in 0 .. Capacity /\ a.slot \in [Slots -> Episodes]
  BY <1>1, <1>3
<1>5. a \in Rings
  <2>1. c \in Slots
    BY DEF Slots
  <2>2. QED
    BY <1>3, <1>4, <2>1 DEF Rings
<1>6. \A i \in 0 .. Capacity - 1 : a.slot[i] = IF i = b.cursor THEN e ELSE b.slot[i]
  BY <1>1, <1>3 DEF Slots
<1>7. /\ b.size < Capacity => b.cursor = b.size /\ n = b.size
      /\ b.size = Capacity => n >= Capacity
      /\ \A i \in 0 .. b.size - 1 :
            b.slot[i].id = n - b.cursor + i - (IF i < b.cursor THEN 0 ELSE Capacity)
  BY DEF RingOK
<1>8. \A i \in 0 .. a.size - 1 : i # b.cursor => i \in 0 .. b.size - 1
  BY <1>1, <1>3, <1>7
<1>9. \A i \in 0 .. a.size - 1 :
         a.slot[i].id = (n + 1) - c + i - (IF i < c THEN 0 ELSE Capacity)
  <2>1. TAKE i \in 0 .. a.size - 1
  <2>2. i \in 0 .. Capacity - 1
    BY <1>1, <1>4
  <2>3. CASE i = b.cursor
    <3>1. a.slot[i].id = n
      BY <1>6, <2>2, <2>3
    <3>2. QED
      BY <1>1, <1>2, <2>3, <3>1
  <2>4. CASE i # b.cursor
    <3>1. a.slot[i] = b.slot[i]
      BY <1>6, <2>2, <2>4
    <3>2. a.slot[i].id = n - b.cursor + i - (IF i < b.cursor THEN 0 ELSE Capacity)
      BY <1>7, <1>8, <2>4, <3>1
    <3>3. CASE b.cursor = Capacity - 1
      BY <1>1, <1>2, <2>2, <2>4, <3>2, <3>3
    <3>4. CASE b.cursor # Capacity - 1
      BY <1>1, <1>2, <2>2, <2>4, <3>2, <3>4
    <3>5. QED
      BY <3>3, <3>4
  <2>5. QED
    BY <2>3, <2>4
<1>10. /\ a.size < Capacity => a.cursor = a.size /\ n + 1 = a.size
       /\ a.size = Capacity => n + 1 >= Capacity
  BY <1>1, <1>2, <1>3, <1>7
<1>11. RingOK(a, n + 1)
  BY <1>3, <1>9, <1>10 DEF RingOK
<1>12. \A i \in Sampleable(a) : a.slot[i] = e \/ (i \in Sampleable(b) /\ a.slot[i] = b.slot[i])
  <2>1. TAKE i \in Sampleable(a)
  <2>2. i \in 0 .. a.size - 1 /\ i \in 0 .. Capacity - 1
    BY <1>1, <1>4 DEF Sampleable
  <2>3. QED
    BY <1>6, <1>8, <2>2 DEF Sampleable
<1>13. QED
  BY <1>3, <1>5, <1>11, <1>12

(* What can be sampled after n episodes: the newest, each of them once.     *)
LEMMA DrawnIds ==
    ASSUME NEW b \in Rings, NEW n \in Nat, RingOK(b, n)
    PROVE  /\ {b.slot[i].id : i \in Sampleable(b)} = {m \in 0 .. n - 1 : m >= n - Capacity}
           /\ \A i, j \in Sampleable(b) : b.slot[i].id = b.slot[j].id => i = j
<1>1. /\ Capacity \in Nat \ {0} /\ b.cursor \in 0 .. Capacity - 1 /\ b.size \in 0 .. Capacity
  BY CapacityAssumption DEF Rings, Slots
<1>2. /\ b.size < Capacity => b.cursor = b.size /\ n = b.size
      /\ b.size = Capacity => n >= Capacity
      /\ \A i \in 0 .. b.size - 1 :
            b.slot[i].id = n - b.cursor + i - (IF i < b.cursor THEN 0 ELSE Capacity)
  BY DEF RingOK
<1>3. \A i \in 0 .. b.size - 1 : b.slot[i].id \in 0 .. n - 1 /\ b.slot[i].id >= n - Capacity
  BY <1>1, <1>2
<1>4. ASSUME NEW m \in 0 .. n - 1, m >= n - Capacity
      PROVE  \E i \in 0 .. b.size - 1 : b.slot[i].id = m
  <2> DEFINE i == IF m >= n - b.cursor THEN m - (n - b.cursor) ELSE m - (n - b.cursor) + Capacity
  <2>1. i \in 0 .. b.size - 1
    BY <1>1, <1>2, <1>4
  <2>2. b.slot[i].id = m
    <3>1. CASE m >= n - b.cursor
      BY <1>1, <1>2, <1>4, <2>1, <3>1
    <3>2. CASE ~(m >= n - b.cursor)
      BY <1>1, <1>2, <1>4, <2>1, <3>2
    <3>3. QED
      BY <3>1, <3>2
  <2>3. QED
    BY <2>1, <2>2
<1>5. \A i, j \in 0 .. b.size - 1 : b.slot[i].id = b.slot[j].id => i = j
  BY <1>1, <1>2
<1>6. Sampleable(b) = 0 .. b.size - 1
  BY DEF Sampleable
<1>7. QED
  BY <1>3, <1>4, <1>5, <1>6
-----------------------------------------------------------------------------
(* What the arrays hold within a game of len ticks, and what the masks keep.*)
ShowsGame(ep, len, agents) ==
    /\ \A t \in 0 .. len, n \in 0 .. agents - 1 : ep.obs[t][n] = t
    /\ \A t \in 0 .. len : ep.state[t] = t
    /\ \A t \in 0 .. len - 1, n \in 0 .. agents - 1 :
          ep.actions[t][n] = t /\ ep.reward[t][n] = t /\ ep.legal[t][n] = t + 1
    /\ \A t \in 0 .. len - 1 : ep.done[t] <=> t = len - 1
    /\ \A t \in Steps : ~(t < len) => ~ep.done[t]
    /\ \A t \in Steps : ep.filled[t] <=> t < len
    /\ ep.active = 0 .. agents - 1

(* pad_episode writes the game into the leading steps and agent slots.      *)
LEMMA PaddedEpisode ==
    ASSUME NEW len \in 1 .. MaxMoves, NEW width \in Nat, NEW agents \in 1 .. width,
           NEW ep, ep = Padded(Rollout(len), len, agents, width)
    PROVE  ShowsGame(ep, len, agents)
<1>1. MaxMoves \in Nat \ {0}
  BY HorizonAssumption
<1> DEFINE rec == Rollout(len)
<1>2. \A t \in 0 .. len - 1 : /\ rec[t].obs = t /\ rec[t].nxt = t + 1 /\ rec[t].act = t
                             /\ rec[t].rew = t /\ rec[t].nmask = t + 1
  BY DEF Rollout
<1>d. \A t \in 0 .. len - 1 : rec[t].done <=> t = len - 1
  BY DEF Rollout
<1> HIDE DEF rec
<1>3. /\ ep.obs = [t \in Frames |-> [n \in 0 .. width - 1 |->
                     IF n < agents /\ t <= len
                     THEN IF t < len THEN rec[t].obs ELSE rec[len - 1].nxt ELSE Blank]]
      /\ ep.state = [t \in Frames |-> IF t <= len
                     THEN IF t < len THEN rec[t].obs ELSE rec[len - 1].nxt ELSE Blank]
      /\ ep.actions = [t \in Steps |-> [n \in 0 .. width - 1 |->
                     IF n < agents /\ t <= len - 1 THEN rec[t].act ELSE Blank]]
      /\ ep.reward = [t \in Steps |-> [n \in 0 .. width - 1 |->
                     IF n < agents /\ t <= len - 1 THEN rec[t].rew ELSE Blank]]
      /\ ep.legal = [t \in Steps |-> [n \in 0 .. width - 1 |->
                     IF n < agents /\ t <= len - 1 THEN rec[t].nmask ELSE Blank]]
      /\ ep.done = [t \in Steps |-> t < len /\ rec[t].done]
      /\ ep.filled = [t \in Steps |-> t < len]
      /\ ep.active = {n \in 0 .. width - 1 : n < agents}
  BY DEF Padded, rec
<1>4. /\ \A t \in 0 .. len : t \in Frames /\ (t < len => t \in 0 .. len - 1) /\ (~(t < len) => t = len)
      /\ \A t \in 0 .. len - 1 : t \in Steps /\ t < len /\ t <= len - 1
      /\ len - 1 \in 0 .. len - 1 /\ (len - 1) + 1 = len
      /\ \A n \in 0 .. agents - 1 : n \in 0 .. width - 1 /\ n < agents
  BY <1>1 DEF Frames, Steps
<1> DEFINE Frame(t) == IF t < len THEN rec[t].obs ELSE rec[len - 1].nxt
<1>f. \A t \in 0 .. len : Frame(t) = t /\ t <= len
  <2>1. TAKE t \in 0 .. len
  <2>2. CASE t < len
    <3>1. rec[t].obs = t
      BY <1>2, <1>4, <2>1, <2>2
    <3>2. QED
      BY <1>4, <2>1, <2>2, <3>1
  <2>3. CASE ~(t < len)
    <3>1. rec[len - 1].nxt = len
      BY <1>2, <1>4
    <3>2. QED
      BY <1>1, <1>4, <2>3, <3>1
  <2>4. QED
    BY <2>2, <2>3
<1> HIDE DEF Frame
<1>5. \A t \in 0 .. len, n \in 0 .. agents - 1 : ep.obs[t][n] = t
  <2>1. TAKE t \in 0 .. len, n \in 0 .. agents - 1
  <2>2. ep.obs = [k \in Frames |-> [m \in 0 .. width - 1 |->
                     IF m < agents /\ k <= len THEN Frame(k) ELSE Blank]]
    BY <1>3, Zenon DEF Frame
  <2>3. ep.obs[t] = [m \in 0 .. width - 1 |-> IF m < agents /\ t <= len THEN Frame(t) ELSE Blank]
    BY <1>4, <2>2, Zenon
  <2>4. ep.obs[t][n] = IF n < agents /\ t <= len THEN Frame(t) ELSE Blank
    BY <1>4, <2>3, Zenon
  <2>5. QED
    BY <1>4, <1>f, <2>4, Zenon
<1>6. \A t \in 0 .. len : ep.state[t] = t
  <2>1. TAKE t \in 0 .. len
  <2>2. ep.state = [k \in Frames |-> IF k <= len THEN Frame(k) ELSE Blank]
    BY <1>3, Zenon DEF Frame
  <2>3. ep.state[t] = IF t <= len THEN Frame(t) ELSE Blank
    BY <1>4, <2>2, Zenon
  <2>4. QED
    BY <1>f, <2>3, Zenon
<1>7. \A t \in 0 .. len - 1, n \in 0 .. agents - 1 :
         ep.actions[t][n] = t /\ ep.reward[t][n] = t /\ ep.legal[t][n] = t + 1
  <2>1. TAKE t \in 0 .. len - 1, n \in 0 .. agents - 1
  <2>2. /\ ep.actions[t] = [m \in 0 .. width - 1 |->
                     IF m < agents /\ t <= len - 1 THEN rec[t].act ELSE Blank]
        /\ ep.reward[t] = [m \in 0 .. width - 1 |->
                     IF m < agents /\ t <= len - 1 THEN rec[t].rew ELSE Blank]
        /\ ep.legal[t] = [m \in 0 .. width - 1 |->
                     IF m < agents /\ t <= len - 1 THEN rec[t].nmask ELSE Blank]
    BY <1>3, <1>4, Zenon
  <2>3. n \in 0 .. width - 1 /\ n < agents /\ t <= len - 1
    BY <1>4
  <2>4. ep.actions[t][n] = rec[t].act /\ ep.reward[t][n] = rec[t].rew /\ ep.legal[t][n] = rec[t].nmask
    BY <2>2, <2>3, Zenon
  <2>5. rec[t].act = t /\ rec[t].rew = t /\ rec[t].nmask = t + 1
    BY <1>2
  <2>6. QED
    BY <2>4, <2>5, Zenon
<1>8. \A t \in 0 .. len - 1 : ep.done[t] <=> t = len - 1
  <2>1. TAKE t \in 0 .. len - 1
  <2>2. ep.done[t] <=> t < len /\ rec[t].done
    BY <1>3, <1>4, Zenon
  <2>3. QED
    BY <1>4, <1>d, <2>1, <2>2, Zenon
<1>9. \A t \in Steps : (~(t < len) => ~ep.done[t]) /\ (ep.filled[t] <=> t < len)
  BY <1>3
<1>10. ep.active = 0 .. agents - 1
  BY <1>3, <1>4
<1>11. QED
  BY <1>5, <1>6, <1>7, <1>8, <1>9, <1>10, Zenon DEF ShowsGame

(* The hidden state of the update at a tick is the one the policy acted on, *)
(* and the one behind the bootstrap is the one it would have acted on next. *)
LEMMA UnrolledIsActing ==
    ASSUME NEW len \in 1 .. MaxMoves, NEW agents \in Nat, NEW ep, ShowsGame(ep, len, agents)
    PROVE  \A t \in 0 .. len, n \in 0 .. agents - 1 : Unrolled(ep, t, n) = Acting(t, n)
<1>1. TAKE t \in 0 .. len, n \in 0 .. agents - 1
<1>2. \A k \in 0 .. t : k \in 0 .. len
  BY HorizonAssumption
<1>3. [k \in 0 .. t |-> ep.obs[k][n]] = [k \in 0 .. t |-> k]
  <2>1. \A k \in 0 .. t : ep.obs[k][n] = k
    BY <1>1, <1>2 DEF ShowsGame
  <2>2. QED
    BY <2>1, Zenon
<1>4. QED
  BY <1>3 DEF Unrolled, Acting

(* The two losses of a padded episode are the game that was played.         *)
LEMMA LossOfEpisode ==
    ASSUME NEW len \in 1 .. MaxMoves, NEW width \in Nat, NEW agents \in 1 .. width,
           NEW ep, ep = Padded(Rollout(len), len, agents, width)
    PROVE  /\ Admissible(ep)
           /\ CentralLoss(ep) = GameByTeam(len, agents)
           /\ AgentLoss(ep) = GameByAgent(len, agents)
<1>0. ShowsGame(ep, len, agents)
  BY PaddedEpisode
<1>1. /\ \A t \in 0 .. len, n \in 0 .. agents - 1 : ep.obs[t][n] = t
      /\ \A t \in 0 .. len : ep.state[t] = t
      /\ \A t \in 0 .. len - 1, n \in 0 .. agents - 1 :
            ep.actions[t][n] = t /\ ep.reward[t][n] = t /\ ep.legal[t][n] = t + 1
      /\ \A t \in 0 .. len - 1 : ep.done[t] <=> t = len - 1
      /\ \A t \in Steps : ~(t < len) => ~ep.done[t]
      /\ \A t \in Steps : ep.filled[t] <=> t < len
      /\ ep.active = 0 .. agents - 1
  BY <1>0 DEF ShowsGame
<1>2. MaxMoves \in Nat \ {0} /\ agents \in Nat
  BY HorizonAssumption
<1>3. \A t \in 0 .. len, n \in 0 .. agents - 1 : Unrolled(ep, t, n) = Acting(t, n)
  BY <1>0, <1>2, UnrolledIsActing
<1>4. Kept(ep) = 0 .. len - 1
  <2>1. \A t \in Steps : t < len <=> t \in 0 .. len - 1
    BY <1>2 DEF Steps
  <2>2. 0 .. len - 1 \subseteq Steps
    BY <1>2 DEF Steps
  <2>3. QED
    BY <1>1, <2>1, <2>2 DEF Kept
<1>5. Admissible(ep)
  <2>1. len - 1 \in Steps
    BY <1>2 DEF Steps
  <2>2. \A t \in Steps : t < len <=> t <= len - 1
    BY <1>2 DEF Steps
  <2>3. \A t \in Steps : ep.done[t] => t = len - 1
    <3>1. \A t \in Steps : t < len => t \in 0 .. len - 1
      BY <1>2 DEF Steps
    <3>2. QED
      BY <1>1, <3>1
  <2>4. QED
    BY <1>1, <2>1, <2>2, <2>3 DEF Admissible
<1>6. \A t \in 0 .. len - 1 : t \in 0 .. len /\ t + 1 \in 0 .. len
  BY <1>2
<1>7. \A t \in 0 .. len - 1, n \in 0 .. agents - 1 :
         /\ Chosen(ep, t, n) = [q |-> Acting(t, n), action |-> t]
         /\ Bootstrap(ep, t, n) = Next1(t, n)
  BY <1>1, <1>3, <1>6 DEF Chosen, Bootstrap, Next1
<1>8. \A t \in 0 .. len - 1 :
         /\ {Chosen(ep, t, n) : n \in Mixed(ep)}
              = {[q |-> Acting(t, n), action |-> t] : n \in 0 .. agents - 1}
         /\ {Bootstrap(ep, t, n) : n \in Mixed(ep)} = {Next1(t, n) : n \in 0 .. agents - 1}
         /\ [n \in Mixed(ep) |-> ep.reward[t][n]] = [n \in 0 .. agents - 1 |-> t]
  <2>1. TAKE t \in 0 .. len - 1
  <2>2. Mixed(ep) = 0 .. agents - 1
    BY <1>1 DEF Mixed
  <2>3. {Chosen(ep, t, n) : n \in 0 .. agents - 1}
          = {[q |-> Acting(t, n), action |-> t] : n \in 0 .. agents - 1}
    BY <1>7
  <2>4. {Bootstrap(ep, t, n) : n \in 0 .. agents - 1} = {Next1(t, n) : n \in 0 .. agents - 1}
    BY <1>7
  <2>5. [n \in 0 .. agents - 1 |-> ep.reward[t][n]] = [n \in 0 .. agents - 1 |-> t]
    BY <1>1
  <2>6. QED
    BY <2>2, <2>3, <2>4, <2>5
<1> DEFINE central(t) ==
             [step    |-> t,
              chosen  |-> {Chosen(ep, t, n) : n \in Mixed(ep)}, state |-> ep.state[t],
              rewards |-> [n \in Mixed(ep) |-> ep.reward[t][n]],
              next    |-> IF ep.done[t] THEN {}
                          ELSE {[values |-> {Bootstrap(ep, t, n) : n \in Mixed(ep)},
                                 state  |-> ep.state[t + 1]]}]
           team(t) ==
             [step    |-> t,
              chosen  |-> {[q |-> Acting(t, n), action |-> t] : n \in 0 .. agents - 1}, state |-> t,
              rewards |-> [n \in 0 .. agents - 1 |-> t],
              next    |-> IF t = len - 1 THEN {}
                          ELSE {[values |-> {Next1(t, n) : n \in 0 .. agents - 1}, state |-> t + 1]}]
<1>9. CentralLoss(ep) = GameByTeam(len, agents)
  <2>1. \A t \in 0 .. len - 1 : central(t) = team(t)
    <3>1. TAKE t \in 0 .. len - 1
    <3>2. /\ ep.state[t] = t /\ ep.state[t + 1] = t + 1
          /\ ep.done[t] <=> t = len - 1
      BY <1>1, <1>6
    <3>3. QED
      BY <1>8, <3>2, Zenon
  <2>2. CentralLoss(ep) = {central(t) : t \in 0 .. len - 1}
    BY <1>4 DEF CentralLoss
  <2>3. GameByTeam(len, agents) = {team(t) : t \in 0 .. len - 1}
    BY DEF GameByTeam
  <2> HIDE DEF central, team
  <2>4. QED
    BY <2>1, <2>2, <2>3
<1> DEFINE own(t, n) ==
             [step   |-> t,
              chosen |-> Chosen(ep, t, n), reward |-> ep.reward[t][n],
              next   |-> IF ep.done[t] THEN {} ELSE {Bootstrap(ep, t, n)}]
           agent(t, n) ==
             [step   |-> t,
              chosen |-> [q |-> Acting(t, n), action |-> t], reward |-> t,
              next   |-> IF t = len - 1 THEN {} ELSE {Next1(t, n)}]
<1>10. AgentLoss(ep) = GameByAgent(len, agents)
  <2>1. \A t \in 0 .. len - 1, n \in 0 .. agents - 1 : own(t, n) = agent(t, n)
    <3>1. TAKE t \in 0 .. len - 1, n \in 0 .. agents - 1
    <3>2. Chosen(ep, t, n) = [q |-> Acting(t, n), action |-> t] /\ Bootstrap(ep, t, n) = Next1(t, n)
      BY <1>7, Zenon
    <3>3. ep.reward[t][n] = t /\ (ep.done[t] <=> t = len - 1)
      BY <1>1, Zenon
    <3>4. QED
      BY <3>2, <3>3, Zenon
  <2>2. AgentLoss(ep) = {own(t, n) : t \in 0 .. len - 1, n \in 0 .. agents - 1}
    BY <1>1, <1>4 DEF AgentLoss
  <2>3. GameByAgent(len, agents) = {agent(t, n) : t \in 0 .. len - 1, n \in 0 .. agents - 1}
    BY DEF GameByAgent
  <2> HIDE DEF own, agent
  <2>4. QED
    BY <2>1, <2>2, <2>3
<1>11. QED
  BY <1>5, <1>9, <1>10
-----------------------------------------------------------------------------
(* What the validated configuration gives.                                  *)
LEMMA Parameters ==
    /\ {Rounds, EpisodesPerRound, UpdateRatio, WindowK, SyncInterval} \subseteq Nat \ {0}
    /\ PoolSize \in Nat /\ MinReplay \in Nat /\ MinReplay <= Capacity
    /\ Capacity \in Nat \ {0} /\ MaxMoves \in Nat \ {0}
    /\ Len(CopsByStage) \in Nat /\ 1 \in 1 .. Len(CopsByStage)
    /\ \A s \in 1 .. Len(CopsByStage), r \in Roles :
          Team(r, s) \in 1 .. Width(r) /\ Team(r, s) \in Nat
<1>1. CopsByStage \in Seq({1, 2}) /\ CopsByStage # <<>>
  BY TrainerAssumption
<1>2. \A s \in 1 .. Len(CopsByStage) : CopsByStage[s] \in {1, 2}
  BY <1>1
<1>3. \A s \in 1 .. Len(CopsByStage), r \in Roles :
         Team(r, s) \in 1 .. Width(r) /\ Team(r, s) \in Nat
  BY <1>2 DEF Team, Width, Roles
<1>4. QED
  BY <1>1, <1>3, TrainerAssumption, CapacityAssumption, HorizonAssumption

(* Each role's rival is the other.                                          *)
LEMMA Rivals ==
    ASSUME NEW r \in Nat
    PROVE  /\ Window(r) \in Nat
           /\ TrainingRole(r) \in Roles /\ Rival(TrainingRole(r)) \in Roles
           /\ TrainingRole(r) = RoleOfWindow(Window(r))
           /\ Rival(TrainingRole(r)) # TrainingRole(r)
<1>1. Window(r) \in Nat
  BY Parameters, DivMonotone DEF Window
<1>2. QED
  BY <1>1 DEF TrainingRole, RoleOfWindow, Roles, Rival

(* Windows open in the order of the rounds.                                 *)
LEMMA WindowsAdvance ==
    ASSUME NEW r \in Nat, NEW q \in Nat, r <= q
    PROVE  Window(r) \in Nat /\ Window(q) \in Nat /\ Window(r) <= Window(q)
BY Parameters, DivMonotone DEF Window

(* Games are numbered through the rounds of a stage.                        *)
LEMMA GamesNumbered ==
    ASSUME TypeOK
    PROVE  EpisodeId \in Nat /\ (played < EpisodesPerRound => EpisodeId \div EpisodesPerRound = round)
<1>1. EpisodesPerRound \in Nat \ {0} /\ round \in Nat /\ played \in 0 .. EpisodesPerRound
  BY Parameters DEF TypeOK
<1>2. PICK q \in Nat : q = round
  BY <1>1
<1>3. PICK z \in Nat : z = round * EpisodesPerRound /\ z = EpisodesPerRound * q
  BY <1>1, <1>2
<1>4. EpisodeId \in Nat
  BY <1>1, <1>3 DEF EpisodeId
<1>5. ASSUME played < EpisodesPerRound PROVE EpisodeId \div EpisodesPerRound = round
  <2>1. PICK r \in 0 .. EpisodesPerRound - 1 : r = played
    BY <1>1, <1>5
  <2>2. (EpisodesPerRound * q + r) \div EpisodesPerRound = q
    BY <1>1, DivModUnique
  <2>3. QED
    BY <1>2, <1>3, <2>1, <2>2 DEF EpisodeId
<1>6. QED
  BY <1>4, <1>5

(* A round's last game is followed by the next round's first.               *)
LEMMA GamesCounted ==
    ASSUME TypeOK
    PROVE  /\ \A len \in Lengths : PlayEpisode(len) => EpisodeId' = EpisodeId + 1
           /\ EndRound => EpisodeId' = EpisodeId
           /\ NextStage => EpisodeId' = 0
           /\ StartRound \/ UNCHANGED vars => EpisodeId' = EpisodeId
<1>1. EpisodesPerRound \in Nat \ {0} /\ round \in Nat /\ played \in 0 .. EpisodesPerRound
  BY Parameters DEF TypeOK
<1>2. PICK z \in Nat : z = round * EpisodesPerRound
  BY <1>1
<1>3. (round + 1) * EpisodesPerRound = z + EpisodesPerRound
  BY <1>1, <1>2
<1>4. \A len \in Lengths : PlayEpisode(len) => EpisodeId' = EpisodeId + 1
  BY <1>1, <1>2 DEF PlayEpisode, EpisodeId
<1>5. EndRound => EpisodeId' = EpisodeId
  BY <1>1, <1>2, <1>3 DEF EndRound, EpisodeId
<1>6. NextStage => EpisodeId' = 0
  BY <1>1 DEF NextStage, EpisodeId, TypeOK
<1>7. StartRound \/ UNCHANGED vars => EpisodeId' = EpisodeId
  BY DEF StartRound, vars, EpisodeId
<1>8. QED
  BY <1>4, <1>5, <1>6, <1>7

(* Both roles' buffers take the game that was played.                       *)
LEMMA StoredOK ==
    ASSUME TypeOK, RingsInv, NEW len \in Lengths, PlayEpisode(len), NEW r \in Roles
    PROVE  /\ ring'[r] \in Rings /\ RingOK(ring'[r], EpisodeId + 1)
           /\ ring'[r].size = (IF ring[r].size < Capacity THEN ring[r].size + 1 ELSE Capacity)
           /\ \A i \in Sampleable(ring'[r]) :
                 \/ ring'[r].slot[i] = Episode(r, len)
                 \/ i \in Sampleable(ring[r]) /\ ring'[r].slot[i] = ring[r].slot[i]
<1>1. PICK e \in Episodes : e = Episode(r, len)
  <2>1. stage \in 1 .. Len(CopsByStage) /\ opponent \in Nets
    BY DEF TypeOK
  <2>2. EpisodeId \in Int /\ len \in Nat /\ Team(r, stage) \in Nat
    BY <2>1, GamesNumbered, Parameters DEF Lengths
  <2>3. Episode(r, len) \in Episodes
    BY <2>1, <2>2 DEF Episode, Episodes
  <2>4. QED
    BY <2>3
<1>2. PICK n \in Nat : n = EpisodeId /\ e.id = n
  BY <1>1, GamesNumbered DEF Episode
<1>3. PICK b \in Rings : b = ring[r] /\ RingOK(b, n)
  BY <1>2 DEF TypeOK, RingsInv
<1>4. PICK a : a = ring'[r] /\ a = Added(b, e)
  BY <1>1, <1>3 DEF PlayEpisode, Stored
<1>5. /\ a \in Rings /\ RingOK(a, n + 1)
      /\ a.size = (IF b.size < Capacity THEN b.size + 1 ELSE Capacity)
      /\ \A i \in Sampleable(a) :
            a.slot[i] = e \/ (i \in Sampleable(b) /\ a.slot[i] = b.slot[i])
  BY <1>2, <1>3, <1>4, AddedOK
<1>6. QED
  BY <1>1, <1>2, <1>3, <1>4, <1>5
-----------------------------------------------------------------------------
(* What a new buffer holds: nothing.                                        *)
LEMMA NewRingsOK ==
    ASSUME NEW r \in Roles
    PROVE  NewRings[r] \in Rings /\ RingOK(NewRings[r], 0) /\ Sampleable(NewRings[r]) = {}
<1>1. Capacity \in Nat \ {0} /\ 0 \in Slots
  BY CapacityAssumption DEF Slots
<1>2. NoEpisode \in Episodes
  BY DEF NoEpisode, Heuristic, Episodes, Nets
<1>3. NewRings[r] = [slot |-> [i \in Slots |-> NoEpisode], cursor |-> 0, size |-> 0]
  BY DEF NewRings, EmptyRing
<1>4. NewRings[r] \in Rings
  BY <1>1, <1>2, <1>3 DEF Rings
<1>5. NewRings[r].cursor = 0 /\ NewRings[r].size = 0
  BY <1>3
<1>6. QED
  BY <1>1, <1>4, <1>5 DEF RingOK, Sampleable

(* The rings stay rings of this stage's games, the newest of them.          *)
LEMMA RingsStep ==
    ASSUME TypeOK, RingsInv, [Next]_vars
    PROVE  ring' \in [Roles -> Rings] /\ RingsInv'
<1>1. ASSUME NEW len \in Lengths, PlayEpisode(len)
      PROVE  ring' \in [Roles -> Rings] /\ RingsInv'
  <2>1. EpisodeId' = EpisodeId + 1 /\ stage' = stage
    BY <1>1, GamesCounted DEF PlayEpisode
  <2>2. \A r \in Roles :
           /\ ring'[r] \in Rings /\ RingOK(ring'[r], EpisodeId + 1)
           /\ \A i \in Sampleable(ring'[r]) :
                 \/ ring'[r].slot[i] = Episode(r, len)
                 \/ i \in Sampleable(ring[r]) /\ ring'[r].slot[i] = ring[r].slot[i]
    BY <1>1, StoredOK
  <2>3. ring' \in [Roles -> Rings]
    <3>1. ring' = [r \in Roles |-> ring'[r]]
      BY <1>1 DEF PlayEpisode, Stored
    <3>2. \A r \in Roles : ring'[r] \in Rings
      BY <2>2
    <3>3. QED
      BY <3>1, <3>2, Zenon
  <2>4. \A r \in Roles : \A i \in Sampleable(ring'[r]) :
           ring'[r].slot[i].len \in Lengths /\ ring'[r].slot[i].active = Team(r, stage)
    <3>1. TAKE r \in Roles
    <3>2. TAKE i \in Sampleable(ring'[r])
    <3>3. Episode(r, len).len = len /\ Episode(r, len).active = Team(r, stage)
      BY DEF Episode
    <3>4. CASE ring'[r].slot[i] = Episode(r, len)
      BY <1>1, <3>3, <3>4
    <3>5. CASE i \in Sampleable(ring[r]) /\ ring'[r].slot[i] = ring[r].slot[i]
      BY <3>5 DEF RingsInv
    <3>6. QED
      BY <2>2, <3>4, <3>5
  <2>5. QED
    <3>1. \A r \in Roles : RingOK(ring'[r], EpisodeId')
      BY <2>1, <2>2
    <3>2. \A r \in Roles : \A i \in Sampleable(ring'[r]) :
             ring'[r].slot[i].len \in Lengths /\ ring'[r].slot[i].active = Team(r, stage)'
      BY <2>1, <2>4 DEF Team
    <3>3. QED
      BY <2>3, <3>1, <3>2 DEF RingsInv, RingOK, Sampleable
<1>2. ASSUME NextStage PROVE ring' \in [Roles -> Rings] /\ RingsInv'
  <2>1. ring' = NewRings /\ EpisodeId' = 0
    BY <1>2, GamesCounted DEF NextStage, NewTrainer
  <2>2. \A r \in Roles :
           NewRings[r] \in Rings /\ RingOK(NewRings[r], 0) /\ Sampleable(NewRings[r]) = {}
    BY NewRingsOK
  <2>3. ring' \in [Roles -> Rings]
    <3>1. NewRings = [r \in Roles |-> NewRings[r]]
      BY DEF NewRings
    <3>2. \A r \in Roles : NewRings[r] \in Rings
      BY <2>2
    <3>3. QED
      BY <2>1, <3>1, <3>2, Zenon
  <2>4. QED
    BY <2>1, <2>2, <2>3 DEF RingsInv, RingOK, Sampleable
<1>3. ASSUME StartRound \/ EndRound \/ UNCHANGED vars PROVE ring' \in [Roles -> Rings] /\ RingsInv'
  <2>1. ring' = ring /\ stage' = stage /\ EpisodeId' = EpisodeId
    BY <1>3, GamesCounted DEF StartRound, EndRound, vars
  <2>2. ring' \in [Roles -> Rings]
    BY <2>1 DEF TypeOK
  <2>3. RingsInv'
    BY <2>1 DEF RingsInv, RingOK, Sampleable, Team
  <2>4. QED
    BY <2>2, <2>3
<1>4. QED
  BY <1>1, <1>2, <1>3 DEF Next

(* What a pool holds can be played, and an opponent is held once drawn.     *)
LEMMA OpponentDrawn ==
    ASSUME TypeOK, StartRound
    PROVE  \E o \in Sampled(pool[Rival(Trainee)]) :
              /\ o \in Nets
              /\ opponent' = (IF Window(round) # oppWindow THEN o ELSE opponent)
              /\ oppWindow' = Window(round)
<1>1. PICK o \in Sampled(pool[Rival(Trainee)]) : FrozenOpponent(o)
  BY DEF StartRound
<1>2. pool[Rival(Trainee)] \in Seq(Nets)
  BY Rivals DEF TypeOK, Trainee, StartRound
<1>3. o \in Nets
  BY <1>1, <1>2 DEF Sampled, ToSet
<1>4. QED
  BY <1>1, <1>3 DEF FrozenOpponent
-----------------------------------------------------------------------------
(* add_snapshot: behind the heuristic the pool goes on holding the last     *)
(* rounds, the one just ended among them and the oldest gone when it is     *)
(* full.                                                                    *)
LEMMA CappedOK ==
    ASSUME NEW p \in Seq(Nets), NEW n \in Nat, NEW T \in SUBSET (0 .. n - 1),
           NEW agents \in Nat, NEW w \in Nat, PoolOK(p, T, agents, w),
           NEW s \in Nets, s.round = n, s.updates = w, s.agents = agents,
           NEW q, q = Capped(Append(p, s))
    PROVE  q \in Seq(Nets) /\ PoolOK(q, T \union {n}, agents, w)
<1>1. PICK c \in Nat : c = Cardinality(T) /\ Cardinality(T \union {n}) = c + 1
  <2>1. IsFiniteSet(0 .. n - 1)
    BY FS_Interval
  <2>2. IsFiniteSet(T)
    BY <2>1, FS_Subset
  <2>3. Cardinality(T) \in Nat
    BY <2>2, FS_CardinalityType
  <2>4. n \notin T
    OBVIOUS
  <2>5. QED
    BY <2>2, <2>3, <2>4, FS_AddElement
<1>2. PoolSize \in Nat
  BY Parameters
<1>3. /\ Len(p) = 1 + (IF c < PoolSize THEN c ELSE PoolSize)
      /\ p[1] = Heuristic
      /\ \A k \in 2 .. Len(p) :
            /\ p[k].round \in T
            /\ Cardinality({r \in T : r > p[k].round}) = Len(p) - k
            /\ p[k].agents = agents
            /\ p[k].updates <= w
            /\ k > 2 => p[k - 1].updates <= p[k].updates
  BY <1>1 DEF PoolOK
<1> DEFINE a == Append(p, s)
           T1 == T \union {n}
<1>4. /\ a \in Seq(Nets) /\ Len(a) = Len(p) + 1
      /\ \A k \in 1 .. Len(p) : a[k] = p[k]
      /\ a[Len(p) + 1] = s
  OBVIOUS
<1> HIDE DEF a
<1>5. \A k \in 2 .. Len(a) :
         /\ a[k].round \in T1
         /\ Cardinality({r \in T1 : r > a[k].round}) = Len(a) - k
         /\ a[k].agents = agents
         /\ a[k].updates <= w
         /\ k > 2 => a[k - 1].updates <= a[k].updates
  <2>1. TAKE k \in 2 .. Len(a)
  <2>2. CASE k = Len(p) + 1
    <3>1. a[k] = s
      BY <1>4, <2>2
    <3>2. {r \in T1 : r > a[k].round} = {}
      <4>1. \A r \in T1 : ~(r > n)
        OBVIOUS
      <4>2. a[k].round = n
        BY <3>1
      <4> HIDE DEF T1
      <4>3. QED
        BY <4>1, <4>2
    <3>3. Cardinality({r \in T1 : r > a[k].round}) = 0
      BY <3>2, FS_EmptySet
    <3>4. k > 2 => a[k - 1].updates <= w
      <4>1. HAVE k > 2
      <4>2. k - 1 \in 2 .. Len(p) /\ k - 1 \in 1 .. Len(p)
        BY <1>2, <1>3, <2>2, <4>1
      <4>3. QED
        BY <1>3, <1>4, <4>2
    <3>5. QED
      BY <1>4, <2>2, <3>1, <3>3, <3>4
  <2>3. CASE k # Len(p) + 1
    <3>1. k \in 2 .. Len(p) /\ a[k] = p[k]
      BY <1>4, <2>3
    <3>2. PICK m \in T : m = p[k].round
      BY <1>3, <3>1
    <3>3. {r \in T1 : r > m} = {r \in T : r > m} \union {n}
      OBVIOUS
    <3> DEFINE later == {r \in T : r > m}
    <3>4. IsFiniteSet(later) /\ n \notin later
      <4>1. IsFiniteSet(0 .. n - 1)
        BY FS_Interval
      <4>2. later \subseteq T /\ n \notin T
        OBVIOUS
      <4> HIDE DEF later
      <4>3. later \in SUBSET (0 .. n - 1) /\ n \notin later
        BY <4>2
      <4>4. QED
        BY <4>1, <4>3, FS_Subset
    <3>5. Cardinality(later \union {n}) = Cardinality(later) + 1
      <4> HIDE DEF later
      <4>1. QED
        BY <3>4, FS_AddElement
    <3>6. Cardinality({r \in T1 : r > a[k].round}) = Len(a) - k
      <4>1. Cardinality(later) = Len(p) - k
        BY <1>3, <3>1, <3>2
      <4>2. {r \in T1 : r > a[k].round} = later \union {n}
        BY <3>1, <3>2, <3>3
      <4> HIDE DEF later, T1
      <4>3. QED
        <5>1. Len(p) \in Nat /\ Len(a) - k = (Len(p) - k) + 1
          BY <1>4, <3>1
        <5>2. QED
          BY <3>5, <4>1, <4>2, <5>1, Zenon
    <3>7. k > 2 => a[k - 1] = p[k - 1]
      BY <1>4, <3>1
    <3>8. QED
      BY <1>3, <3>1, <3>6, <3>7
  <2>4. QED
    BY <2>2, <2>3
<1>6. CASE Len(a) > PoolSize + 1
  <2>1. q = SubSeq(a, 1, 1) \o SubSeq(a, 3, Len(a))
    BY <1>6 DEF a, Capped, RemoveAt
  <2>2. c >= PoolSize /\ Len(p) = PoolSize + 1 /\ Len(a) = PoolSize + 2
    BY <1>1, <1>2, <1>3, <1>4, <1>6
  <2> HIDE DEF a
  <2>3. q \in Seq(Nets) /\ Len(q) = Len(a) - 1
    BY <1>2, <1>4, <2>1, <2>2
  <2>4. q[1] = a[1] /\ \A k \in 2 .. Len(q) : q[k] = a[k + 1]
    BY <1>2, <1>4, <2>1, <2>2
  <2>5. \A k \in 2 .. Len(q) : k + 1 \in 2 .. Len(a) /\ Len(a) - (k + 1) = Len(q) - k
    BY <1>2, <2>2, <2>3
  <2>6. \A k \in 2 .. Len(q) :
           /\ q[k].round \in T1
           /\ Cardinality({r \in T1 : r > q[k].round}) = Len(q) - k
           /\ q[k].agents = agents
           /\ q[k].updates <= w
           /\ k > 2 => q[k - 1].updates <= q[k].updates
    <3>1. TAKE k \in 2 .. Len(q)
    <3>2. q[k] = a[k + 1] /\ k + 1 \in 2 .. Len(a)
      BY <2>4, <2>5
    <3>3. k > 2 => q[k - 1] = a[k] /\ a[k].updates <= a[k + 1].updates
      <4>1. HAVE k > 2
      <4>2. k - 1 \in 2 .. Len(q) /\ (k - 1) + 1 = k /\ k + 1 > 2 /\ (k + 1) - 1 = k
        BY <2>3, <3>1, <4>1
      <4>3. QED
        BY <1>5, <2>4, <3>2, <4>2
    <3>4. QED
      BY <1>5, <2>5, <3>2, <3>3
  <2>7. q[1] = Heuristic
    BY <1>2, <1>3, <1>4, <2>2, <2>4
  <2>8. Len(q) = 1 + (IF c + 1 < PoolSize THEN c + 1 ELSE PoolSize)
    BY <1>1, <1>2, <2>2, <2>3
  <2>9. QED
    BY <1>1, <2>3, <2>6, <2>7, <2>8 DEF PoolOK
<1>7. CASE ~(Len(a) > PoolSize + 1)
  <2>1. q = a
    BY <1>7 DEF a, Capped
  <2>2. Len(q) = 1 + (IF c + 1 < PoolSize THEN c + 1 ELSE PoolSize)
    BY <1>1, <1>2, <1>3, <1>4, <1>7, <2>1
  <2>3. q[1] = Heuristic
    BY <1>2, <1>3, <1>4, <2>1
  <2> HIDE DEF a
  <2>4. QED
    BY <1>1, <1>4, <1>5, <2>1, <2>2, <2>3 DEF PoolOK
<1>8. QED
  BY <1>6, <1>7

(* The rounds so far, and one more.                                         *)
LEMMA RoundEnds ==
    ASSUME TypeOK, EndRound, NEW role \in Roles
    PROVE  /\ TrainedRounds(role) \in SUBSET (0 .. round - 1)
           /\ TrainedRounds(role)' = (IF role = Trainee THEN TrainedRounds(role) \union {round}
                                      ELSE TrainedRounds(role))
<1>1. round \in Nat /\ round' = round + 1
  BY Parameters DEF TypeOK, EndRound
<1>2. \A r : r \in 0 .. round' - 1 <=> r \in 0 .. round - 1 \/ r = round
  BY <1>1
<1>3. TrainedRounds(role)' = {r \in 0 .. round' - 1 : TrainingRole(r) = role}
  BY DEF TrainedRounds, TrainingRole, Window
<1>4. QED
  BY <1>2, <1>3 DEF TrainedRounds, Trainee
-----------------------------------------------------------------------------
(* What a game does to the learners.                                        *)
LEMMA LearnersStep ==
    ASSUME TypeOK, [Next]_vars
    PROVE  /\ learner' \in [Roles -> Learners]
           /\ ~NextStage => \A r \in Roles : learner[r].online <= learner'[r].online
<1>1. learner \in [Roles -> Learners] /\ round \in Nat
  BY Parameters DEF TypeOK
<1>2. \A r \in Roles : learner[r].online \in Nat /\ learner[r].online <= learner[r].online
  BY <1>1 DEF Learners
<1>3. ASSUME NEW len \in Lengths, PlayEpisode(len)
      PROVE  /\ learner' \in [Roles -> Learners]
             /\ \A r \in Roles : learner[r].online <= learner'[r].online
  <2>1. CASE learner' = learner
    BY <1>1, <1>2, <2>1
  <2>2. CASE learner' = [learner EXCEPT ![Trainee] = Trained(@)]
    <3>1. PICK l \in Learners : l = learner[Trainee]
      BY <1>1, Rivals DEF Trainee
    <3>2. Trained(l) \in Learners /\ l.online <= Trained(l).online
      BY TrainedCounts
    <3>3. learner' = [learner EXCEPT ![Trainee] = Trained(l)]
      BY <2>2, <3>1
    <3>4. Trainee \in Roles
      BY <1>1, Rivals DEF Trainee
    <3>5. QED
      BY <1>1, <1>2, <3>1, <3>2, <3>3, <3>4
  <2>3. QED
    BY <1>3, <2>1, <2>2 DEF PlayEpisode
<1>4. ASSUME NextStage PROVE learner' \in [Roles -> Learners]
  <2>1. \A r \in Roles : NewLearner(learner[r]) \in Learners
    BY <1>1 DEF NewLearner, Learners
  <2>2. learner' = [r \in Roles |-> NewLearner(learner[r])]
    BY <1>4 DEF NextStage, NewTrainer
  <2>3. QED
    BY <2>1, <2>2
<1>5. CASE StartRound \/ EndRound \/ UNCHANGED vars
  <2>1. learner' = learner
    BY <1>5 DEF StartRound, EndRound, vars
  <2>2. QED
    BY <1>1, <1>2, <1>4, <2>1
<1>6. QED
  BY <1>3, <1>4, <1>5 DEF Next

(* A pool's shape bears a heavier learner.                                  *)
LEMMA PoolGrows ==
    ASSUME NEW p \in Seq(Nets), NEW T, NEW agents, NEW w \in Nat, NEW v \in Nat, w <= v,
           PoolOK(p, T, agents, w)
    PROVE  PoolOK(p, T, agents, v)
<1>1. \A k \in 2 .. Len(p) : p[k].updates <= w /\ p[k].updates \in Int
  <2>1. \A k \in 2 .. Len(p) : p[k].updates <= w
    BY DEF PoolOK
  <2>2. \A k \in 2 .. Len(p) : p[k] \in Nets
    OBVIOUS
  <2>3. QED
    BY <2>1, <2>2 DEF Nets
<1>2. \A k \in 2 .. Len(p) : p[k].updates <= v
  BY <1>1
<1>3. QED
  BY <1>2 DEF PoolOK

(* A new pool is the heuristic alone.                                       *)
LEMMA NewPoolsOK ==
    ASSUME NEW role \in Roles, NEW agents, NEW w
    PROVE  NewPools[role] \in Seq(Nets) /\ PoolOK(NewPools[role], {}, agents, w)
<1>1. NewPools[role] = <<Heuristic>> /\ Heuristic \in Nets
  BY DEF NewPools, Heuristic, Nets
<1>2. Cardinality({}) = 0
  BY FS_EmptySet
<1>3. PoolSize \in Nat
  BY Parameters
<1>4. Len(NewPools[role]) = 1 /\ NewPools[role][1] = Heuristic
  BY <1>1
<1>5. NewPools[role] \in Seq(Nets)
  BY <1>1
<1>6. QED
  BY <1>2, <1>3, <1>4, <1>5 DEF PoolOK

(* The pools stay the recent rounds of this stage.                          *)
LEMMA PoolsStep ==
    ASSUME TypeOK, PoolsInv, [Next]_vars
    PROVE  pool' \in [Roles -> Seq(Nets)] /\ PoolsInv'
<1>1. /\ learner \in [Roles -> Learners] /\ round \in Nat /\ pool \in [Roles -> Seq(Nets)]
      /\ stage \in 1 .. Len(CopsByStage)
  BY Parameters DEF TypeOK
<1>2. /\ learner' \in [Roles -> Learners]
      /\ ~NextStage => \A r \in Roles : learner[r].online <= learner'[r].online
  BY LearnersStep
<1>3. \A r \in Roles : learner[r].online \in Nat /\ learner'[r].online \in Nat
  BY <1>1, <1>2 DEF Learners
<1>4. ASSUME EndRound PROVE pool' \in [Roles -> Seq(Nets)] /\ PoolsInv'
  <2>1. /\ pool' = [pool EXCEPT ![Trainee] = Capped(Append(@, Snapshot))]
        /\ stage' = stage /\ learner' = learner
    BY <1>4 DEF EndRound
  <2>2. PICK t \in Roles : t = Trainee
    BY <1>1, Rivals DEF Trainee
  <2>3. PICK n \in Nat : n = round
    BY <1>1
  <2>4. PICK T \in SUBSET (0 .. n - 1) : T = TrainedRounds(t)
    BY <1>4, <2>3, RoundEnds
  <2>5. PICK p \in Seq(Nets) : p = pool[t]
    BY <1>1
  <2>6. PICK agents \in Nat, w \in Nat : agents = Team(t, stage) /\ w = learner[t].online
    BY <1>1, <1>3, Parameters
  <2>7. PICK s \in Nets : s = Snapshot /\ s.round = n /\ s.updates = w /\ s.agents = agents
    <3>1. Snapshot = [round |-> n, updates |-> w, agents |-> agents]
      BY <2>2, <2>3, <2>6 DEF Snapshot
    <3>2. Snapshot \in Nets
      BY <3>1 DEF Nets
    <3>3. QED
      BY <3>1, <3>2
  <2>8. PICK q : q = pool'[t] /\ q = Capped(Append(p, s))
    BY <1>1, <2>1, <2>2, <2>5, <2>7
  <2>9. PoolOK(p, T, agents, w)
    BY <2>4, <2>5, <2>6 DEF PoolsInv
  <2>10. q \in Seq(Nets) /\ PoolOK(q, T \union {n}, agents, w)
    BY <2>7, <2>8, <2>9, CappedOK
  <2>11. pool' \in [Roles -> Seq(Nets)]
    BY <1>1, <2>1, <2>2, <2>8, <2>10
  <2>12. \A role \in Roles :
            PoolOK(pool'[role], TrainedRounds(role)', Team(role, stage)', learner'[role].online)
    <3>1. TAKE role \in Roles
    <3>2. Team(role, stage)' = Team(role, stage)
      BY <2>1 DEF Team
    <3>3. CASE role = t
      <4>1. TrainedRounds(role)' = T \union {n}
        BY <1>4, <2>2, <2>3, <2>4, <3>3, RoundEnds
      <4>2. QED
        BY <2>1, <2>6, <2>8, <2>10, <3>2, <3>3, <4>1
    <3>4. CASE role # t
      <4>1. TrainedRounds(role)' = TrainedRounds(role)
        BY <1>4, <2>2, <3>4, RoundEnds
      <4>2. pool'[role] = pool[role]
        BY <1>1, <2>1, <2>2, <3>4
      <4>3. PoolOK(pool[role], TrainedRounds(role), Team(role, stage), learner[role].online)
        BY DEF PoolsInv
      <4>4. QED
        BY <2>1, <3>2, <4>1, <4>2, <4>3
    <3>5. QED
      BY <3>3, <3>4
  <2>13. QED
    BY <2>11, <2>12 DEF PoolsInv, PoolOK
<1>5. ASSUME NextStage PROVE pool' \in [Roles -> Seq(Nets)] /\ PoolsInv'
  <2>1. pool' = NewPools /\ round' = 0
    BY <1>5 DEF NextStage, NewTrainer
  <2>2. \A role \in Roles : TrainedRounds(role)' = {}
    BY <2>1 DEF TrainedRounds
  <2>3. \A role \in Roles :
           /\ NewPools[role] \in Seq(Nets)
           /\ PoolOK(NewPools[role], {}, Team(role, stage)', learner'[role].online)
    <3>1. TAKE role \in Roles
    <3>2. PICK agents, w : agents = Team(role, stage)' /\ w = learner'[role].online
      OBVIOUS
    <3>3. QED
      BY <3>2, NewPoolsOK
  <2>4. pool' \in [Roles -> Seq(Nets)]
    BY <2>1, <2>3 DEF NewPools
  <2>5. \A role \in Roles :
           PoolOK(pool'[role], TrainedRounds(role)', Team(role, stage)', learner'[role].online)
    BY <2>1, <2>2, <2>3
  <2>6. QED
    BY <2>4, <2>5 DEF PoolsInv, PoolOK
<1>6. ASSUME ~NextStage, ~EndRound PROVE pool' \in [Roles -> Seq(Nets)] /\ PoolsInv'
  <2>1. pool' = pool /\ round' = round /\ stage' = stage
    BY <1>6 DEF Next, StartRound, PlayEpisode, vars
  <2>2. \A role \in Roles :
           PoolOK(pool[role], TrainedRounds(role), Team(role, stage), learner'[role].online)
    <3>1. TAKE role \in Roles
    <3>2. PICK p \in Seq(Nets), w \in Nat, v \in Nat :
             p = pool[role] /\ w = learner[role].online /\ v = learner'[role].online
      BY <1>1, <1>3
    <3>3. PICK T, agents : T = TrainedRounds(role) /\ agents = Team(role, stage)
      OBVIOUS
    <3>4. w <= v /\ PoolOK(p, T, agents, w)
      BY <1>2, <1>6, <3>2, <3>3 DEF PoolsInv
    <3>5. PoolOK(p, T, agents, v)
      BY <3>4, PoolGrows
    <3>6. QED
      BY <3>2, <3>3, <3>5
  <2>3. \A role \in Roles :
           TrainedRounds(role)' = TrainedRounds(role) /\ Team(role, stage)' = Team(role, stage)
    BY <2>1 DEF TrainedRounds, Team, TrainingRole, Window
  <2>4. \A role \in Roles :
           PoolOK(pool'[role], TrainedRounds(role)', Team(role, stage)', learner'[role].online)
    BY <2>1, <2>2, <2>3
  <2>5. QED
    BY <1>1, <2>1, <2>4 DEF PoolsInv, PoolOK
<1>7. QED
  BY <1>4, <1>5, <1>6
-----------------------------------------------------------------------------
(* The pace of the updates: after n games of the stage, UpdateRatio for     *)
(* each of them beyond the warmup.                                          *)
Due(n) == LET free == IF MinReplay = 0 THEN 0 ELSE MinReplay - 1
          IN  IF n > free THEN n - free ELSE 0

(* One more game is one more due as soon as it is no longer warmup.         *)
LEMMA DueCounts ==
    ASSUME NEW n \in Nat
    PROVE  /\ Due(n) \in Nat
           /\ n + 1 >= MinReplay => UpdateRatio * Due(n + 1) = UpdateRatio * Due(n) + UpdateRatio
           /\ n + 1 < MinReplay => Due(n + 1) = Due(n)
           /\ UpdateRatio * Due(0) = 0 /\ UpdateRatio * Due(n) \in Nat
<1>1. MinReplay \in Nat /\ UpdateRatio \in Nat
  BY Parameters
<1>2. /\ Due(n) \in Nat /\ Due(0) = 0
      /\ n + 1 >= MinReplay => Due(n + 1) = Due(n) + 1
      /\ n + 1 < MinReplay => Due(n + 1) = Due(n)
  BY <1>1 DEF Due
<1>3. PICK d \in Nat : d = Due(n)
  BY <1>2
<1>4. UpdateRatio * (d + 1) = UpdateRatio * d + UpdateRatio /\ UpdateRatio * d \in Nat
      /\ UpdateRatio * 0 = 0
  BY <1>1
<1>5. QED
  BY <1>2, <1>3, <1>4

(* UpdatesPaced, learner by learner.                                        *)
PacedInv ==
    /\ learner["cop"].updates + learner["thief"].updates = UpdateRatio * Due(EpisodeId)
    /\ \A r \in Roles : Lags(learner[r])

(* It is UpdatesPaced.                                                      *)
LEMMA PacedIsPaced == PacedInv <=> UpdatesPaced
BY DEF PacedInv, UpdatesPaced, Due, Lags, EpisodesSoFar

(* The trainee is trained after every game but those of the warmup.         *)
LEMMA PacedStep ==
    ASSUME TypeOK, RingsInv, PacedInv, [Next]_vars
    PROVE  PacedInv'
<1>1. learner \in [Roles -> Learners] /\ round \in Nat
  BY Parameters DEF TypeOK
<1>2. PICK n \in Nat : n = EpisodeId
  BY GamesNumbered
<1>3. \A r \in Roles : learner[r].updates \in Nat
  BY <1>1 DEF Learners
<1>4. ASSUME NEW len \in Lengths, PlayEpisode(len) PROVE PacedInv'
  <2>1. PICK t \in Roles, o \in Roles : t = Trainee /\ o # t /\ \A r \in Roles : r = t \/ r = o
    BY <1>1, Rivals DEF Trainee, Roles
  <2>2. EpisodeId' = n + 1
    BY <1>2, <1>4, GamesCounted
  <2>3. Warm(ring'[t]) <=> n + 1 >= MinReplay
    <3>1. ring'[t].size = (IF ring[t].size < Capacity THEN ring[t].size + 1 ELSE Capacity)
      BY <1>4, StoredOK
    <3>2. /\ ring[t].size < Capacity => n = ring[t].size
          /\ ring[t].size = Capacity => n >= Capacity
          /\ ring[t].size \in 0 .. Capacity
      BY <1>2 DEF RingsInv, RingOK, TypeOK, Rings
    <3>3. Capacity \in Nat /\ MinReplay \in Nat /\ MinReplay <= Capacity
      BY Parameters
    <3>4. QED
      BY <3>1, <3>2, <3>3 DEF Warm
  <2>4. /\ n + 1 >= MinReplay => UpdateRatio * Due(n + 1) = UpdateRatio * Due(n) + UpdateRatio
        /\ n + 1 < MinReplay => Due(n + 1) = Due(n)
    BY DueCounts
  <2>5. /\ learner["cop"].updates + learner["thief"].updates = UpdateRatio * Due(n)
        /\ \A r \in Roles : Lags(learner[r])
    BY <1>2 DEF PacedInv
  <2>6. CASE n + 1 >= MinReplay
    <3>1. learner' = [learner EXCEPT ![t] = Trained(learner[t])]
      BY <1>4, <2>1, <2>3, <2>6 DEF PlayEpisode
    <3>2. PICK l \in Learners : l = learner[t]
      BY <1>1
    <3>3. /\ Trained(l).updates = l.updates + UpdateRatio /\ Lags(l) => Lags(Trained(l))
      BY TrainedCounts
    <3>4. learner'[t] = Trained(l) /\ learner'[o] = learner[o]
      BY <1>1, <2>1, <3>1, <3>2
    <3>5. Trained(l).updates = l.updates + UpdateRatio /\ Lags(Trained(l))
      BY <2>5, <3>2, TrainedCounts
    <3>6. \A r \in Roles : Lags(learner'[r])
      BY <2>1, <2>5, <3>4, <3>5
    <3>7. learner'["cop"].updates + learner'["thief"].updates
            = learner["cop"].updates + learner["thief"].updates + UpdateRatio
      <4>1. UpdateRatio \in Nat /\ l.updates \in Nat /\ learner[o].updates \in Nat
        BY <1>3, <3>2, Parameters
      <4>2. (t = "cop" /\ o = "thief") \/ (t = "thief" /\ o = "cop")
        BY <2>1 DEF Roles
      <4>3. QED
        BY <3>2, <3>4, <3>5, <4>1, <4>2
    <3>8. learner'["cop"].updates + learner'["thief"].updates = UpdateRatio * Due(n + 1)
      BY <2>4, <2>5, <2>6, <3>7
    <3>9. QED
      BY <2>2, <3>6, <3>8 DEF PacedInv, Lags
  <2>7. CASE n + 1 < MinReplay
    <3>1. MinReplay \in Nat
      BY Parameters
    <3>2. learner' = learner
      BY <1>4, <2>1, <2>3, <2>7, <3>1 DEF PlayEpisode
    <3>3. Due(n + 1) = Due(n)
      BY <2>4, <2>7
    <3>4. QED
      BY <2>2, <2>5, <3>2, <3>3 DEF PacedInv, Lags
  <2>8. MinReplay \in Nat
    BY Parameters
  <2>9. QED
    BY <2>6, <2>7, <2>8
<1>5. ASSUME NextStage PROVE PacedInv'
  <2>1. learner' = [r \in Roles |-> NewLearner(learner[r])] /\ EpisodeId' = 0
    BY <1>5, GamesCounted DEF NextStage, NewTrainer
  <2>2. 0 % SyncInterval = 0
    <3>1. SyncInterval \in Nat \ {0}
      BY Parameters
    <3>2. PICK z \in Nat, r \in 0 .. SyncInterval - 1 : z = 0 /\ r = 0
      BY <3>1
    <3>3. (SyncInterval * z + r) % SyncInterval = r
      BY <3>1, DivModUnique
    <3>4. SyncInterval * z + r = 0
      BY <3>1, <3>2
    <3>5. QED
      BY <3>2, <3>3, <3>4
  <2>3. \A r \in Roles : learner'[r].updates = 0 /\ learner'[r].online = learner'[r].target
                        /\ learner'[r].online \in Nat
    BY <1>1, <2>1 DEF NewLearner, Learners
  <2>4. \A r \in Roles : Lags(learner'[r])
    BY <2>2, <2>3 DEF Lags
  <2>5. learner'["cop"].updates + learner'["thief"].updates = UpdateRatio * Due(0)
    BY <2>3, DueCounts DEF Roles
  <2>6. QED
    BY <2>1, <2>4, <2>5 DEF PacedInv, Lags
<1>6. ASSUME StartRound \/ EndRound \/ UNCHANGED vars PROVE PacedInv'
  <2>1. learner' = learner /\ EpisodeId' = EpisodeId
    BY <1>6, GamesCounted DEF StartRound, EndRound, vars
  <2>2. QED
    BY <2>1 DEF PacedInv, Lags
<1>7. QED
  BY <1>4, <1>5, <1>6 DEF Next
-----------------------------------------------------------------------------
(* A net of the rival's pool is the rival's, of a window before this one.   *)
LEMMA RivalIsFair ==
    ASSUME TypeOK, PoolsInv, NEW o \in Sampled(pool[Rival(Trainee)])
    PROVE  FairRival(o, Window(round))
<1>1. round \in Nat
  BY Parameters DEF TypeOK
<1>2. PICK v \in Roles : v = Rival(Trainee) /\ v # TrainingRole(round)
  BY <1>1, Rivals DEF Trainee
<1>3. PICK p \in Seq(Nets) : p = pool[v]
  BY DEF TypeOK
<1>4. PICK k \in 1 .. Len(p) : o = p[k]
  BY <1>2, <1>3 DEF Sampled, ToSet
<1>5. p[1] = Heuristic /\ \A i \in 2 .. Len(p) : p[i].round \in TrainedRounds(v)
  BY <1>3 DEF PoolsInv, PoolOK
<1>6. ASSUME o # Heuristic
      PROVE TrainingRole(o.round) # RoleOfWindow(Window(round)) /\ Window(o.round) < Window(round)
  <2>1. k \in 2 .. Len(p)
    BY <1>4, <1>5, <1>6
  <2>2. PICK r \in 0 .. round - 1 : r = o.round /\ TrainingRole(r) = v
    BY <1>4, <1>5, <2>1 DEF TrainedRounds
  <2>3. r \in Nat /\ r <= round
    BY <1>1
  <2>4. PICK q \in Nat : q = round
    BY <1>1
  <2>5. Window(r) \in Nat /\ Window(q) \in Nat /\ Window(r) <= Window(q)
    BY <2>3, <2>4, WindowsAdvance
  <2>6. TrainingRole(r) = RoleOfWindow(Window(r)) /\ TrainingRole(q) = RoleOfWindow(Window(q))
    BY <2>3, Rivals
  <2>7. Window(r) # Window(q)
    BY <1>2, <2>2, <2>4, <2>6
  <2>8. QED
    BY <1>2, <2>2, <2>4, <2>5, <2>6, <2>7
<1>7. QED
  BY <1>6 DEF FairRival

(* Opponents are drawn when a window opens and held while it is open.       *)
LEMMA OpponentStep ==
    ASSUME TypeOK, RingsInv, PoolsInv, OpponentInv, [Next]_vars
    PROVE  opponent' \in Nets /\ oppWindow' \in Int /\ OpponentInv'
<1>1. /\ round \in Nat /\ opponent \in Nets /\ oppWindow \in Int
      /\ Window(round) \in Nat
  BY Parameters, Rivals DEF TypeOK
<1>2. /\ oppWindow <= Window(round) /\ (playing => oppWindow = Window(round))
      /\ FairRival(opponent, oppWindow) /\ GamesFair(GamesDrawn, opponent, oppWindow)
  BY DEF OpponentInv
<1>3. ASSUME StartRound PROVE opponent' \in Nets /\ oppWindow' \in Int /\ OpponentInv'
  <2>1. PICK o \in Sampled(pool[Rival(Trainee)]) :
           /\ o \in Nets
           /\ opponent' = (IF Window(round) # oppWindow THEN o ELSE opponent)
           /\ oppWindow' = Window(round)
    BY <1>3, OpponentDrawn
  <2>2. round' = round /\ GamesDrawn' = GamesDrawn
    BY <1>3 DEF StartRound, GamesDrawn, Sampleable
  <2>3. FairRival(o, Window(round))
    BY RivalIsFair
  <2>4. FairRival(opponent', oppWindow')
    BY <1>2, <2>1, <2>3
  <2>5. GamesFair(GamesDrawn, opponent', oppWindow')
    <3>1. CASE Window(round) = oppWindow
      BY <1>2, <2>1, <3>1
    <3>2. CASE Window(round) # oppWindow
      <4>1. oppWindow < oppWindow'
        BY <1>1, <1>2, <2>1, <3>2
      <4>2. PICK w \in Int, v \in Int : w = oppWindow /\ v = oppWindow' /\ w < v
        BY <1>1, <2>1, <4>1
      <4>3. \A e \in GamesDrawn : GameWindow(e) \in Nat /\ GameWindow(e) <= w
        BY <1>2, <4>2 DEF GamesFair
      <4>4. \A e \in GamesDrawn : GameWindow(e) <= v /\ GameWindow(e) # v
        BY <4>2, <4>3
      <4>5. QED
        BY <1>2, <4>2, <4>4 DEF GamesFair
    <3>3. QED
      BY <3>1, <3>2
  <2>6. Window(round)' = Window(round)
    BY <2>2 DEF Window
  <2>7. oppWindow' <= Window(round)' /\ (playing' => oppWindow' = Window(round)')
    BY <1>1, <2>1, <2>6
  <2>8. GamesFair(GamesDrawn, opponent, oppWindow)'
    BY <2>2, <2>5 DEF GamesFair, FairRival, GameWindow, TrainingRole, Window, RoleOfWindow
  <2>9. FairRival(opponent, oppWindow)'
    BY <2>4 DEF FairRival, TrainingRole, Window, RoleOfWindow
  <2>10. QED
    BY <1>1, <2>1, <2>7, <2>8, <2>9 DEF OpponentInv
<1>4. ASSUME NEW len \in Lengths, PlayEpisode(len)
      PROVE opponent' \in Nets /\ oppWindow' \in Int /\ OpponentInv'
  <2>1. /\ opponent' = opponent /\ oppWindow' = oppWindow /\ round' = round
        /\ oppWindow = Window(round)
    BY <1>2, <1>4 DEF PlayEpisode
  <2>2. PICK e : e = Episode("cop", len)
    OBVIOUS
  <2>3. e.opponent = opponent /\ GameWindow(e) = oppWindow
    <3>1. e.opponent = opponent /\ e.id = EpisodeId
      BY <2>2 DEF Episode
    <3>2. EpisodeId \div EpisodesPerRound = round
      BY <1>4, GamesNumbered DEF PlayEpisode
    <3>3. QED
      BY <2>1, <3>1, <3>2 DEF GameWindow
  <2>4. PICK G : G = GamesDrawn' /\ \A f \in G : f = e \/ f \in GamesDrawn
    <3>1. \A i \in Sampleable(ring'["cop"]) :
             \/ ring'["cop"].slot[i] = Episode("cop", len)
             \/ i \in Sampleable(ring["cop"]) /\ ring'["cop"].slot[i] = ring["cop"].slot[i]
      BY <1>4, StoredOK DEF Roles
    <3>2. GamesDrawn' = {ring'["cop"].slot[i] : i \in Sampleable(ring'["cop"])}
      BY DEF GamesDrawn, Sampleable
    <3>3. QED
      BY <2>2, <3>1, <3>2 DEF GamesDrawn
  <2>5. GamesFair(G, opponent, oppWindow)
    <3>1. PICK w \in Nat : w = oppWindow
      BY <1>1, <2>1
    <3>2. GameWindow(e) = w /\ e.opponent = opponent /\ FairRival(e.opponent, w)
      BY <1>2, <2>3, <3>1
    <3>3. GamesFair(GamesDrawn, opponent, w)
      BY <1>2, <3>1
    <3>4. QED
      BY <2>4, <3>1, <3>2, <3>3 DEF GamesFair
  <2>6. GamesFair(GamesDrawn, opponent, oppWindow)'
    BY <2>1, <2>4, <2>5 DEF GamesFair, FairRival, GameWindow, TrainingRole, Window, RoleOfWindow
  <2>7. FairRival(opponent, oppWindow)' /\ Window(round)' = Window(round)
    BY <1>2, <2>1 DEF FairRival, TrainingRole, Window, RoleOfWindow
  <2>8. QED
    BY <1>1, <1>2, <2>1, <2>6, <2>7 DEF OpponentInv
<1>5. ASSUME EndRound PROVE opponent' \in Nets /\ oppWindow' \in Int /\ OpponentInv'
  <2>1. /\ opponent' = opponent /\ oppWindow' = oppWindow /\ round' = round + 1 /\ ~playing'
        /\ GamesDrawn' = GamesDrawn
    BY <1>5 DEF EndRound, GamesDrawn, Sampleable
  <2>2. PICK r \in Nat, q \in Nat : r = round /\ q = round' /\ r <= q
    BY <1>1, <2>1
  <2>3. Window(r) \in Nat /\ Window(q) \in Nat /\ Window(r) <= Window(q)
    BY <2>2, WindowsAdvance
  <2>4. Window(round)' = Window(q) /\ Window(round) = Window(r)
    BY <2>2 DEF Window
  <2>5. oppWindow' <= Window(round)'
    BY <1>1, <1>2, <2>1, <2>3, <2>4
  <2>6. GamesFair(GamesDrawn, opponent, oppWindow)' /\ FairRival(opponent, oppWindow)'
    BY <1>2, <2>1 DEF GamesFair, FairRival, GameWindow, TrainingRole, Window, RoleOfWindow
  <2>7. QED
    BY <1>1, <2>1, <2>5, <2>6 DEF OpponentInv
<1>6. ASSUME NextStage PROVE opponent' \in Nets /\ oppWindow' \in Int /\ OpponentInv'
  <2>1. /\ opponent' = Heuristic /\ oppWindow' = -1 /\ round' = 0 /\ ~playing'
        /\ ring' = NewRings
    BY <1>6 DEF NextStage, NewTrainer
  <2>2. GamesDrawn' = {}
    BY <2>1, NewRingsOK DEF GamesDrawn, Sampleable, Roles
  <2>3. Window(round)' = Window(0) /\ Window(0) \in Nat
    BY <2>1, Rivals DEF Window
  <2>4. Heuristic \in Nets
    BY DEF Heuristic, Nets
  <2>5. FairRival(opponent, oppWindow)' /\ GamesFair(GamesDrawn, opponent, oppWindow)'
    BY <2>1, <2>2 DEF FairRival, GamesFair
  <2>6. QED
    BY <2>1, <2>3, <2>4, <2>5 DEF OpponentInv
<1>7. ASSUME UNCHANGED vars PROVE opponent' \in Nets /\ oppWindow' \in Int /\ OpponentInv'
  <2>1. /\ opponent' = opponent /\ oppWindow' = oppWindow /\ round' = round /\ playing' = playing
        /\ GamesDrawn' = GamesDrawn
    BY <1>7 DEF vars, GamesDrawn, Sampleable
  <2>2. GamesFair(GamesDrawn, opponent, oppWindow)' /\ FairRival(opponent, oppWindow)'
        /\ Window(round)' = Window(round)
    BY <1>2, <2>1 DEF GamesFair, FairRival, GameWindow, TrainingRole, Window, RoleOfWindow
  <2>3. playing' => oppWindow' = Window(round)'
    BY <1>2, <2>1, <2>2, Zenon
  <2>4. QED
    BY <1>1, <1>2, <2>1, <2>2, <2>3 DEF OpponentInv
<1>8. QED
  BY <1>3, <1>4, <1>5, <1>6, <1>7 DEF Next
-----------------------------------------------------------------------------
(* The invariant of a training run. *)
IInv == TypeOK /\ RingsInv /\ PoolsInv /\ OpponentInv /\ PacedInv

(* It holds of a new trainer. *)
LEMMA IInvInit == Init => IInv
<1>1. SUFFICES ASSUME Init PROVE IInv
  OBVIOUS
<1>2. /\ stage = 1 /\ round = 0 /\ ~playing /\ played = 0
      /\ ring = NewRings /\ pool = NewPools /\ opponent = Heuristic /\ oppWindow = -1
      /\ learner = [r \in Roles |-> NewLearner([online |-> 0, target |-> 0, updates |-> 0])]
  BY <1>1 DEF Init
<1>3. \A r \in Roles :
         NewRings[r] \in Rings /\ RingOK(NewRings[r], 0) /\ Sampleable(NewRings[r]) = {}
  BY NewRingsOK
<1>4. EpisodeId = 0
  <2>1. EpisodesPerRound \in Nat
    BY Parameters
  <2>2. QED
    BY <1>2, <2>1 DEF EpisodeId
<1>5. \A role \in Roles : TrainedRounds(role) = {}
  BY <1>2 DEF TrainedRounds
<1>6. \A r \in Roles :
         learner[r] = [online |-> 0, target |-> 0, updates |-> 0] /\ learner[r] \in Learners
  BY <1>2 DEF NewLearner, Learners
<1>7. TypeOK
  <2>1. ring \in [Roles -> Rings]
    <3>1. NewRings = [r \in Roles |-> NewRings[r]]
      BY DEF NewRings
    <3>2. \A r \in Roles : NewRings[r] \in Rings
      BY <1>3
    <3>3. QED
      BY <1>2, <3>1, <3>2, Zenon
  <2>2. pool \in [Roles -> Seq(Nets)] /\ opponent \in Nets
    BY <1>2 DEF NewPools, Heuristic, Nets
  <2>3. learner \in [Roles -> Learners]
    BY <1>2, <1>6
  <2>4. QED
    BY <1>2, <2>1, <2>2, <2>3, Parameters DEF TypeOK
<1>8. RingsInv
  BY <1>2, <1>3, <1>4 DEF RingsInv
<1>9. PoolsInv
  <2>1. \A role \in Roles :
           PoolOK(NewPools[role], {}, Team(role, stage), learner[role].online)
    <3>1. TAKE role \in Roles
    <3>2. PICK agents, w : agents = Team(role, stage) /\ w = learner[role].online
      OBVIOUS
    <3>3. QED
      BY <3>2, NewPoolsOK
  <2>2. QED
    BY <1>2, <1>5, <2>1 DEF PoolsInv
<1>10. OpponentInv
  <2>1. GamesDrawn = {}
    BY <1>2, <1>3 DEF GamesDrawn, Roles
  <2>2. Window(0) \in Nat
    BY Rivals
  <2>3. QED
    BY <1>2, <2>1, <2>2 DEF OpponentInv, GamesFair, FairRival
<1>11. PacedInv
  <2>1. 0 % SyncInterval = 0
    <3>1. SyncInterval \in Nat \ {0}
      BY Parameters
    <3>2. PICK z \in Nat, r \in 0 .. SyncInterval - 1 : z = 0 /\ r = 0
      BY <3>1
    <3>3. (SyncInterval * z + r) % SyncInterval = r
      BY <3>1, DivModUnique
    <3>4. SyncInterval * z + r = 0
      BY <3>1, <3>2
    <3>5. QED
      BY <3>2, <3>3, <3>4
  <2>2. \A r \in Roles : Lags(learner[r])
    BY <1>6, <2>1 DEF Lags
  <2>3. learner["cop"].updates + learner["thief"].updates = UpdateRatio * Due(0)
    BY <1>6, DueCounts DEF Roles
  <2>4. QED
    BY <1>4, <2>2, <2>3 DEF PacedInv
<1>12. QED
  BY <1>7, <1>8, <1>9, <1>10, <1>11 DEF IInv

(* Every step keeps it. *)
LEMMA IInvStep == IInv /\ [Next]_vars => IInv'
<1>1. SUFFICES ASSUME TypeOK, RingsInv, PoolsInv, OpponentInv, PacedInv, [Next]_vars
               PROVE  IInv'
  BY DEF IInv
<1>2. ring' \in [Roles -> Rings] /\ RingsInv'
  BY <1>1, RingsStep
<1>3. pool' \in [Roles -> Seq(Nets)] /\ PoolsInv'
  BY <1>1, PoolsStep
<1>4. opponent' \in Nets /\ oppWindow' \in Int /\ OpponentInv'
  BY <1>1, OpponentStep
<1>5. learner' \in [Roles -> Learners] /\ PacedInv'
  BY <1>1, LearnersStep, PacedStep
<1>6. TypeOK'
  <2>1. stage \in 1 .. Len(CopsByStage) /\ round \in 0 .. Rounds /\ played \in 0 .. EpisodesPerRound
        /\ Rounds \in Nat /\ EpisodesPerRound \in Nat \ {0} /\ Len(CopsByStage) \in Nat
    BY <1>1, Parameters DEF TypeOK
  <2>2. (playing /\ round < Rounds) \/ (~playing /\ played = 0)
    BY <1>1 DEF TypeOK
  <2>3. stage' \in 1 .. Len(CopsByStage) /\ round' \in 0 .. Rounds /\ played' \in 0 .. EpisodesPerRound
    <3>1. CASE StartRound \/ UNCHANGED vars
      BY <2>1, <3>1 DEF StartRound, vars
    <3>2. CASE \E len \in Lengths : PlayEpisode(len)
      BY <2>1, <3>2 DEF PlayEpisode
    <3>3. CASE EndRound
      <4>1. playing /\ played = EpisodesPerRound
        BY <3>3 DEF EndRound
      <4>2. round < Rounds
        BY <2>1, <2>2, <4>1
      <4>3. QED
        BY <2>1, <3>3, <4>2 DEF EndRound
    <3>4. CASE NextStage
      BY <2>1, <3>4, <2>2 DEF NextStage
    <3>5. QED
      BY <1>1, <3>1, <3>2, <3>3, <3>4 DEF Next
  <2>4. (playing' /\ round' < Rounds) \/ (~playing' /\ played' = 0)
    <3>1. CASE StartRound
      BY <3>1 DEF StartRound
    <3>2. CASE \E len \in Lengths : PlayEpisode(len)
      BY <2>2, <3>2 DEF PlayEpisode
    <3>3. CASE EndRound
      BY <3>3 DEF EndRound
    <3>4. CASE NextStage
      BY <2>2, <3>4 DEF NextStage
    <3>5. CASE UNCHANGED vars
      BY <2>2, <3>5 DEF vars
    <3>6. QED
      BY <1>1, <3>1, <3>2, <3>3, <3>4, <3>5 DEF Next
  <2>5. QED
    BY <1>2, <1>3, <1>4, <1>5, <2>3, <2>4 DEF TypeOK
<1>7. QED
  BY <1>2, <1>3, <1>4, <1>5, <1>6 DEF IInv

(* It holds throughout. *)
THEOREM TrainingInvariance == Spec => []IInv
<1>1. Init => IInv
  BY IInvInit
<1>2. IInv /\ [Next]_vars => IInv'
  BY IInvStep
<1>3. QED
  BY <1>1, <1>2, PTL DEF Spec

(* UpdateRatio updates after every game beyond the warmup of the stage,     *)
(* whoever is the trainee, and a target net that many updates behind as     *)
(* were made since the last sync.                                           *)
THEOREM UpdatesKeepPace == Spec => []UpdatesPaced
<1>1. IInv => UpdatesPaced
  BY PacedIsPaced DEF IInv
<1>2. QED
  BY <1>1, TrainingInvariance, PTL

(* Whatever is drawn, the loss of an update is the game that was played,    *)
(* for any horizon, any width of the buffer and any team that fits it.      *)
THEOREM LossIsOfTheGame == Spec => []LossIsTheGame
<1>1. ASSUME IInv PROVE LossIsTheGame
  <2>1. SUFFICES ASSUME NEW r \in Roles, NEW i \in Sampleable(ring[r])
                 PROVE  LET e  == ring[r].slot[i]
                            ep == Padded(Rollout(e.len), e.len, e.active, Width(r))
                        IN  /\ Admissible(ep)
                            /\ CentralLoss(ep) = GameByTeam(e.len, Team(r, stage))
                            /\ AgentLoss(ep) = GameByAgent(e.len, Team(r, stage))
    BY DEF LossIsTheGame
  <2>2. PICK e : e = ring[r].slot[i] /\ e.len \in Lengths /\ e.active = Team(r, stage)
    BY <1>1 DEF IInv, RingsInv
  <2>3. PICK len \in 1 .. MaxMoves : len = e.len
    BY <2>2 DEF Lengths
  <2>4. PICK width \in Nat : width = Width(r)
    BY DEF Width
  <2>5. PICK agents \in 1 .. width : agents = Team(r, stage)
    BY <1>1, <2>4, Parameters DEF IInv, TypeOK
  <2>6. PICK ep : ep = Padded(Rollout(len), len, agents, width)
    OBVIOUS
  <2>7. /\ Admissible(ep)
        /\ CentralLoss(ep) = GameByTeam(len, agents)
        /\ AgentLoss(ep) = GameByAgent(len, agents)
    BY <2>6, LossOfEpisode
  <2>8. QED
    BY <2>2, <2>3, <2>4, <2>5, <2>6, <2>7
<1>2. QED
  BY <1>1, TrainingInvariance, PTL

(* A batch is drawn from the newest games of the stage, each of them once,  *)
(* for any capacity and any number of games.                                *)
THEOREM BatchIsOfNewestGames == Spec => []BatchIsNewestGames
<1>1. ASSUME IInv PROVE BatchIsNewestGames
  <2>1. SUFFICES ASSUME NEW r \in Roles
                 PROVE  LET drawn == {ring[r].slot[i] : i \in Sampleable(ring[r])}
                        IN /\ {e.id : e \in drawn} =
                                 {n \in 0 .. EpisodesSoFar - 1 : n >= EpisodesSoFar - Capacity}
                           /\ Cardinality(drawn) = ring[r].size
                           /\ \A e \in drawn : e.active = Team(r, stage) /\ e.len >= 1
    BY DEF BatchIsNewestGames
  <2>2. PICK b \in Rings : b = ring[r]
    BY <1>1 DEF IInv, TypeOK
  <2>3. PICK n \in Nat : n = EpisodesSoFar
    BY <1>1, GamesNumbered DEF IInv, EpisodesSoFar
  <2>4. RingOK(b, n)
    BY <1>1, <2>2, <2>3 DEF IInv, RingsInv, EpisodesSoFar
  <2>5. /\ {b.slot[i].id : i \in Sampleable(b)} = {m \in 0 .. n - 1 : m >= n - Capacity}
        /\ \A i, j \in Sampleable(b) : b.slot[i].id = b.slot[j].id => i = j
    BY <2>4, DrawnIds
  <2> DEFINE drawn == {b.slot[i] : i \in Sampleable(b)}
  <2>6. {e.id : e \in drawn} = {m \in 0 .. n - 1 : m >= n - Capacity}
    <3>1. {e.id : e \in drawn} = {b.slot[i].id : i \in Sampleable(b)}
      OBVIOUS
    <3>2. QED
      BY <2>5, <3>1
  <2>7. Cardinality(drawn) = b.size
    <3>1. b.size \in Nat /\ Sampleable(b) = 0 .. b.size - 1
      BY <2>2, CapacityAssumption DEF Rings, Sampleable
    <3>2. IsFiniteSet(Sampleable(b)) /\ Cardinality(Sampleable(b)) = b.size
      <4>1. PICK k \in Int : k = b.size - 1 /\ k + 1 = b.size /\ k >= -1
        BY <3>1
      <4>2. IsFiniteSet(0 .. k) /\ Cardinality(0 .. k) = IF 0 > k THEN 0 ELSE k - 0 + 1
        BY FS_Interval
      <4>3. QED
        BY <3>1, <4>1, <4>2
    <3> DEFINE f == [i \in Sampleable(b) |-> b.slot[i]]
    <3>3. f \in Bijection(Sampleable(b), drawn)
      <4>1. f \in [Sampleable(b) -> drawn]
        OBVIOUS
      <4>2. \A i, j \in Sampleable(b) : f[i] = f[j] => i = j
        BY <2>5
      <4>3. \A e \in drawn : \E i \in Sampleable(b) : f[i] = e
        OBVIOUS
      <4>4. QED
        BY <4>1, <4>2, <4>3 DEF Bijection, Injection, Surjection, IsInjective
    <3>4. ExistsBijection(Sampleable(b), drawn)
      BY <3>3 DEF ExistsBijection
    <3>5. QED
      BY <3>2, <3>4, FS_Bijection
  <2>8. \A e \in drawn : e.active = Team(r, stage) /\ e.len >= 1
    <3>1. \A i \in Sampleable(b) : b.slot[i].len \in Lengths /\ b.slot[i].active = Team(r, stage)
      BY <1>1, <2>2 DEF IInv, RingsInv
    <3>2. QED
      BY <3>1 DEF Lengths
  <2>9. QED
    BY <2>2, <2>3, <2>6, <2>7, <2>8
<1>2. QED
  BY <1>1, TrainingInvariance, PTL

(* One opponent a window, the rival's and from before the window, for any   *)
(* length of the windows and any number of rounds.                          *)
THEOREM WindowHasOneOpponent == Spec => []OneOpponentAWindow
<1>1. ASSUME IInv PROVE OneOpponentAWindow
  <2>1. GamesFair(GamesDrawn, opponent, oppWindow)
    BY <1>1 DEF IInv, OpponentInv
  <2>2. \A e \in GamesDrawn :
           /\ GameWindow(e) = oppWindow => e.opponent = opponent
           /\ FairRival(e.opponent, GameWindow(e))
           /\ \A f \in GamesDrawn : GameWindow(e) = GameWindow(f) => e.opponent = f.opponent
    BY <2>1 DEF GamesFair
  <2>3. \A e : TrainingRole(e.id \div EpisodesPerRound) = RoleOfWindow(GameWindow(e))
    BY DEF TrainingRole, RoleOfWindow, GameWindow
  <2>4. QED
    BY <2>2, <2>3 DEF OneOpponentAWindow, FairRival
<1>2. QED
  BY <1>1, TrainingInvariance, PTL

(* A pool is the heuristic and the role's last rounds, for any size of the  *)
(* pool and any schedule.                                                   *)
THEOREM PoolIsOfRecentRounds == Spec => []PoolIsRecentHistory
<1>1. ASSUME IInv PROVE PoolIsRecentHistory
  <2>1. SUFFICES ASSUME NEW role \in Roles
                 PROVE
          LET snaps == Tail(pool[role])
              held  == Len(snaps)
          IN /\ Head(pool[role]) = Heuristic
             /\ held = (IF Cardinality(TrainedRounds(role)) < PoolSize
                        THEN Cardinality(TrainedRounds(role)) ELSE PoolSize)
             /\ \A k \in 1 .. held :
                   /\ snaps[k].round \in TrainedRounds(role)
                   /\ Cardinality({r \in TrainedRounds(role) : r > snaps[k].round}) = held - k
                   /\ snaps[k].agents = Team(role, stage)
                   /\ k > 1 => snaps[k - 1].updates <= snaps[k].updates
    BY DEF PoolIsRecentHistory
  <2>2. PICK p \in Seq(Nets) : p = pool[role]
    BY <1>1 DEF IInv, TypeOK
  <2>3. PICK T, agents, w : T = TrainedRounds(role) /\ agents = Team(role, stage)
                            /\ w = learner[role].online
    OBVIOUS
  <2>4. PoolOK(p, T, agents, w)
    BY <1>1, <2>2, <2>3 DEF IInv, PoolsInv
  <2>5. PICK c \in Nat : c = (IF Cardinality(T) < PoolSize THEN Cardinality(T) ELSE PoolSize)
    <3>1. round \in Nat /\ T \in SUBSET (0 .. round - 1)
      BY <1>1, <2>3, Parameters DEF IInv, TypeOK, TrainedRounds
    <3>2. PICK n \in Nat : n = round
      BY <3>1
    <3>3. IsFiniteSet(0 .. n - 1) /\ T \in SUBSET (0 .. n - 1)
      BY <3>1, <3>2, FS_Interval
    <3>4. IsFiniteSet(T)
      BY <3>3, FS_Subset
    <3>5. Cardinality(T) \in Nat /\ PoolSize \in Nat
      BY <3>4, FS_CardinalityType, Parameters
    <3>6. QED
      BY <3>5
  <2>6. Len(p) = 1 + c /\ p # <<>>
    BY <2>4, <2>5 DEF PoolOK
  <2>7. Head(p) = Heuristic /\ Len(Tail(p)) = c /\ \A k \in 1 .. c : Tail(p)[k] = p[k + 1]
    BY <2>4, <2>6 DEF PoolOK
  <2>8. \A k \in 1 .. c :
           /\ Tail(p)[k].round \in T
           /\ Cardinality({r \in T : r > Tail(p)[k].round}) = c - k
           /\ Tail(p)[k].agents = agents
           /\ k > 1 => Tail(p)[k - 1].updates <= Tail(p)[k].updates
    <3>1. TAKE k \in 1 .. c
    <3>2. k + 1 \in 2 .. Len(p) /\ Len(p) - (k + 1) = c - k /\ (k + 1) - 1 = k
      BY <2>6
    <3>3. Tail(p)[k] = p[k + 1] /\ (k > 1 => Tail(p)[k - 1] = p[k])
      BY <2>7
    <3>4. k > 1 => k + 1 > 2
      OBVIOUS
    <3>5. QED
      BY <2>4, <3>2, <3>3, <3>4 DEF PoolOK
  <2>9. QED
    BY <2>2, <2>3, <2>5, <2>7, <2>8
<1>2. QED
  BY <1>1, TrainingInvariance, PTL
-----------------------------------------------------------------------------
(***************************************************************************)
(* RunLog: a combo the next launch skips is whole and of one training.     *)
(* Between the crashes the log keeps a shape: the rows of a combo are      *)
(* sorted by training and round, none has a hole before it, and none stands*)
(* behind a last round.  What is under way fits onto its end.              *)
(***************************************************************************)
Row == [combo : Combos, round : 1 .. RoundsPerRun, training : 1 .. trainings]

Records == [combo : Combos, round : 1 .. RoundsPerRun, training : Nat]
Lines == Records \union {Unreadable}

LogTypeOK ==
    /\ log \in Seq(Lines)
    /\ ended \in BOOLEAN /\ (~ended => log # <<>>)
    /\ process \in {"down", "up", "raised", "plotted"}
    /\ done \in SUBSET Combos /\ at \in 1 .. Len(Matrix) + 1
    /\ pending \in Seq(Records)
    /\ trainings \in Nat /\ crashes \in Nat

(* Where the training under way stands: its next record's round less one.   *)
Written == RoundsPerRun - Len(pending)

(* The records that wait are the rest of the latest training's history.     *)
PendingIsRest ==
    pending # <<>> =>
        /\ process = "up" /\ at <= Len(Matrix) /\ Matrix[at] \notin done
        /\ Written >= 0 /\ trainings > 0
        /\ \A i \in DOMAIN pending :
              pending[i] = [combo |-> Matrix[at], round |-> Written + i, training |-> trainings]

(* The rows of a combo are sorted by training and round. *)
Sorted ==
    \A m, n \in DOMAIN log :
        m < n /\ log[m].combo = log[n].combo =>
            \/ log[m].training < log[n].training
            \/ log[m].training = log[n].training /\ log[m].round < log[n].round

(* Before a row stand the rows of the rounds before it.                     *)
Prefixed ==
    \A n \in DOMAIN log : \A r \in 1 .. log[n].round :
        \E m \in DOMAIN log :
            m <= n /\ log[m] = [combo |-> log[n].combo, round |-> r, training |-> log[n].training]

(* After a last round no row of the combo follows.                          *)
Closed ==
    \A m, n \in DOMAIN log :
        log[m].round = RoundsPerRun /\ log[n].combo = log[m].combo => n <= m

(* The records of the training under way that do not wait are in the file.  *)
RestOfLogged ==
    pending # <<>> =>
        /\ \A r \in 1 .. Written :
              \E m \in DOMAIN log :
                  log[m] = [combo |-> Matrix[at], round |-> r, training |-> trainings]
        /\ \A m \in DOMAIN log :
              log[m].training = trainings => log[m].combo = Matrix[at] /\ log[m].round <= Written

(* What is still to be trained has no last round in the file.               *)
OpenAhead ==
    process = "up" =>
        \A k \in at .. Len(Matrix) : Matrix[k] \notin done =>
            \A n \in Rows(Matrix[k]) : log[n].round < RoundsPerRun

LogOK ==
    /\ \A n \in DOMAIN log : log[n] \in Row
    /\ Sorted /\ Prefixed /\ Closed /\ RestOfLogged /\ OpenAhead

LogInv == LogTypeOK /\ PendingIsRest /\ (Readable => LogOK)
-----------------------------------------------------------------------------
LEMMA MatrixFacts ==
    /\ Len(Matrix) \in Nat \ {0} /\ DOMAIN Matrix = 1 .. Len(Matrix)
    /\ \A k \in 1 .. Len(Matrix) : Matrix[k] \in Combos
    /\ \A k, l \in 1 .. Len(Matrix) : Matrix[k] = Matrix[l] => k = l
    /\ RoundsPerRun \in Nat \ {0}
<1>1. Matrix \in Seq(STRING) /\ Matrix # <<>> /\ RoundsPerRun \in Nat \ {0} /\ IsInjective(Matrix)
  BY RunLogAssumption
<1>2. Len(Matrix) \in Nat \ {0} /\ DOMAIN Matrix = 1 .. Len(Matrix)
  BY <1>1
<1>3. \A k, l \in 1 .. Len(Matrix) : Matrix[k] = Matrix[l] => k = l
  BY <1>1, <1>2 DEF IsInjective
<1>4. Combos = {Matrix[k] : k \in 1 .. Len(Matrix)}
  BY <1>2, Zenon DEF Combos, Range
<1> QED
  BY <1>1, <1>2, <1>3, <1>4

(* What one more line makes of the log. *)
LEMMA OneMoreLine ==
    ASSUME NEW row, log \in Seq(Lines),
           row \in Lines,
           log' = Append(log, row)
    PROVE  /\ Len(log) \in Nat /\ DOMAIN log = 1 .. Len(log)
           /\ DOMAIN log' = 1 .. Len(log) + 1 /\ log' # <<>>
           /\ log'[Len(log) + 1] = row
           /\ \A n \in DOMAIN log : log'[n] = log[n]
           /\ Readable' <=> (Readable /\ row # Unreadable)
           /\ log' \in Seq(Lines)
<1>1. /\ Len(log) \in Nat /\ DOMAIN log = 1 .. Len(log)
      /\ DOMAIN log' = 1 .. Len(log) + 1 /\ log' # <<>>
      /\ log'[Len(log) + 1] = row
      /\ \A n \in DOMAIN log : log'[n] = log[n]
      /\ log' \in Seq(Lines)
  OBVIOUS
<1>2. \A n \in DOMAIN log' : n \in DOMAIN log \/ n = Len(log) + 1
  BY <1>1
<1>3. Readable' <=> \A n \in DOMAIN log' : log'[n] # Unreadable
  BY DEF Readable, Unreadable
<1>4. DOMAIN log \subseteq DOMAIN log' /\ Len(log) + 1 \in DOMAIN log'
  BY <1>1
<1>5. Readable' <=> (Readable /\ row # Unreadable)
  BY <1>1, <1>2, <1>3, <1>4, Zenon DEF Readable
<1> QED
  BY <1>1, <1>5

(* The first record that waits. *)
LEMMA NextRecord ==
    ASSUME LogTypeOK, PendingIsRest, pending # <<>>
    PROVE  /\ Len(pending) \in 1 .. RoundsPerRun /\ Written \in 0 .. RoundsPerRun - 1
           /\ at \in 1 .. Len(Matrix) /\ trainings \in Nat \ {0}
           /\ Head(pending) = [combo |-> Matrix[at], round |-> Written + 1, training |-> trainings]
           /\ Head(pending) \in Row /\ Head(pending) # Unreadable
           /\ Head(pending) \in Lines
           /\ process = "up" /\ Matrix[at] \notin done
<1>1. Len(pending) \in Nat \ {0} /\ Head(pending) = pending[1] /\ 1 \in DOMAIN pending
  BY DEF LogTypeOK
<1>2. Written = RoundsPerRun - Len(pending) /\ Written >= 0 /\ trainings > 0 /\ trainings \in Nat
  BY DEF Written, PendingIsRest, LogTypeOK
<1>3. Len(pending) \in 1 .. RoundsPerRun /\ Written \in 0 .. RoundsPerRun - 1
  BY <1>1, <1>2, MatrixFacts
<1>4. at \in 1 .. Len(Matrix)
  BY MatrixFacts DEF LogTypeOK, PendingIsRest
<1>5. Head(pending) = [combo |-> Matrix[at], round |-> Written + 1, training |-> trainings]
  BY <1>1 DEF PendingIsRest
<1>6. Matrix[at] \in Combos
  BY <1>4, MatrixFacts
<1>7. Written + 1 \in 1 .. RoundsPerRun /\ trainings \in 1 .. trainings /\ Written + 1 # 0
  BY <1>2, <1>3, MatrixFacts
<1>8. Head(pending) \in Row
  BY <1>5, <1>6, <1>7 DEF Row
<1>9. Head(pending).round # 0
  BY <1>5, <1>7
<1>10. Head(pending) # Unreadable
  <2>1. Unreadable.round = 0
    BY DEF Unreadable
  <2> QED
    BY <1>9, <2>1
<1>11. Head(pending) \in Lines
  <2>1. [combo |-> Matrix[at], round |-> Written + 1, training |-> trainings] \in Records
    BY <1>2, <1>6, <1>7 DEF Records
  <2> QED
    BY <1>5, <2>1 DEF Lines
<1>12. process = "up" /\ Matrix[at] \notin done
  BY DEF PendingIsRest
<1> QED
  BY <1>2, <1>3, <1>4, <1>5, <1>8, <1>10, <1>11, <1>12

(* The next record of the training under way keeps the order of the log.    *)
LEMMA RecordKeepsOrder ==
    ASSUME LogTypeOK, PendingIsRest, pending # <<>>, LogOK,
           log' = Append(log, Head(pending)), trainings' = trainings
    PROVE  (\A n \in DOMAIN log : log[n] \in Row)' /\ Sorted' /\ Prefixed' /\ Closed'
<1> DEFINE last == Len(log) + 1
           row == Head(pending)
<1>1. /\ row = [combo |-> Matrix[at], round |-> Written + 1, training |-> trainings]
      /\ row \in Row /\ row \in Lines
      /\ Written \in 0 .. RoundsPerRun - 1 /\ at \in 1 .. Len(Matrix) /\ trainings \in Nat \ {0}
      /\ process = "up" /\ Matrix[at] \notin done
  BY NextRecord
<1>2. /\ Len(log) \in Nat /\ DOMAIN log = 1 .. Len(log)
      /\ DOMAIN log' = 1 .. last /\ log'[last] = row
      /\ \A n \in DOMAIN log : log'[n] = log[n]
  BY <1>1, OneMoreLine DEF LogTypeOK
<1>3. RoundsPerRun \in Nat \ {0}
  BY MatrixFacts
<1>r. row.combo = Matrix[at] /\ row.round = Written + 1 /\ row.training = trainings
  BY <1>1
<1> HIDE DEF row, last
<1>4. \A n \in DOMAIN log : n \in 1 .. Len(log) /\ n < last /\ n # last
  BY <1>2 DEF last
<1>5. \A n \in DOMAIN log' : n \in DOMAIN log \/ n = last
  BY <1>2 DEF last
<1>6. \A n \in DOMAIN log :
          /\ log[n].combo \in Combos /\ log[n].round \in 1 .. RoundsPerRun /\ log[n].training \in 1 .. trainings
          /\ log[n] \in Row
  BY DEF LogOK, Row
<1>7. \A n \in DOMAIN log : log[n].combo = Matrix[at] => log[n].round < RoundsPerRun
  <2>1. \A n \in Rows(Matrix[at]) : log[n].round < RoundsPerRun
    BY <1>1 DEF LogOK, OpenAhead
  <2> QED
    BY <2>1 DEF Rows
<1>8. \A n \in DOMAIN log : log[n].training = trainings => log[n].round <= Written
  BY DEF LogOK, RestOfLogged
<1>9. \A n \in DOMAIN log' : log'[n] \in Row
  BY <1>1, <1>2, <1>5, <1>6
<1>10. Row' = Row
  BY DEF Row
<1>11. Sorted'
  <2> SUFFICES ASSUME NEW m \in DOMAIN log', NEW n \in DOMAIN log',
                      m < n, log'[m].combo = log'[n].combo
               PROVE  \/ log'[m].training < log'[n].training
                      \/ log'[m].training = log'[n].training /\ log'[m].round < log'[n].round
    BY DEF Sorted
  <2>1. m \in DOMAIN log
    BY <1>2, <1>5 DEF last
  <2>2. CASE n \in DOMAIN log
    BY <1>2, <2>1, <2>2 DEF LogOK, Sorted
  <2>3. CASE n = last
    BY <1>1, <1>2, <1>6, <1>8, <1>r, <2>1, <2>3
  <2> QED
    BY <1>5, <2>2, <2>3
<1>12. Prefixed'
  <2> SUFFICES ASSUME NEW n \in DOMAIN log', NEW r \in 1 .. log'[n].round
               PROVE  \E m \in DOMAIN log' :
                         m <= n /\ log'[m] = [combo |-> log'[n].combo, round |-> r,
                                              training |-> log'[n].training]
    BY DEF Prefixed
  <2>1. CASE n \in DOMAIN log
    <3>1. PICK m \in DOMAIN log :
             m <= n /\ log[m] = [combo |-> log[n].combo, round |-> r, training |-> log[n].training]
      BY <1>2, <2>1 DEF LogOK, Prefixed
    <3>2. m \in DOMAIN log' /\ log'[m] = log[m] /\ log'[n] = log[n]
      BY <1>2, <2>1
    <3> QED
      BY <3>1, <3>2
  <2>2. CASE n = last /\ r <= Written
    <3>1. r \in 1 .. Written
      BY <1>1, <1>2, <1>r, <2>2
    <3>2. PICK m \in DOMAIN log : log[m] = [combo |-> Matrix[at], round |-> r, training |-> trainings]
      BY <3>1 DEF LogOK, RestOfLogged
    <3>3. m \in DOMAIN log' /\ log'[m] = log[m] /\ m <= last
      BY <1>2, <1>4 DEF last
    <3>4. log'[n].combo = Matrix[at] /\ log'[n].training = trainings
      BY <1>2, <1>r, <2>2
    <3> QED
      BY <2>2, <3>2, <3>3, <3>4
  <2>3. CASE n = last /\ ~(r <= Written)
    <3>1. r = Written + 1
      BY <1>1, <1>2, <1>r, <2>3
    <3>2. log'[n] = [combo |-> log'[n].combo, round |-> r, training |-> log'[n].training]
      BY <1>1, <1>2, <1>r, <2>3, <3>1
    <3>3. n <= n
      BY <1>2, <2>3
    <3> QED
      BY <3>2, <3>3
  <2> QED
    BY <1>5, <2>1, <2>2, <2>3
<1>13. Closed'
  <2> SUFFICES ASSUME NEW m \in DOMAIN log', NEW n \in DOMAIN log',
                      log'[m].round = RoundsPerRun, log'[n].combo = log'[m].combo
               PROVE  n <= m
    BY DEF Closed
  <2>1. CASE n = last /\ m \in DOMAIN log
    <3>1. log[m].combo = Matrix[at] /\ log[m].round = RoundsPerRun
      BY <1>2, <1>r, <2>1
    <3> QED
      BY <1>3, <1>6, <1>7, <2>1, <3>1
  <2>2. CASE m = last
    BY <1>2, <1>4, <1>5, <2>2 DEF last
  <2>3. CASE m \in DOMAIN log /\ n \in DOMAIN log
    BY <1>2, <2>3 DEF LogOK, Closed
  <2> QED
    BY <1>5, <2>1, <2>2, <2>3
<1> QED
  BY <1>9, <1>10, <1>11, <1>12, <1>13

(* A combo whose last round is in a readable log has all its rounds there,  *)
(* and only such a combo has.                                               *)
LEMMA DoneHasLastRound ==
    ASSUME LogTypeOK, LogOK, NEW c \in Combos
    PROVE  c \in DoneRuns <=> \E n \in Rows(c) : log[n].round = RoundsPerRun
<1> DEFINE logged == {log[n].round : n \in Rows(c)}
<1>1. RoundsPerRun \in Nat \ {0}
  BY MatrixFacts
<1>2. \A n \in Rows(c) : n \in DOMAIN log /\ log[n].combo = c /\ log[n].round \in 1 .. RoundsPerRun
  BY DEF Rows, LogOK, Row
<1>3. logged \subseteq 1 .. RoundsPerRun
  BY <1>2
<1>4. IsFiniteSet(1 .. RoundsPerRun) /\ Cardinality(1 .. RoundsPerRun) = RoundsPerRun
  BY <1>1, FS_Interval
<1>5. IsFiniteSet(logged) /\ Cardinality(logged) \in Nat /\ Cardinality(logged) <= RoundsPerRun
      /\ (Cardinality(logged) = RoundsPerRun => logged = 1 .. RoundsPerRun)
  <2> HIDE DEF logged
  <2> QED
    BY <1>3, <1>4, FS_Subset, FS_CardinalityType
<1>6. c \in DoneRuns <=> Cardinality(logged) >= RoundsPerRun
  BY Zenon DEF DoneRuns
<1>7. ASSUME NEW n \in Rows(c), log[n].round = RoundsPerRun PROVE logged = 1 .. RoundsPerRun
  <2>1. ASSUME NEW r \in 1 .. RoundsPerRun PROVE r \in logged
    <3>1. PICK m \in DOMAIN log : log[m] = [combo |-> log[n].combo, round |-> r, training |-> log[n].training]
      BY <1>2, <1>7 DEF LogOK, Prefixed
    <3>2. m \in Rows(c) /\ log[m].round = r
      BY <1>2, <3>1 DEF Rows
    <3> QED
      BY <3>2
  <2> QED
    BY <1>3, <2>1
<1>8. ASSUME logged = 1 .. RoundsPerRun PROVE \E n \in Rows(c) : log[n].round = RoundsPerRun
  <2>1. RoundsPerRun \in logged
    BY <1>1, <1>8
  <2> QED
    BY <2>1
<1> HIDE DEF logged
<1> QED
  BY <1>1, <1>4, <1>5, <1>6, <1>7, <1>8

-----------------------------------------------------------------------------
LEMMA LogInitOK == LogInit => LogInv
<1> SUFFICES ASSUME LogInit PROVE LogInv
  OBVIOUS
<1>1. /\ log = <<>> /\ ended = TRUE /\ process = "down" /\ done = {}
      /\ at = 1 /\ pending = <<>> /\ trainings = 0 /\ crashes = 0
  BY DEF LogInit
<1>2. LogTypeOK
  BY <1>1, MatrixFacts DEF LogTypeOK
<1>3. DOMAIN log = {}
  BY <1>1
<1>4. LogOK
  BY <1>1, <1>3 DEF LogOK, Sorted, Prefixed, Closed, RestOfLogged, OpenAhead
<1> QED
  BY <1>1, <1>2, <1>4 DEF LogInv, PendingIsRest

(* What a step that writes nothing keeps: the log, and what it says.        *)
LEMMA SameLog ==
    ASSUME log' = log, trainings' = trainings \/ trainings' = trainings + 1, LogTypeOK
    PROVE  /\ Readable' <=> Readable
           /\ LogOK => (\A n \in DOMAIN log : log[n] \in Row)' /\ Sorted' /\ Prefixed' /\ Closed'
           /\ \A c : Rows(c)' = Rows(c)
<1>1. Readable' <=> Readable
  BY DEF Readable, Unreadable
<1>2. Sorted' <=> Sorted
  BY DEF Sorted
<1>3. Prefixed' <=> Prefixed
  BY DEF Prefixed
<1>4. Closed' <=> Closed
  BY DEF Closed
<1>5. 1 .. trainings \subseteq 1 .. trainings'
  BY DEF LogTypeOK
<1>6. Row \subseteq Row'
  BY <1>5 DEF Row
<1>7. (\A n \in DOMAIN log : log[n] \in Row) => (\A n \in DOMAIN log : log[n] \in Row)'
  BY <1>6
<1>8. \A c : Rows(c)' = Rows(c)
  BY DEF Rows
<1> QED
  BY <1>1, <1>2, <1>3, <1>4, <1>7, <1>8 DEF LogOK

LEMMA LaunchKeeps == LogInv /\ Launch => LogInv'
<1> SUFFICES ASSUME LogInv, Launch PROVE LogInv'
  OBVIOUS
<1>1. /\ process = "down" /\ UNCHANGED <<log, ended, pending, trainings, crashes>>
      /\ LogTypeOK /\ PendingIsRest /\ pending = <<>>
  BY DEF Launch, LogInv, PendingIsRest
<1>2. LogTypeOK'
  <2>1. DoneRuns \subseteq Combos
    BY Zenon DEF DoneRuns
  <2>2. process' \in {"up", "raised"} /\ done' \in {done, DoneRuns} /\ at' \in {at, 1}
    BY DEF Launch
  <2>3. 1 \in 1 .. Len(Matrix) + 1
    BY MatrixFacts
  <2>4. at' \in 1 .. Len(Matrix) + 1
    BY <1>1, <2>2, <2>3 DEF LogTypeOK
  <2>5. done' \in SUBSET Combos
    BY <1>1, <2>1, <2>2 DEF LogTypeOK
  <2> QED
    BY <1>1, <2>2, <2>4, <2>5 DEF LogTypeOK
<1>3. PendingIsRest'
  BY <1>1 DEF PendingIsRest
<1>4. ASSUME Readable' PROVE LogOK'
  <2>1. Readable /\ LogOK
    BY <1>1, <1>4, SameLog DEF LogInv
  <2>2. process' = "up" /\ done' = DoneRuns /\ at' = 1
    BY <2>1 DEF Launch
  <2>3. OpenAhead'
    <3> SUFFICES ASSUME NEW k \in 1 .. Len(Matrix), Matrix[k] \notin DoneRuns,
                        NEW n \in Rows(Matrix[k])
                 PROVE  log[n].round < RoundsPerRun
      BY <1>1, <2>2, SameLog DEF OpenAhead
    <3>1. Matrix[k] \in Combos
      BY MatrixFacts
    <3>2. log[n].round # RoundsPerRun
      BY <1>1, <2>1, <3>1, DoneHasLastRound
    <3>3. log[n].round \in 1 .. RoundsPerRun /\ RoundsPerRun \in Nat
      BY <2>1, MatrixFacts DEF Rows, LogOK, Row
    <3> QED
      BY <3>2, <3>3
  <2>4. RestOfLogged'
    BY <1>1 DEF RestOfLogged
  <2> QED
    BY <1>1, <2>1, <2>3, <2>4, SameLog DEF LogOK
<1> QED
  BY <1>2, <1>3, <1>4 DEF LogInv

LEMMA SkipKeeps == LogInv /\ Skip => LogInv'
<1> SUFFICES ASSUME LogInv, Skip PROVE LogInv'
  OBVIOUS
<1>1. /\ process = "up" /\ at <= Len(Matrix) /\ pending = <<>> /\ at' = at + 1
      /\ UNCHANGED <<log, ended, process, done, pending, trainings, crashes>>
      /\ LogTypeOK /\ at \in 1 .. Len(Matrix)
  BY MatrixFacts DEF Skip, Busy, LogInv, LogTypeOK
<1>2. LogTypeOK'
  BY <1>1, MatrixFacts DEF LogTypeOK
<1>3. PendingIsRest' /\ RestOfLogged'
  BY <1>1 DEF PendingIsRest, RestOfLogged
<1>4. ASSUME Readable' PROVE LogOK'
  <2>1. Readable /\ LogOK
    BY <1>1, <1>4, SameLog DEF LogInv
  <2>2. OpenAhead'
    <3>1. \A k \in at + 1 .. Len(Matrix) : k \in at .. Len(Matrix)
      BY <1>1, MatrixFacts
    <3> QED
      BY <1>1, <2>1, <3>1, SameLog DEF LogOK, OpenAhead
  <2> QED
    BY <1>1, <1>3, <2>1, <2>2, SameLog DEF LogOK
<1> QED
  BY <1>2, <1>3, <1>4 DEF LogInv

LEMMA TrainKeeps == LogInv /\ Train => LogInv'
<1> SUFFICES ASSUME LogInv, Train PROVE LogInv'
  OBVIOUS
<1>1. /\ process = "up" /\ at <= Len(Matrix) /\ pending = <<>> /\ Matrix[at] \notin done
      /\ trainings' = trainings + 1 /\ pending' = History(Matrix[at], trainings + 1)
      /\ UNCHANGED <<log, ended, process, done, at, crashes>>
      /\ LogTypeOK /\ at \in 1 .. Len(Matrix) /\ trainings \in Nat
  BY MatrixFacts DEF Train, Busy, LogInv, LogTypeOK
<1>2. Matrix[at] \in Combos /\ RoundsPerRun \in Nat \ {0}
  BY <1>1, MatrixFacts
<1>3. /\ pending' = [r \in 1 .. RoundsPerRun |-> [combo |-> Matrix[at], round |-> r, training |-> trainings']]
  BY <1>1 DEF History
<1>4. /\ pending' \in Seq(Records)
      /\ Len(pending') = RoundsPerRun /\ DOMAIN pending' = 1 .. RoundsPerRun
  <2>1. \A r \in 1 .. RoundsPerRun : [combo |-> Matrix[at], round |-> r, training |-> trainings']
                                  \in Records
    BY <1>1, <1>2 DEF Records
  <2>2. pending' \in [1 .. RoundsPerRun -> Records]
    BY <1>3, <2>1, Zenon
  <2> QED
    BY <1>2, <2>2
<1>5. LogTypeOK'
  BY <1>1, <1>4 DEF LogTypeOK
<1>6. Written' = 0
  BY <1>2, <1>4 DEF Written
<1>7. PendingIsRest'
  <2>1. \A i \in 1 .. RoundsPerRun :
          pending'[i] = [combo |-> Matrix[at], round |-> 0 + i, training |-> trainings']
    BY <1>3
  <2>2. trainings' > 0
    BY <1>1
  <2> QED
    BY <1>1, <1>4, <1>6, <2>1, <2>2 DEF PendingIsRest
<1>8. ASSUME Readable' PROVE LogOK'
  <2>1. Readable /\ LogOK
    BY <1>1, <1>8, SameLog DEF LogInv
  <2>2. OpenAhead'
    BY <1>1, <2>1, SameLog DEF LogOK, OpenAhead
  <2>3. RestOfLogged'
    <3>1. 1 .. 0 = {}
      OBVIOUS
    <3>2. \A n \in DOMAIN log : log[n].training # trainings'
      BY <1>1, <2>1 DEF LogOK, Row
    <3> QED
      BY <1>1, <1>6, <3>1, <3>2 DEF RestOfLogged
  <2> QED
    BY <1>1, <2>1, <2>2, <2>3, SameLog DEF LogOK
<1> QED
  BY <1>5, <1>7, <1>8 DEF LogInv

LEMMA PlotKeeps == LogInv /\ Plot => LogInv'
<1> SUFFICES ASSUME LogInv, Plot PROVE LogInv'
  OBVIOUS
<1>1. /\ process = "up" /\ at > Len(Matrix) /\ process' \in {"plotted", "raised"}
      /\ UNCHANGED <<log, ended, done, at, pending, trainings, crashes>>
      /\ LogTypeOK /\ PendingIsRest
  BY DEF Plot, LogInv
<1>2. pending = <<>>
  BY <1>1, MatrixFacts DEF PendingIsRest, LogTypeOK
<1>3. LogTypeOK'
  BY <1>1 DEF LogTypeOK
<1>4. PendingIsRest' /\ RestOfLogged' /\ OpenAhead'
  BY <1>1, <1>2 DEF PendingIsRest, RestOfLogged, OpenAhead
<1>5. ASSUME Readable' PROVE LogOK'
  BY <1>1, <1>4, <1>5, SameLog DEF LogInv, LogOK
<1> QED
  BY <1>3, <1>4, <1>5 DEF LogInv

LEMMA DeleteKeeps == LogInv /\ DeleteLog => LogInv'
<1> SUFFICES ASSUME LogInv, DeleteLog PROVE LogInv'
  OBVIOUS
<1>1. /\ process = "raised" /\ log' = <<>> /\ ended' = TRUE /\ process' = "down"
      /\ UNCHANGED <<done, at, pending, trainings, crashes>>
      /\ LogTypeOK /\ PendingIsRest
  BY DEF DeleteLog, LogInv
<1>2. pending = <<>>
  BY <1>1 DEF PendingIsRest
<1>3. LogTypeOK'
  BY <1>1 DEF LogTypeOK
<1>4. DOMAIN log' = {}
  BY <1>1
<1>5. PendingIsRest' /\ LogOK'
  BY <1>1, <1>2, <1>4 DEF PendingIsRest, LogOK, Sorted, Prefixed, Closed, RestOfLogged, OpenAhead
<1> QED
  BY <1>3, <1>5 DEF LogInv

(* Written onto a line without its newline, nothing can be read any more.   *)
LEMMA JoinedUnreadable ==
    ASSUME LogTypeOK, ~ended, log' = Joined
    PROVE  log' \in Seq(Lines) /\ log' # <<>> /\ ~Readable'
<1>1. log' = [log EXCEPT ![Len(log)] = Unreadable] /\ log # <<>> /\ log \in Seq(Lines)
  BY DEF LogTypeOK, Joined
<1>2. Len(log) \in Nat /\ log \in [1 .. Len(log) -> Lines] /\ Len(log) \in DOMAIN log
  BY <1>1
<1>3. Unreadable \in Lines
  BY DEF Lines
<1>4. log' \in [1 .. Len(log) -> Lines]
  BY <1>1, <1>2, <1>3, Zenon
<1>5. Len(log) \in DOMAIN log' /\ log'[Len(log)] = Unreadable
  BY <1>1, <1>2
<1>6. ~Readable'
  BY <1>5 DEF Readable, Unreadable
<1> QED
  BY <1>2, <1>4, <1>5, <1>6

LEMMA AppendKeeps == LogInv /\ AppendRecord => LogInv'
<1> SUFFICES ASSUME LogInv, AppendRecord PROVE LogInv'
  OBVIOUS
<1>1. /\ pending # <<>> /\ ended' = TRUE /\ pending' = Tail(pending)
      /\ at' = (IF Len(pending) = 1 THEN at + 1 ELSE at)
      /\ UNCHANGED <<process, done, trainings, crashes>>
      /\ LogTypeOK /\ PendingIsRest
  BY DEF AppendRecord, LogInv
<1>2. /\ Len(pending) \in 1 .. RoundsPerRun /\ Written \in 0 .. RoundsPerRun - 1
      /\ at \in 1 .. Len(Matrix) /\ trainings \in Nat \ {0}
      /\ Head(pending) = [combo |-> Matrix[at], round |-> Written + 1, training |-> trainings]
      /\ Head(pending) \in Row /\ Head(pending) # Unreadable
      /\ Head(pending) \in Lines
      /\ process = "up" /\ Matrix[at] \notin done
  BY <1>1, NextRecord
<1>3. /\ pending' \in Seq(Records)
      /\ Len(pending') = Len(pending) - 1 /\ DOMAIN pending' = 1 .. Len(pending) - 1
      /\ \A i \in 1 .. Len(pending) - 1 : pending'[i] = pending[i + 1] /\ i + 1 \in DOMAIN pending
  BY <1>1 DEF LogTypeOK
<1>4. RoundsPerRun \in Nat \ {0} /\ Len(Matrix) \in Nat
  BY MatrixFacts
<1>5. Written' = Written + 1
  BY <1>2, <1>3, <1>4 DEF Written
<1>6. log' \in Seq(Lines)
  <2>1. CASE ended
    BY <1>1, <1>2, <2>1, OneMoreLine DEF AppendRecord, LogTypeOK
  <2>2. CASE ~ended
    BY <1>1, <2>2, JoinedUnreadable DEF AppendRecord
  <2> QED
    BY <2>1, <2>2
<1>7. LogTypeOK'
  <2>1. at' \in 1 .. Len(Matrix) + 1
    BY <1>1, <1>2, <1>4
  <2> QED
    BY <1>1, <1>3, <1>6, <2>1 DEF LogTypeOK
<1>8. PendingIsRest'
  <2> SUFFICES ASSUME pending' # <<>>
               PROVE  /\ process' = "up" /\ at' <= Len(Matrix) /\ Matrix[at'] \notin done'
                      /\ Written' >= 0 /\ trainings' > 0
                      /\ \A i \in DOMAIN pending' :
                            pending'[i] = [combo |-> Matrix[at'], round |-> Written' + i,
                                           training |-> trainings']
    BY DEF PendingIsRest
  <2>1. Len(pending') # 0
    BY <1>3
  <2>4. Len(pending) # 1
    BY <1>2, <1>3, <2>1
  <2>2. at' = at
    BY <1>1, <2>4
  <2>3. ASSUME NEW i \in DOMAIN pending'
        PROVE  pending'[i] = [combo |-> Matrix[at'], round |-> Written' + i, training |-> trainings']
    <3>1. i \in 1 .. Len(pending) - 1 /\ pending'[i] = pending[i + 1] /\ i + 1 \in DOMAIN pending
      BY <1>3
    <3>2. pending[i + 1] = [combo |-> Matrix[at], round |-> Written + (i + 1), training |-> trainings]
      BY <1>1, <3>1 DEF PendingIsRest
    <3>3. Written + (i + 1) = Written' + i
      BY <1>2, <1>5, <3>1
    <3> QED
      BY <1>1, <2>2, <3>1, <3>2, <3>3
  <2> QED
    BY <1>1, <1>2, <1>4, <1>5, <2>2, <2>3
<1>9. ASSUME Readable' PROVE LogOK'
  <2>1. ended
    <3>1. ended \in BOOLEAN /\ (~ended => log' = Joined)
      BY <1>1 DEF AppendRecord, LogTypeOK
    <3> QED
      BY <1>1, <1>9, <3>1, JoinedUnreadable
  <2>2. log' = Append(log, Head(pending))
    BY <2>1 DEF AppendRecord
  <2>3. /\ Len(log) \in Nat /\ DOMAIN log = 1 .. Len(log)
        /\ DOMAIN log' = 1 .. Len(log) + 1
        /\ log'[Len(log) + 1] = Head(pending)
        /\ \A n \in DOMAIN log : log'[n] = log[n]
        /\ Readable
    BY <1>1, <1>2, <1>9, <2>2, OneMoreLine DEF LogTypeOK
  <2>4. LogOK
    BY <2>3 DEF LogInv
  <2>5. (\A n \in DOMAIN log : log[n] \in Row)' /\ Sorted' /\ Prefixed' /\ Closed'
    BY <1>1, <2>2, <2>4, RecordKeepsOrder
  <2>6. \A n \in DOMAIN log' : n \in DOMAIN log \/ n = Len(log) + 1
    BY <2>3
  <2>7. RestOfLogged'
    <3> SUFFICES ASSUME pending' # <<>>
                 PROVE  /\ \A r \in 1 .. Written' :
                             \E m \in DOMAIN log' :
                                 log'[m] = [combo |-> Matrix[at'], round |-> r, training |-> trainings']
                        /\ \A m \in DOMAIN log' : log'[m].training = trainings' =>
                               log'[m].combo = Matrix[at'] /\ log'[m].round <= Written'
      BY DEF RestOfLogged
    <3>1. at' = at /\ trainings' = trainings
      BY <1>1, <1>3
    <3>2. ASSUME NEW r \in 1 .. Written'
          PROVE  \E m \in DOMAIN log' : log'[m] = [combo |-> Matrix[at], round |-> r, training |-> trainings]
      <4>1. CASE r = Written + 1
        <5>1. Len(log) + 1 \in DOMAIN log'
          BY <2>3
        <5> QED
          BY <1>2, <2>3, <4>1, <5>1
      <4>2. CASE r \in 1 .. Written
        <5>1. PICK m \in DOMAIN log : log[m] = [combo |-> Matrix[at], round |-> r, training |-> trainings]
          BY <1>1, <2>4, <4>2 DEF LogOK, RestOfLogged
        <5>2. m \in DOMAIN log' /\ log'[m] = log[m]
          BY <2>3
        <5> QED
          BY <5>1, <5>2
      <4> QED
        BY <1>2, <1>5, <4>1, <4>2
    <3>3. ASSUME NEW m \in DOMAIN log', log'[m].training = trainings
          PROVE  log'[m].combo = Matrix[at] /\ log'[m].round <= Written + 1
      <4>1. CASE m = Len(log) + 1
        BY <1>2, <2>3, <4>1
      <4>2. CASE m \in DOMAIN log
        <5>1. log[m].combo = Matrix[at] /\ log[m].round <= Written /\ log[m].round \in 1 .. RoundsPerRun
          BY <1>1, <2>3, <2>4, <3>3, <4>2 DEF LogOK, RestOfLogged, Row
        <5> QED
          BY <1>2, <2>3, <4>2, <5>1
      <4> QED
        BY <2>6, <4>1, <4>2
    <3> QED
      BY <1>5, <3>1, <3>2, <3>3
  <2>8. OpenAhead'
    <3> SUFFICES ASSUME NEW k \in at' .. Len(Matrix), Matrix[k] \notin done,
                        NEW n \in DOMAIN log', log'[n].combo = Matrix[k]
                 PROVE  log'[n].round < RoundsPerRun
      BY <1>1 DEF OpenAhead, Rows
    <3>1. k \in at .. Len(Matrix) /\ k \in 1 .. Len(Matrix) /\ (Len(pending) = 1 => k # at)
      BY <1>1, <1>2, <1>4
    <3>2. CASE n \in DOMAIN log
      <4>1. n \in Rows(Matrix[k])
        BY <2>3, <3>2 DEF Rows
      <4> QED
        BY <1>2, <2>3, <2>4, <3>1, <3>2, <4>1 DEF LogOK, OpenAhead
    <3>3. CASE n = Len(log) + 1
      <4>1. Matrix[k] = Matrix[at]
        BY <1>2, <2>3, <3>3
      <4>2. k = at
        BY <1>2, <3>1, <4>1, MatrixFacts
      <4>3. Len(pending) # 1
        BY <3>1, <4>2
      <4>4. log'[n].round = Written + 1
        BY <1>2, <2>3, <3>3
      <4>5. Written = RoundsPerRun - Len(pending)
        BY DEF Written
      <4>6. Written + 1 < RoundsPerRun
        <5>1. PICK left \in 1 .. RoundsPerRun : left = Len(pending)
          BY <1>2
        <5>2. left > 1
          BY <4>3, <5>1
        <5>3. RoundsPerRun - left + 1 < RoundsPerRun
          BY <1>4, <5>2
        <5> QED
          BY <4>5, <5>1, <5>3
      <4> QED
        BY <4>4, <4>6
    <3> QED
      BY <2>6, <3>2, <3>3
  <2> QED
    BY <2>5, <2>7, <2>8 DEF LogOK
<1> QED
  BY <1>7, <1>8, <1>9 DEF LogInv

LEMMA CrashKeeps == LogInv /\ Crash => LogInv'
<1> SUFFICES ASSUME LogInv, Crash PROVE LogInv'
  OBVIOUS
<1>1. /\ process = "up" /\ crashes' = crashes + 1 /\ process' = "down" /\ pending' = <<>>
      /\ UNCHANGED <<done, at, trainings>> /\ LogTypeOK /\ PendingIsRest
  BY DEF Crash, LogInv
<1>2. PendingIsRest' /\ RestOfLogged' /\ OpenAhead'
  BY <1>1 DEF PendingIsRest, RestOfLogged, OpenAhead
<1>3. CASE UNCHANGED <<log, ended>>
  <2>1. LogTypeOK'
    BY <1>1, <1>3 DEF LogTypeOK
  <2>2. ASSUME Readable' PROVE LogOK'
    BY <1>1, <1>2, <1>3, <2>2, SameLog DEF LogInv, LogOK
  <2> QED
    BY <1>2, <2>1, <2>2 DEF LogInv
<1>4. ASSUME pending # <<>>, ended, ended' = FALSE,
             NEW row \in {Unreadable, Head(pending)}, log' = Append(log, row)
      PROVE  LogInv'
  <2>1. Head(pending) \in Lines
    BY <1>1, <1>4, NextRecord
  <2>2. Unreadable \in Lines
    BY DEF Lines
  <2>3. row \in Lines
    BY <2>1, <2>2
  <2>4. /\ log' # <<>>
        /\ Readable' <=> (Readable /\ row # Unreadable)
        /\ log' \in Seq(Lines)
    BY <1>1, <1>4, <2>3, OneMoreLine DEF LogTypeOK
  <2>5. LogTypeOK'
    <3>1. ended' \in BOOLEAN /\ (~ended' => log' # <<>>)
      BY <1>4, <2>4
    <3>2. pending' \in Seq(Records) /\ crashes' \in Nat /\ trainings' \in Nat
      BY <1>1 DEF LogTypeOK
    <3> QED
      BY <1>1, <2>4, <3>1, <3>2 DEF LogTypeOK
  <2>6. ASSUME Readable' PROVE LogOK'
    <3>1. Readable /\ row = Head(pending)
      BY <2>4, <2>6
    <3>2. (\A n \in DOMAIN log : log[n] \in Row)' /\ Sorted' /\ Prefixed' /\ Closed'
      BY <1>1, <1>4, <3>1, RecordKeepsOrder DEF LogInv
    <3> QED
      BY <1>2, <3>2 DEF LogOK
  <2> QED
    BY <1>2, <2>5, <2>6 DEF LogInv
<1>5. ASSUME ~ended, ended' = FALSE, log' = Joined PROVE LogInv'
  <2>1. log' \in Seq(Lines) /\ log' # <<>> /\ ~Readable'
    BY <1>1, <1>5, JoinedUnreadable
  <2>2. LogTypeOK'
    <3>1. ended' \in BOOLEAN /\ (~ended' => log' # <<>>)
      BY <1>5, <2>1
    <3>2. pending' \in Seq(Records) /\ crashes' \in Nat /\ trainings' \in Nat
      BY <1>1 DEF LogTypeOK
    <3> QED
      BY <1>1, <2>1, <3>1, <3>2 DEF LogTypeOK
  <2> QED
    BY <1>2, <2>1, <2>2 DEF LogInv
<1> QED
  BY <1>1, <1>3, <1>4, <1>5 DEF Crash, LogTypeOK

LEMMA LogStepOK == LogInv /\ [LogNext]_logVars => LogInv'
<1>1. LogInv /\ UNCHANGED logVars => LogInv'
  <2> SUFFICES ASSUME LogInv, UNCHANGED logVars PROVE LogInv'
    OBVIOUS
  <2>1. UNCHANGED <<log, ended, process, done, at, pending, trainings, crashes>>
    BY DEF logVars
  <2>2. LogTypeOK' /\ PendingIsRest' /\ (RestOfLogged => RestOfLogged') /\ (OpenAhead => OpenAhead')
    BY <2>1 DEF LogInv, LogTypeOK, PendingIsRest, RestOfLogged, OpenAhead, Written, Rows
  <2> QED
    BY <2>1, <2>2, SameLog DEF LogInv, LogOK
<1> QED
  BY <1>1, LaunchKeeps, SkipKeeps, TrainKeeps, PlotKeeps, DeleteKeeps, AppendKeeps, CrashKeeps
     DEF LogNext, LogStep, Stopped

(* The inductive invariant holds for any matrix, any number of rounds and   *)
(* any crashes.                                                             *)
THEOREM LogInvariance == LogSpec => []LogInv
BY LogInitOK, LogStepOK, PTL DEF LogSpec

(* A readable log in which the last round of a combo stands answers for one *)
(* training.                                                                *)
LEMMA SortedIsOneTraining == LogInv => CompleteIsOneTraining
<1> SUFFICES ASSUME LogInv, Readable, NEW c \in DoneRuns
             PROVE  /\ {row.round : row \in Loaded(c)} = 1 .. RoundsPerRun
                    /\ Cardinality({row.training : row \in Loaded(c)}) = 1
  BY DEF CompleteIsOneTraining
<1>1. LogTypeOK /\ LogOK /\ c \in Combos /\ RoundsPerRun \in Nat \ {0}
  BY MatrixFacts, Zenon DEF LogInv, DoneRuns
<1>2. PICK last \in Rows(c) : log[last].round = RoundsPerRun
  BY <1>1, DoneHasLastRound
<1>3. \A n \in Rows(c) :
         /\ n \in DOMAIN log /\ n \in Nat /\ log[n].combo = c
         /\ log[n].round \in 1 .. RoundsPerRun /\ log[n].training \in Nat
  <2>1. DOMAIN log \subseteq Nat
    BY <1>1 DEF LogTypeOK
  <2> QED
    BY <1>1, <2>1 DEF Rows, LogOK, Row
<1>4. \A n \in Rows(c) : n <= last
  BY <1>1, <1>2, <1>3 DEF LogOK, Closed
(* The row of the last training for a round is the last row for the round.  *)
<1>5. ASSUME NEW r \in 1 .. RoundsPerRun
      PROVE  \E m \in Rows(c) :
                /\ log[m].round = r /\ log[m].training = log[last].training
                /\ \A j \in Rows(c) : log[j].round = r => j <= m
  <2>1. PICK m \in DOMAIN log :
           m <= last /\ log[m] = [combo |-> c, round |-> r, training |-> log[last].training]
    BY <1>1, <1>2, <1>3 DEF LogOK, Prefixed
  <2>2. m \in Rows(c) /\ log[m].round = r /\ log[m].training = log[last].training
    BY <2>1 DEF Rows
  <2>3. ASSUME NEW j \in Rows(c), log[j].round = r PROVE j <= m
    <3> SUFFICES ASSUME m < j PROVE FALSE
      BY <1>3, <2>2
    <3>1. log[m].training < log[j].training
      BY <1>1, <1>3, <2>2, <2>3 DEF LogOK, Sorted
    <3>2. j = last \/ j < last
      BY <1>3, <1>4
    <3>3. log[j].training <= log[last].training
      BY <1>1, <1>2, <1>3, <3>2 DEF LogOK, Sorted
    <3> QED
      BY <1>2, <1>3, <2>2, <3>1, <3>3
  <2> QED
    BY <2>2, <2>3
<1>6. ASSUME NEW row \in Loaded(c)
      PROVE  row.round \in 1 .. RoundsPerRun /\ row.training = log[last].training
  <2>1. PICK i \in Rows(c) : row = log[i] /\ \A j \in Rows(c) : log[j].round = log[i].round => j <= i
    BY Zenon DEF Loaded
  <2>2. log[i].round \in 1 .. RoundsPerRun
    BY <1>3
  <2>3. PICK m \in Rows(c) : /\ log[m].round = log[i].round /\ log[m].training = log[last].training
                             /\ \A j \in Rows(c) : log[j].round = log[i].round => j <= m
    BY <1>5, <2>2
  <2>4. m = i
    BY <1>3, <2>1, <2>3
  <2> QED
    BY <2>1, <2>2, <2>3, <2>4
<1>7. ASSUME NEW r \in 1 .. RoundsPerRun
      PROVE  \E row \in Loaded(c) : row.round = r
  <2>1. PICK m \in Rows(c) : log[m].round = r /\ \A j \in Rows(c) : log[j].round = r => j <= m
    BY <1>5
  <2>2. log[m] \in Loaded(c)
    BY <2>1, Zenon DEF Loaded
  <2> QED
    BY <2>1, <2>2
<1>8. {row.round : row \in Loaded(c)} = 1 .. RoundsPerRun
  BY <1>6, <1>7
<1>9. {row.training : row \in Loaded(c)} = {log[last].training}
  <2>1. 1 \in 1 .. RoundsPerRun
    BY <1>1
  <2>2. PICK row \in Loaded(c) : row.round = 1
    BY <1>7, <2>1
  <2> QED
    BY <1>6, <2>2
<1> QED
  BY <1>8, <1>9, FS_Singleton

(* Whatever crashed and when, a combo the next launch will skip is whole and*)
(* of one training in the figures, as long as the log can be read at all.   *)
THEOREM SkippedIsWhole == LogSpec => []CompleteIsOneTraining
BY LogInvariance, SortedIsOneTraining, PTL
=============================================================================
