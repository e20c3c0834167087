----------------------------- MODULE PlayProofs -----------------------------
(***************************************************************************)
(* Theorems about what is played in the environment: the return of Rewards *)
(* for every discount and every team, and the sub-games of PolicyPlay for  *)
(* every board, budget and view.                                           *)
(***************************************************************************)
EXTENDS PolicyPlay, Rewards, CopsRobbersProofs

(* Induction up to a bound, over the set of the numbers that are good.      *)
LEMMA UpTo ==
    ASSUME NEW N \in Nat, NEW Good, 0 \in Good, \A k \in 1 .. N : k - 1 \in Good => k \in Good
    PROVE  \A k \in 0 .. N : k \in Good
<1> DEFINE Bad == {k \in 0 .. N : k \notin Good}
<1>1. SUFFICES ASSUME Bad # {} PROVE FALSE
  OBVIOUS
<1>2. Bad \subseteq Nat
  OBVIOUS
<1>3. PICK k \in Bad : \A j \in Bad : ~ (<<j, k>> \in OpToRel(<, Nat))
  <2> HIDE DEF Bad
  <2>1. QED
    BY <1>1, <1>2, NatLessThanWellFounded, WFMin
<1>4. k \in 1 .. N /\ k - 1 \in 0 .. N /\ k - 1 < k /\ k - 1 \in Nat
  <2>1. k \in 0 .. N /\ k # 0
    OBVIOUS
  <2>2. QED
    BY <2>1
<1>5. k - 1 \notin Bad
  <2> HIDE DEF Bad
  <2>1. QED
    BY <1>2, <1>3, <1>4 DEF OpToRel
<1>6. QED
  BY <1>3, <1>4, <1>5

(* A set of numbers that is not empty has a least one. *)
LEMMA LeastNumber ==
    ASSUME NEW T \in SUBSET Nat, T # {}
    PROVE  \E n \in T : \A m \in T : n <= m
<1>1. PICK n \in T : \A m \in T : ~ (<<m, n>> \in OpToRel(<, Nat))
  BY NatLessThanWellFounded, WFMin
<1>2. \A m \in T : ~ (m < n)
  BY <1>1 DEF OpToRel
<1>3. QED
  BY <1>2

LEMMA MinOfNumbers ==
    ASSUME NEW T \in SUBSET Nat, T # {}
    PROVE  Min(T) \in T /\ \A m \in T : Min(T) <= m
BY LeastNumber DEF Min

(* What a recursion over 0 .. N goes through: op takes it  from k - 1 to k.*)
Follows(g, N, base, op) ==
    g = [k \in 0 .. N |-> IF k = 0 THEN base ELSE op[k][g[k - 1]]]

(* There is such a g for every N: of a least N without one, N - 1 has one.  *)
LEMMA RecursionExists ==
    ASSUME NEW N \in Nat, NEW base, NEW op
    PROVE  \E g : Follows(g, N, base, op)
<1> DEFINE Good == {m \in Nat : \E g : Follows(g, m, base, op)}
<1>1. 0 \in Good
  <2> DEFINE g == [k \in 0 .. 0 |-> base]
  <2>1. g = [k \in 0 .. 0 |-> IF k = 0 THEN base ELSE op[k][g[k - 1]]]
    OBVIOUS
  <2>2. Follows(g, 0, base, op)
    BY <2>1 DEF Follows
  <2>3. QED
    BY <2>2
<1>2. ASSUME NEW m \in 1 .. N, m - 1 \in Good PROVE m \in Good
  <2>1. PICK h : Follows(h, m - 1, base, op)
    BY <1>2
  <2>2. h = [k \in 0 .. m - 1 |-> IF k = 0 THEN base ELSE op[k][h[k - 1]]]
    BY <2>1 DEF Follows
  <2> DEFINE g == [k \in 0 .. m |-> IF k = m THEN op[m][h[m - 1]] ELSE h[k]]
  <2>3. \A k \in 0 .. m : g[k] = IF k = 0 THEN base ELSE op[k][g[k - 1]]
    <3>1. TAKE k \in 0 .. m
    <3>2. CASE k = 0
      <4>1. 0 \in 0 .. m - 1 /\ m # 0
        OBVIOUS
      <4>2. QED
        BY <2>2, <3>2, <4>1
    <3>3. CASE k = m
      <4>1. g[m] = op[m][h[m - 1]] /\ g[m - 1] = h[m - 1]
        OBVIOUS
      <4>2. QED
        BY <3>3, <4>1
    <3>4. CASE k # 0 /\ k # m
      <4>1. k \in 0 .. m - 1 /\ k - 1 \in 0 .. m - 1 /\ k - 1 \in 0 .. m /\ k - 1 # m
        BY <3>4
      <4>2. g[k] = h[k] /\ g[k - 1] = h[k - 1]
        BY <3>4, <4>1
      <4>3. h[k] = op[k][h[k - 1]]
        BY <2>2, <3>4, <4>1
      <4>4. QED
        BY <3>4, <4>2, <4>3
    <3>5. QED
      BY <3>2, <3>3, <3>4
  <2>4. Follows(g, m, base, op)
    <3>1. g = [k \in 0 .. m |-> g[k]]
      OBVIOUS
    <3> HIDE DEF g
    <3>2. g = [k \in 0 .. m |-> IF k = 0 THEN base ELSE op[k][g[k - 1]]]
      BY <2>3, <3>1, Zenon
    <3>3. QED
      BY <3>2 DEF Follows
  <2>5. QED
    BY <2>4
<1>3. N \in Good
  <2> HIDE DEF Good
  <2>1. QED
    BY <1>1, <1>2, UpTo
<1>4. QED
  BY <1>3

Operations(N, S) == [1 .. N -> [S -> S]]
Runs(g, N, S, base, op) ==
    g \in [0 .. N -> S] /\ g[0] = base /\ \A k \in 1 .. N : g[k] = op[k][g[k - 1]]

(* Where every step is an operation of S, the recursion stays in S. *)
LEMMA RecursionIn ==
    ASSUME NEW N \in Nat, NEW S, NEW base \in S, NEW op \in Operations(N, S)
    PROVE  \E g : Runs(g, N, S, base, op)
<1>1. PICK g : Follows(g, N, base, op)
  BY RecursionExists
<1>2. g = [k \in 0 .. N |-> IF k = 0 THEN base ELSE op[k][g[k - 1]]]
  BY <1>1 DEF Follows
<1>3. g[0] = base /\ \A k \in 1 .. N : g[k] = op[k][g[k - 1]]
  <2>1. \A k \in 0 .. N : g[k] = IF k = 0 THEN base ELSE op[k][g[k - 1]]
    BY <1>2, Zenon
  <2>2. QED
    BY <2>1
<1> DEFINE Good == {k \in 0 .. N : g[k] \in S}
<1>4. 0 \in Good
  BY <1>3
<1>5. \A k \in 1 .. N : k - 1 \in Good => k \in Good
  <2>1. TAKE k \in 1 .. N
  <2>2. HAVE k - 1 \in Good
  <2>3. op[k] \in [S -> S] /\ g[k - 1] \in S
    BY <2>2 DEF Operations
  <2>4. QED
    BY <1>3, <2>3
<1>6. \A k \in 0 .. N : k \in Good
  <2> HIDE DEF Good
  <2>1. QED
    BY <1>4, <1>5, UpTo
<1>7. g \in [0 .. N -> S]
  <2>1. g = [k \in 0 .. N |-> g[k]]
    BY <1>2
  <2>2. QED
    BY <1>6, <2>1
<1>8. QED
  BY <1>3, <1>7 DEF Runs
-----------------------------------------------------------------------------
(* Rewards. *)

(* The powers of a number up to max_moves. *)
LEMMA Powers ==
    ASSUME NEW b \in Int
    PROVE  /\ Power(b) \in [0 .. MaxMoves -> Int] /\ Power(b)[0] = 1
           /\ \A n \in 1 .. MaxMoves : Power(b)[n] = b * Power(b)[n - 1]
<1> DEFINE op == [n \in 1 .. MaxMoves |-> [x \in Int |-> b * x]]
           Rule(g) == g = [n \in 0 .. MaxMoves |-> IF n = 0 THEN 1 ELSE b * g[n - 1]]
<1>0. 1 \in Int
  OBVIOUS
<1>1. MaxMoves \in Nat
  BY BoardAssumption
<1>2. op \in [1 .. MaxMoves -> [Int -> Int]]
  OBVIOUS
<1>3. PICK g \in [0 .. MaxMoves -> Int] :
         g[0] = 1 /\ \A n \in 1 .. MaxMoves : g[n] = op[n][g[n - 1]]
  <2>1. op \in Operations(MaxMoves, Int)
    BY <1>2 DEF Operations
  <2> HIDE DEF op
  <2>2. \E g : Runs(g, MaxMoves, Int, 1, op)
    BY <1>0, <1>1, <2>1, RecursionIn
  <2>3. QED
    BY <2>2 DEF Runs
<1>4. \A n \in 0 .. MaxMoves : g[n] = IF n = 0 THEN 1 ELSE b * g[n - 1]
  <2>1. TAKE n \in 0 .. MaxMoves
  <2>2. CASE n = 0
    BY <1>3, <2>2
  <2>3. CASE n # 0
    <3>1. n \in 1 .. MaxMoves /\ n - 1 \in 0 .. MaxMoves
      BY <1>1, <2>3
    <3>2. g[n] = op[n][g[n - 1]] /\ g[n - 1] \in Int
      BY <1>3, <3>1
    <3>3. QED
      BY <2>3, <3>1, <3>2
  <2>4. QED
    BY <2>2, <2>3
<1>5. Rule(g)
  <2>1. g = [n \in 0 .. MaxMoves |-> g[n]]
    OBVIOUS
  <2>2. QED
    BY <1>4, <2>1, Zenon
<1>6. Rule(Power(b))
  <2>1. Power(b) = CHOOSE p : Rule(p)
    BY DEF Power
  <2>2. QED
    BY <1>5, <2>1, Zenon
<1>7. \A n \in 0 .. MaxMoves : Power(b)[n] = IF n = 0 THEN 1 ELSE b * Power(b)[n - 1]
  BY <1>6, Zenon
<1> DEFINE Good == {n \in 0 .. MaxMoves : Power(b)[n] \in Int}
<1>8. 0 \in Good
  BY <1>1, <1>7
<1>9. \A n \in 1 .. MaxMoves : n - 1 \in Good => n \in Good
  BY <1>1, <1>7
<1>10. \A n \in 0 .. MaxMoves : n \in Good
  <2> HIDE DEF Good
  <2>1. QED
    BY <1>1, <1>8, <1>9, UpTo
<1>11. Power(b) = [n \in 0 .. MaxMoves |-> Power(b)[n]]
  BY <1>6, Zenon
<1>12. Power(b) \in [0 .. MaxMoves -> Int]
  BY <1>10, <1>11
<1>13. Power(b)[0] = 1 /\ \A n \in 1 .. MaxMoves : Power(b)[n] = b * Power(b)[n - 1]
  BY <1>1, <1>7
<1>14. QED
  BY <1>12, <1>13

LEMMA PotentialTypes ==
    ASSUME NEW c \in [Cops -> Board], NEW t \in Board, NEW terminal
    PROVE  Potential(c, t, terminal) \in Int
<1> DEFINE far == {Distance(c[i], t) : i \in Cops}
<1>1. far \in SUBSET Nat
  <2>1. \A i \in Cops : Distance(c[i], t) \in Nat
    BY DEF Board, Distance
  <2>2. QED
    BY <2>1
<1>2. far # {}
  BY BoardAssumption DEF Cops
<1>3. Min(far) \in far
  <2> HIDE DEF far
  <2>1. QED
    BY <1>1, <1>2, MinOfNumbers
<1>4. Nearest(c, t) = Min(far)
  BY DEF Nearest
<1>5. Nearest(c, t) \in Int
  <2> HIDE DEF far
  <2>1. \A n \in far : n \in Int
    BY <1>1
  <2>2. QED
    BY <1>3, <1>4, <2>1
<1>6. QED
  BY <1>5 DEF Potential

(* One transition: den e and e are the powers of gamma's denominator before *)
(* and after it, a and num a those of its numerator.                        *)
LEMMA Telescope ==
    ASSUME NEW w \in Int, NEW num \in Int, NEW den \in Int, NEW a \in Int, NEW e \in Int,
           NEW phi \in Int, NEW phi2 \in Int, NEW rest \in Int
    PROVE  w * (a * (den * e) * phi - rest) + a * e * (w * (num * phi2 - den * phi))
              = w * (num * a * e * phi2 - rest)
OBVIOUS

(* The return is inductive with the environment's invariant, which bounds   *)
(* the exponents and ties the barriers charged to the barriers that stand.  *)
ReturnInv == IInv /\ opening \in Int /\ ReturnTelescopes

(* A sub-game starts with nothing owed: its whole potential is the spawn's. *)
LEMMA NothingOwed ==
    ASSUME NEW o \in Int
    PROVE  DistanceWeight * (Power(GammaNum)[0] * Power(GammaDen)[MaxMoves - 0] * o
                               - Power(GammaDen)[MaxMoves] * o) = 0
<1>1. MaxMoves \in Nat /\ GammaNum \in Int /\ GammaDen \in Int /\ DistanceWeight \in Int
  BY BoardAssumption, RewardAssumption
<1>2. Power(GammaNum)[0] = 1
  BY <1>1, Powers
<1>3. Power(GammaDen) \in [0 .. MaxMoves -> Int]
  BY <1>1, Powers
<1>4. MaxMoves - 0 = MaxMoves /\ Power(GammaDen)[MaxMoves] \in Int
  BY <1>1, <1>3
<1>5. PICK d \in Int : d = Power(GammaDen)[MaxMoves]
  BY <1>4
<1>6. DistanceWeight * (1 * d * o - d * o) = 0
  <2>1. ASSUME NEW w \in Int, NEW p \in Int PROVE w * (p - p) = 0
    OBVIOUS
  <2>2. 1 * d * o = d * o /\ d * o \in Int
    OBVIOUS
  <2>3. QED
    BY <1>1, <2>1, <2>2
<1>7. QED
  BY <1>2, <1>4, <1>5, <1>6

LEMMA ReturnStart == RewardInit => ReturnInv
<1> SUFFICES ASSUME RewardInit PROVE ReturnInv
  OBVIOUS
<1>1. IInv
  BY StartSound DEF RewardInit
<1>2. /\ step = 0 /\ winner = "none" /\ opening = Potential(cops, thief, FALSE)
      /\ shaped = 0 /\ earned = 0 /\ evaded = 0 /\ Cardinality(barriers) = 0
  BY FS_EmptySet DEF RewardInit, Init
<1>3. opening \in Int
  BY <1>1, <1>2, PotentialTypes DEF IInv, TypeOK
<1>4. StepPenalty * 0 = 0 /\ BarrierCost * 0 = 0 /\ EvadeStep * 0 = 0 /\ 0 - 0 - 0 = 0
  BY RewardAssumption
<1>5. ReturnTelescopes
  BY <1>2, <1>3, <1>4, NothingOwed DEF ReturnTelescopes
<1>6. QED
  BY <1>1, <1>3, <1>5 DEF ReturnInv

LEMMA ReturnReset == ASSUME ReturnInv, RewardReset PROVE ReturnInv'
<1>1. IInv'
  BY ResetSound DEF RewardReset, ReturnInv
<1>2. /\ step' = 0 /\ winner' = "none" /\ opening' = Potential(cops', thief', FALSE)
      /\ shaped' = 0 /\ earned' = 0 /\ evaded' = 0 /\ Cardinality(barriers') = 0
  BY FS_EmptySet DEF RewardReset, Reset
<1>3. opening' \in Int
  BY <1>1, <1>2, PotentialTypes DEF IInv, TypeOK
<1>4. StepPenalty * 0 = 0 /\ BarrierCost * 0 = 0 /\ EvadeStep * 0 = 0 /\ 0 - 0 - 0 = 0
  BY RewardAssumption
<1>5. ReturnTelescopes'
  BY <1>2, <1>3, <1>4, NothingOwed DEF ReturnTelescopes
<1>6. QED
  BY <1>1, <1>3, <1>5 DEF ReturnInv

LEMMA ReturnStep ==
    ASSUME ReturnInv, RewardStep
    PROVE  ReturnInv'
<1>1. PICK act, thiefAct : Step(act, thiefAct)
  BY DEF RewardStep
<1>2. IInv /\ IInv' /\ TypeOK /\ TypeOK'
  BY <1>1, StepSound DEF ReturnInv, IInv
<1>3. /\ winner = "none" /\ step' = step + 1 /\ step \in Nat /\ step < MaxMoves /\ MaxMoves \in Nat
      /\ opening' = opening /\ opening \in Int
  BY <1>1, <1>2, BoardAssumption DEF RewardStep, Step, ReturnInv, IInv, OutcomeJustified, TypeOK
<1>4. /\ GammaNum \in Int /\ GammaDen \in Int /\ DistanceWeight \in Int /\ StepPenalty \in Int
      /\ BarrierCost \in Int /\ CaptureBonus \in Int /\ TimeoutPenalty \in Int /\ EvadeStep \in Int
      /\ TimeoutBonus \in Int
  BY RewardAssumption
<1> DEFINE a == Power(GammaNum)[step]
           e == Power(GammaDen)[MaxMoves - step']
           d == Power(GammaDen)[MaxMoves]
           phi == Potential(cops, thief, FALSE)
           phi2 == Potential(cops', thief', winner' # "none")
<1>5. a \in Int /\ Power(GammaNum)[step'] = GammaNum * a
  <2>1. step \in 0 .. MaxMoves /\ step' \in 1 .. MaxMoves /\ step' - 1 = step
    BY <1>3
  <2>2. Power(GammaNum) \in [0 .. MaxMoves -> Int]
    BY <1>4, Powers
  <2>3. \A n \in 1 .. MaxMoves : Power(GammaNum)[n] = GammaNum * Power(GammaNum)[n - 1]
    BY <1>4, Powers
  <2>4. QED
    BY <2>1, <2>2, <2>3
<1>6. e \in Int /\ d \in Int /\ Power(GammaDen)[MaxMoves - step] = GammaDen * e
  <2>1. /\ MaxMoves - step' \in 0 .. MaxMoves /\ MaxMoves \in 0 .. MaxMoves
        /\ MaxMoves - step \in 1 .. MaxMoves /\ (MaxMoves - step) - 1 = MaxMoves - step'
    BY <1>3
  <2>2. Power(GammaDen) \in [0 .. MaxMoves -> Int]
    BY <1>4, Powers
  <2>3. \A n \in 1 .. MaxMoves : Power(GammaDen)[n] = GammaDen * Power(GammaDen)[n - 1]
    BY <1>4, Powers
  <2>4. QED
    BY <2>1, <2>2, <2>3
<1>7. phi \in Int /\ phi2 \in Int
  BY <1>2, PotentialTypes DEF TypeOK
<1>8. shaped' = DistanceWeight *
                    (Power(GammaNum)[step'] * Power(GammaDen)[MaxMoves - step'] * phi2
                        - Power(GammaDen)[MaxMoves] * opening')
  <2>1. shaped = DistanceWeight * (a * (GammaDen * e) * phi - d * opening)
    <3>1. (winner # "none") = FALSE
      BY <1>3
    <3>2. QED
      BY <1>6, <3>1 DEF ReturnInv, ReturnTelescopes
  <2>2. shaped' = shaped + a * e * (DistanceWeight * (GammaNum * phi2 - GammaDen * phi))
    BY DEF RewardStep, Shaping
  <2> HIDE DEF a, e, d, phi, phi2
  <2>3. d * opening \in Int
    BY <1>3, <1>6
  <2>4. shaped' = DistanceWeight * (GammaNum * a * e * phi2 - d * opening)
    BY <1>4, <1>5, <1>6, <1>7, <2>1, <2>2, <2>3, Telescope
  <2>5. QED
    BY <1>3, <1>5, <2>4 DEF e, d
<1>9. earned' = (CASE winner' = "cop" -> CaptureBonus [] winner' = "thief" -> -TimeoutPenalty
                   [] OTHER -> 0)
                    - StepPenalty * step' - BarrierCost * Cardinality(barriers')
  <2> DEFINE bonus == CASE winner' = "cop" -> CaptureBonus [] winner' = "thief" -> -TimeoutPenalty
                        [] OTHER -> 0
  <2>1. used = Cardinality(barriers) /\ used' = Cardinality(barriers') /\ used \in Nat /\ used' \in Nat
    BY <1>2 DEF IInv, BudgetExact, TypeOK
  <2>2. bonus \in Int
    BY <1>4
  <2>3. earned' = earned + (bonus - StepPenalty - BarrierCost * (used' - used))
    BY DEF RewardStep, TeamReward, Placed
  <2>4. earned = 0 - StepPenalty * step - BarrierCost * used
    BY <1>3, <2>1 DEF ReturnInv, ReturnTelescopes
  <2> HIDE DEF bonus
  <2>5. earned' = bonus - StepPenalty * step' - BarrierCost * used'
    BY <1>3, <1>4, <2>1, <2>2, <2>3, <2>4
  <2>6. QED
    BY <2>1, <2>5 DEF bonus
<1>10. evaded' = IF winner' = "none" THEN EvadeStep * step'
                 ELSE EvadeStep * (step' - 1) + (IF winner' = "thief" THEN TimeoutBonus ELSE 0)
  <2>1. evaded = EvadeStep * step
    BY <1>3 DEF ReturnInv, ReturnTelescopes
  <2>2. evaded' = evaded + ThiefReward
    BY DEF RewardStep
  <2>3. QED
    BY <1>3, <1>4, <2>1, <2>2 DEF ThiefReward
<1>11. QED
  BY <1>2, <1>3, <1>8, <1>9, <1>10 DEF ReturnInv, ReturnTelescopes

(* "Ng-1999 policy-invariant", for every rational gamma, every weight and   *)
(* every team: the shaping of a sub-game telescopes to a difference of      *)
(* potentials, and the rest is the bill of its steps, barriers and outcome. *)
THEOREM ShapingTelescopes == RewardSpec => []ReturnTelescopes
<1>1. RewardInit => ReturnInv
  BY ReturnStart
<1>2. ReturnInv /\ [RewardNext]_rewardVars => ReturnInv'
  <2> SUFFICES ASSUME ReturnInv, [RewardNext]_rewardVars PROVE ReturnInv'
    OBVIOUS
  <2>2. CASE RewardReset
    BY <2>2, ReturnReset
  <2>3. CASE RewardStep
    BY <2>3, ReturnStep
  <2>4. CASE UNCHANGED rewardVars
    <3>1. UNCHANGED <<cops, thief, barriers, used, step, winner, copMemory, thiefMemory,
                      opening, shaped, earned, evaded>>
      BY <2>4 DEF rewardVars, vars
    <3>2. IInv'
      BY <3>1 DEF ReturnInv, IInv, TypeOK, BudgetExact, ThiefNotWalledIn, OutcomeJustified
    <3>3. ReturnTelescopes'
      BY <3>1 DEF ReturnInv, ReturnTelescopes
    <3>4. QED
      BY <3>1, <3>2, <3>3 DEF ReturnInv
  <2>5. QED
    BY <2>2, <2>3, <2>4 DEF RewardNext
<1>3. ReturnInv => ReturnTelescopes
  BY DEF ReturnInv
<1>4. QED
  BY <1>1, <1>2, <1>3, PTL DEF RewardSpec
-----------------------------------------------------------------------------
(* The environment of a play. *)

(* Whatever the policies ask for, a play keeps the invariant of a sub-game. *)
LEMMA PlayStart == PlayInit => IInv
BY StartSound DEF PlayInit

LEMMA PlayStep == IInv /\ [PlayNext]_playVars => IInv'
<1> SUFFICES ASSUME IInv, [PlayNext]_playVars PROVE IInv'
  OBVIOUS
<1>1. CASE Tick
  <2>1. PICK act, thiefAct : Step(act, thiefAct)
    BY <1>1 DEF Tick
  <2>2. QED
    BY <2>1, StepSound
<1>2. CASE NewGame
  BY <1>2, ResetSound DEF NewGame
<1>3. CASE UNCHANGED vars
  BY <1>3 DEF vars, IInv, TypeOK, BudgetExact, ThiefNotWalledIn, OutcomeJustified
<1>4. CASE WatchNext
  BY <1>2, <1>3, <1>4 DEF WatchNext
<1>5. QED
  BY <1>1, <1>2, <1>3, <1>4 DEF PlayNext, NextMatchup, NextEpisode, WatchReset, Over, playVars

(* An evaluation, a watched match and a data collection play sub-games of  *)
(* the environment: its invariant holds whatever the policies choose.       *)
THEOREM PlayInvariance == PlaySpec => []IInv
BY PlayStart, PlayStep, PTL DEF PlaySpec
-----------------------------------------------------------------------------
(* The spectator's totals.  A sum over a finite set takes the elements one  *)
(* by one, in the order CHOOSE gives; its running totals are a function of  *)
(* the set of elements still to come.                                       *)
Taken(t) == CHOOSE x \in t : TRUE
Score(o, r) == Points[o[2]][r]
Tallies(F, D, r) ==
    F = [t \in SUBSET D |-> IF t = {} THEN 0 ELSE Score(Taken(t), r) + F[t \ {Taken(t)}]]
Results == Nat \X Roles

LEMMA ScoreTypes == \A o \in Results, r \in Roles : Score(o, r) \in Int
BY PlayAssumption DEF Results, Score

(* Taking one element of a finite set leaves a smaller one. *)
LEMMA TakenOut ==
    ASSUME NEW D, IsFiniteSet(D), NEW t \in SUBSET D, NEW x \in t
    PROVE  /\ t \ {x} \in SUBSET D /\ Cardinality(t) \in Nat /\ Cardinality(t) # 0
           /\ Cardinality(t \ {x}) = Cardinality(t) - 1
<1>1. IsFiniteSet(t)
  BY FS_Subset
<1>2. Cardinality(t \ {x}) = Cardinality(t) - 1 /\ IsFiniteSet(t \ {x})
  BY <1>1, FS_RemoveElement
<1>3. Cardinality(t) \in Nat /\ Cardinality(t \ {x}) \in Nat
  BY <1>1, <1>2, FS_CardinalityType
<1>4. QED
  BY <1>2, <1>3

(* Induction over the subsets of a finite set: a family of them that has    *)
(* every subset whose smaller ones it has is all of them.                   *)
LEMMA SubsetsUpTo ==
    ASSUME NEW D, IsFiniteSet(D), NEW Good,
           \A t \in SUBSET D : (\A x \in t : t \ {x} \in Good) => t \in Good
    PROVE  \A t \in SUBSET D : t \in Good
<1> DEFINE n == Cardinality(D)
           Done == {k \in Nat : \A t \in SUBSET D : Cardinality(t) = k => t \in Good}
<1>1. n \in Nat
  BY FS_CardinalityType
<1>2. \A t \in SUBSET D : Cardinality(t) \in 0 .. n
  BY <1>1, FS_Subset, FS_CardinalityType
<1>3. 0 \in Done
  <2>1. ASSUME NEW t \in SUBSET D, Cardinality(t) = 0 PROVE t \in Good
    <3>1. \A x \in t : FALSE
      BY <2>1, TakenOut
    <3>2. QED
      BY <3>1
  <2>2. QED
    BY <2>1
<1>4. \A k \in 1 .. n : k - 1 \in Done => k \in Done
  <2>1. TAKE k \in 1 .. n
  <2>2. HAVE k - 1 \in Done
  <2>3. ASSUME NEW t \in SUBSET D, Cardinality(t) = k PROVE t \in Good
    <3>1. ASSUME NEW x \in t PROVE t \ {x} \in Good
      <4>1. t \ {x} \in SUBSET D /\ Cardinality(t \ {x}) = k - 1
        BY <2>3, TakenOut
      <4>2. QED
        BY <2>2, <4>1
    <3>2. QED
      BY <3>1
  <2>4. QED
    BY <1>1, <2>3
<1>5. \A k \in 0 .. n : k \in Done
  <2> HIDE DEF Done, n
  <2>1. QED
    BY <1>1, <1>3, <1>4, UpTo
<1>6. QED
  BY <1>2, <1>5

(* The tallies exist: those of the sets of at most n + 1 elements follow    *)
(* from those of the sets of at most n.                                     *)
LEMMA TalliesExist ==
    ASSUME NEW D, IsFiniteSet(D), NEW r
    PROVE  \E F : Tallies(F, D, r)
<1> DEFINE Small(n) == {t \in SUBSET D : Cardinality(t) <= n}
           Partial(F, n) == F = [t \in Small(n) |->
                                   IF t = {} THEN 0 ELSE Score(Taken(t), r) + F[t \ {Taken(t)}]]
           Done == {n \in Nat : \E F : Partial(F, n)}
<1>1. \A t \in SUBSET D : t # {} => /\ t \ {Taken(t)} \in SUBSET D
                                    /\ Cardinality(t) \in Nat /\ Cardinality(t) # 0
                                    /\ Cardinality(t \ {Taken(t)}) = Cardinality(t) - 1
  BY TakenOut DEF Taken
<1>2. 0 \in Done
  <2> DEFINE F == [t \in Small(0) |-> 0]
  <2>1. ASSUME NEW t \in Small(0), t # {} PROVE FALSE
    <3>1. Cardinality(t) <= 0 /\ Cardinality(t) \in Nat /\ Cardinality(t) # 0
      BY <1>1, <2>1
    <3>2. QED
      BY <3>1
  <2>2. Partial(F, 0)
    BY <2>1
  <2>3. QED
    BY <2>2
<1>3. Cardinality(D) \in Nat
  BY FS_CardinalityType
<1>4. \A n \in 1 .. Cardinality(D) : n - 1 \in Done => n \in Done
  <2>1. TAKE n \in 1 .. Cardinality(D)
  <2>2. HAVE n - 1 \in Done
  <2>3. PICK F : Partial(F, n - 1)
    BY <2>2
  <2> DEFINE G == [t \in Small(n) |->
                     IF t = {} THEN 0 ELSE Score(Taken(t), r) + F[t \ {Taken(t)}]]
  <2>4. ASSUME NEW t \in Small(n), t # {} PROVE G[t \ {Taken(t)}] = F[t \ {Taken(t)}]
    <3> DEFINE u == t \ {Taken(t)}
    <3>1. u \in Small(n - 1) /\ u \in Small(n)
      BY <1>1, <1>3, <2>4
    <3>2. F[u] = IF u = {} THEN 0 ELSE Score(Taken(u), r) + F[u \ {Taken(u)}]
      BY <2>3, <3>1
    <3>3. G[u] = IF u = {} THEN 0 ELSE Score(Taken(u), r) + F[u \ {Taken(u)}]
      BY <3>1
    <3>4. QED
      BY <3>2, <3>3
  <2>5. Partial(G, n)
    BY <2>4
  <2>6. n \in Nat
    BY <1>3
  <2>7. QED
    BY <2>5, <2>6
<1>5. Cardinality(D) \in Done
  <2> HIDE DEF Done
  <2>1. QED
    BY <1>2, <1>3, <1>4, UpTo
<1>6. PICK F : Partial(F, Cardinality(D))
  BY <1>5
<1>7. Small(Cardinality(D)) = SUBSET D
  BY FS_Subset
<1>8. Tallies(F, D, r)
  BY <1>6, <1>7 DEF Tallies
<1>9. QED
  BY <1>8

LEMMA TallyOf ==
    ASSUME NEW D, NEW r, NEW F, Tallies(F, D, r), NEW t \in SUBSET D
    PROVE  F[t] = IF t = {} THEN 0 ELSE Score(Taken(t), r) + F[t \ {Taken(t)}]
BY Zenon DEF Tallies

LEMMA TallyTypes ==
    ASSUME NEW D, IsFiniteSet(D), D \subseteq Results, NEW r \in Roles, NEW F, Tallies(F, D, r)
    PROVE  \A t \in SUBSET D : F[t] \in Int
<1> DEFINE Good == {t \in SUBSET D : F[t] \in Int}
<1>1. ASSUME NEW t \in SUBSET D, \A x \in t : t \ {x} \in Good PROVE t \in Good
  <2>0. F[t] = IF t = {} THEN 0 ELSE Score(Taken(t), r) + F[t \ {Taken(t)}]
    BY TallyOf
  <2>1. CASE t = {}
    BY <2>0, <2>1
  <2>2. CASE t # {}
    <3>1. Taken(t) \in t
      BY <2>2 DEF Taken
    <3>2. F[t \ {Taken(t)}] \in Int
      BY <1>1, <3>1
    <3>3. Score(Taken(t), r) \in Int
      BY <3>1, ScoreTypes
    <3>4. F[t] = Score(Taken(t), r) + F[t \ {Taken(t)}]
      BY <2>0, <2>2
    <3>5. QED
      BY <3>2, <3>3, <3>4
  <2>3. QED
    BY <2>1, <2>2
<1>2. \A t \in SUBSET D : t \in Good
  <2> HIDE DEF Good
  <2>1. QED
    BY <1>1, SubsetsUpTo
<1>3. QED
  BY <1>2

(* The order does not matter: any element of a set may be taken first. *)
LEMMA AnyFirst ==
    ASSUME NEW D, IsFiniteSet(D), D \subseteq Results, NEW r \in Roles, NEW F, Tallies(F, D, r)
    PROVE  \A t \in SUBSET D : \A o \in t : F[t] = Score(o, r) + F[t \ {o}]
<1> DEFINE Good == {t \in SUBSET D : \A o \in t : F[t] = Score(o, r) + F[t \ {o}]}
<1>1. ASSUME NEW t \in SUBSET D, \A x \in t : t \ {x} \in Good PROVE t \in Good
  <2>1. SUFFICES ASSUME NEW o \in t PROVE F[t] = Score(o, r) + F[t \ {o}]
    OBVIOUS
  <2> DEFINE x == Taken(t)
  <2>2. x \in t
    BY DEF Taken
  <2>3. F[t] = Score(x, r) + F[t \ {x}]
    BY TallyOf
  <2>4. CASE x = o
    BY <2>3, <2>4
  <2>5. CASE x # o
    <3> DEFINE rest == t \ {x, o}
    <3>1. (t \ {x}) \ {o} = rest /\ (t \ {o}) \ {x} = rest /\ o \in t \ {x} /\ x \in t \ {o}
      BY <2>2, <2>5
    <3>2. F[t \ {x}] = Score(o, r) + F[rest]
      BY <1>1, <2>2, <3>1
    <3>3. F[t \ {o}] = Score(x, r) + F[rest]
      BY <1>1, <3>1
    <3>4. F[rest] \in Int
      BY TallyTypes
    <3>5. Score(x, r) \in Int /\ Score(o, r) \in Int
      BY <2>2, ScoreTypes
    <3> HIDE DEF rest, x
    <3>6. QED
      BY <2>3, <3>2, <3>3, <3>4, <3>5
  <2>6. QED
    BY <2>4, <2>5
<1>2. \A t \in SUBSET D : t \in Good
  <2> HIDE DEF Good
  <2>1. QED
    BY <1>1, SubsetsUpTo
<1>3. QED
  BY <1>2

(* The tallies of a part of the set are the same. *)
LEMMA TalliesOfPart ==
    ASSUME NEW E, IsFiniteSet(E), NEW D \in SUBSET E, NEW r, NEW F, Tallies(F, E, r),
           NEW G, Tallies(G, D, r)
    PROVE  \A t \in SUBSET D : F[t] = G[t]
<1> DEFINE Good == {t \in SUBSET D : F[t] = G[t]}
<1>0. IsFiniteSet(D)
  BY FS_Subset
<1>1. ASSUME NEW t \in SUBSET D, \A x \in t : t \ {x} \in Good PROVE t \in Good
  <2>0. F[t] = IF t = {} THEN 0 ELSE Score(Taken(t), r) + F[t \ {Taken(t)}]
    <3>1. t \in SUBSET E
      OBVIOUS
    <3>2. QED
      BY <3>1, TallyOf
  <2>1. G[t] = IF t = {} THEN 0 ELSE Score(Taken(t), r) + G[t \ {Taken(t)}]
    BY TallyOf
  <2>2. t # {} => F[t \ {Taken(t)}] = G[t \ {Taken(t)}]
    BY <1>1 DEF Taken
  <2>3. QED
    BY <2>0, <2>1, <2>2
<1>2. \A t \in SUBSET D : t \in Good
  <2> HIDE DEF Good
  <2>1. QED
    BY <1>0, <1>1, SubsetsUpTo
<1>3. QED
  BY <1>2

Total(S, r) == MapThenSumSet(LAMBDA o : Points[o[2]][r], S)

LEMMA TotalIsTally ==
    ASSUME NEW S, IsFiniteSet(S), NEW r
    PROVE  \E F : Tallies(F, S, r) /\ Total(S, r) = F[S]
<1> DEFINE F == CHOOSE f : Tallies(f, S, r)
<1>1. Tallies(F, S, r)
  BY TalliesExist
<1>2. Total(S, r) = F[S]
  BY Zenon DEF Total, MapThenSumSet, MapThenFoldSet, Tallies, Taken, Score
<1>3. QED
  BY <1>1, <1>2

(* One more play adds its score. *)
LEMMA OneMore ==
    ASSUME NEW S, IsFiniteSet(S), S \subseteq Results, NEW o \in Results, o \notin S, NEW r \in Roles
    PROVE  Total(S \union {o}, r) = Total(S, r) + Score(o, r)
<1> DEFINE E == S \union {o}
<1>1. IsFiniteSet(E) /\ E \subseteq Results /\ S \in SUBSET E
  BY FS_AddElement
<1>2. PICK F : Tallies(F, E, r) /\ Total(E, r) = F[E]
  BY <1>1, TotalIsTally
<1>3. PICK G : Tallies(G, S, r) /\ Total(S, r) = G[S]
  BY TotalIsTally
<1>4. F[E] = Score(o, r) + F[S]
  <2>1. E \ {o} = S /\ o \in E /\ E \in SUBSET E
    OBVIOUS
  <2> HIDE DEF E
  <2>2. F[E] = Score(o, r) + F[E \ {o}]
    BY <1>1, <1>2, <2>1, AnyFirst
  <2>3. QED
    BY <2>1, <2>2
<1>5. F[S] = G[S] /\ F[S] \in Int
  <2> HIDE DEF E
  <2>1. QED
    BY <1>1, <1>2, <1>3, TalliesOfPart, TallyTypes
<1>6. Score(o, r) \in Int
  BY ScoreTypes
<1>7. QED
  BY <1>2, <1>3, <1>4, <1>5, <1>6

LEMMA NoneYet == \A r : Total({}, r) = 0
<1> TAKE r
<1>1. PICK F : Tallies(F, {}, r) /\ Total({}, r) = F[{}]
  BY FS_EmptySet, TotalIsTally
<1>2. QED
  BY <1>1, TallyOf

(* What next_sub_game keeps: a play that was banked is over for good, or is *)
(* the last one.                                                            *)
BankInv ==
    /\ play \in Nat /\ banked \in Nat /\ banked <= NumGames
    /\ IsFiniteSet(outcomes) /\ outcomes \subseteq Results /\ banked = Cardinality(outcomes)
    /\ \A o \in outcomes : o[1] <= play /\ (o[1] = play => banked = NumGames)
    /\ \A r \in Roles : totals[r] = Total(outcomes, r)

LEMMA BankStart == PlayInit => BankInv
<1> SUFFICES ASSUME PlayInit PROVE BankInv
  OBVIOUS
<1>1. /\ play = 1 /\ banked = 0 /\ outcomes = {} /\ \A r \in Roles : totals[r] = 0
      /\ Cardinality(outcomes) = 0 /\ IsFiniteSet(outcomes)
  BY FS_EmptySet DEF PlayInit
<1>2. NumGames \in Nat
  BY PlayAssumption
<1>3. QED
  BY <1>1, <1>2, NoneYet DEF BankInv

(* next_sub_game takes the score of a play that was not taken yet. *)
LEMMA BankTaken ==
    ASSUME IInv, BankInv, WatchNext
    PROVE  BankInv'
<1> DEFINE o == <<play, winner>>
<1>1. /\ play \in Nat /\ banked \in Nat /\ NumGames \in Nat /\ banked < NumGames
      /\ IsFiniteSet(outcomes) /\ outcomes \subseteq Results /\ banked = Cardinality(outcomes)
  BY PlayAssumption DEF BankInv, WatchNext, MayBank
<1>2. winner \in Roles /\ o \in Results /\ o[1] = play /\ o[2] = winner
  BY <1>1 DEF IInv, TypeOK, WatchNext, MayBank, Roles, Results
<1>3. banked' = banked + 1 /\ outcomes' = outcomes \union {o}
  BY DEF WatchNext
<1>4. o \notin outcomes
  BY <1>1, <1>2 DEF BankInv
<1> HIDE DEF o
<1>5. /\ IsFiniteSet(outcomes') /\ outcomes' \subseteq Results
      /\ Cardinality(outcomes') = banked'
  BY <1>1, <1>2, <1>3, <1>4, FS_AddElement
<1>6. \A r \in Roles : totals'[r] = Total(outcomes', r)
  <2>1. TAKE r \in Roles
  <2>2. totals'[r] = totals[r] + Points[winner][r]
    BY DEF WatchNext
  <2>3. totals[r] = Total(outcomes, r) /\ Score(o, r) = Points[winner][r]
    BY <1>2 DEF BankInv, Score
  <2>4. Total(outcomes \union {o}, r) = Total(outcomes, r) + Score(o, r)
    BY <1>1, <1>2, <1>4, OneMore
  <2>5. QED
    BY <1>3, <2>2, <2>3, <2>4
<1>7. \A x \in outcomes' : x[1] \in Nat /\ x[1] <= play
  BY <1>1, <1>2, <1>3 DEF BankInv, Results
<1>8. CASE banked + 1 >= NumGames
  <2>1. play' = play /\ banked' = NumGames
    BY <1>1, <1>3, <1>8 DEF WatchNext
  <2>2. QED
    BY <1>1, <1>5, <1>6, <1>7, <2>1 DEF BankInv
<1>9. CASE ~(banked + 1 >= NumGames)
  <2>1. play' = play + 1 /\ banked' <= NumGames /\ banked' \in Nat
    BY <1>1, <1>3, <1>9 DEF WatchNext, NewGame
  <2>2. \A x \in outcomes' : x[1] <= play' /\ x[1] # play'
    BY <1>1, <1>7, <2>1
  <2>3. QED
    BY <1>1, <1>5, <1>6, <2>1, <2>2 DEF BankInv
<1>10. QED
  BY <1>8, <1>9

LEMMA BankStep == IInv /\ BankInv /\ [PlayNext]_playVars => BankInv'
<1> SUFFICES ASSUME IInv, BankInv, [PlayNext]_playVars PROVE BankInv'
  OBVIOUS
<1>1. CASE UNCHANGED <<play, banked, outcomes, totals>>
  BY <1>1 DEF BankInv
<1>2. CASE play' = play + 1 /\ UNCHANGED <<banked, outcomes, totals>>
  <2>1. \A o \in outcomes : o[1] \in Nat /\ o[1] <= play
    BY DEF BankInv, Results
  <2>2. play \in Nat
    BY DEF BankInv
  <2>3. \A o \in outcomes : o[1] <= play' /\ o[1] # play'
    BY <1>2, <2>1, <2>2
  <2>4. QED
    BY <1>2, <2>2, <2>3 DEF BankInv
<1>3. CASE WatchNext
  BY <1>3, BankTaken
<1>4. CASE Tick
  BY <1>1, <1>4 DEF Tick, bankVars
<1>5. CASE NextMatchup \/ NextEpisode \/ WatchReset
  BY <1>2, <1>5 DEF NextMatchup, NextEpisode, WatchReset, NewGame
<1>6. CASE UNCHANGED playVars
  BY <1>1, <1>6 DEF playVars, bankVars
<1>7. QED
  BY <1>3, <1>4, <1>5, <1>6 DEF PlayNext, Over

(* SpectatorSession banks a finished play once and num_games of them at     *)
(* most, whatever the user presses, for every scoring table.                *)
THEOREM SpectatorBanksOnce == PlaySpec => []BankedOnce
<1>1. BankInv => BankedOnce
  BY DEF BankInv, BankedOnce, Total
<1>2. QED
  BY <1>1, PlayStart, PlayStep, BankStart, BankStep, PTL DEF PlaySpec
-----------------------------------------------------------------------------
(* The wire session.  A cell's distances, whichever way they are measured.  *)
LEMMA Distances ==
    ASSUME NEW a \in Board, NEW b \in Board
    PROVE  /\ Distance(a, b) \in Nat /\ Distance(a, b) = Distance(b, a) /\ Distance(a, a) = 0
           /\ \A m \in Moves : Target(a, m) \in Int \X Int /\ Distance(Target(a, m), a) = 1
<1>1. a[1] \in Int /\ a[2] \in Int /\ b[1] \in Int /\ b[2] \in Int
  BY BoardAssumption DEF Board
<1>2. Distance(a, b) \in Nat /\ Distance(a, b) = Distance(b, a) /\ Distance(a, a) = 0
  BY <1>1 DEF Distance
<1>3. ASSUME NEW m \in Moves PROVE Target(a, m) \in Int \X Int /\ Distance(Target(a, m), a) = 1
  <2>1. \/ Delta(m) = <<-1, 0>> \/ Delta(m) = <<1, 0>> \/ Delta(m) = <<0, -1>> \/ Delta(m) = <<0, 1>>
    BY DEF Moves, Delta
  <2>2. QED
    BY <1>1, <2>1 DEF Target, Distance
<1>4. QED
  BY <1>2, <1>3

(* The referee's radius reaches as far as the agent's and one cell at least.*)
LEMMA Radii ==
    /\ RefereeRadius \in Nat /\ Radius \in Nat /\ MaxMoves \in Nat
    /\ Radius <= RefereeRadius /\ 1 <= RefereeRadius
<1>1. Radius \in Nat /\ RefereeRadius \in Nat /\ MaxMoves \in Nat
  BY BoardAssumption, PlayAssumption
<1>2. Max({Radius, 1}) \in {Radius, 1} /\ \A n \in {Radius, 1} : Max({Radius, 1}) >= n
  <2>1. \E x \in {Radius, 1} : \A y \in {Radius, 1} : x >= y
    <3>1. CASE Radius >= 1
      BY <1>1, <3>1
    <3>2. CASE ~(Radius >= 1)
      BY <1>1, <3>2
    <3>3. QED
      BY <3>1, <3>2
  <2>2. QED
    BY <2>1 DEF Max
<1>3. RefereeRadius >= Max({Radius, 1})
  BY PlayAssumption
<1>4. QED
  BY <1>1, <1>2, <1>3

(* The stand-in of a masked opponent is at least as far as any cell. *)
LEMMA FarCellIsFar ==
    ASSUME NEW c \in Board, NEW x \in Board
    PROVE  FarCell(c) \in Board /\ Distance(c, x) <= Distance(c, FarCell(c))
<1>1. /\ c[1] \in 0 .. H - 1 /\ c[2] \in 0 .. W - 1 /\ x[1] \in 0 .. H - 1 /\ x[2] \in 0 .. W - 1
      /\ H \in Nat \ {0} /\ W \in Nat \ {0}
  BY BoardAssumption DEF Board
<1>2. /\ FarCell(c)[1] = IF H - 1 - c[1] >= c[1] THEN H - 1 ELSE 0
      /\ FarCell(c)[2] = IF W - 1 - c[2] >= c[2] THEN W - 1 ELSE 0
  BY DEF FarCell
<1>3. FarCell(c) \in Board
  BY <1>1 DEF FarCell, Board
<1>4. QED
  BY <1>1, <1>2, <1>3 DEF Distance

LEMMA CellTypes ==
    ASSUME TypeOK, NEW r \in Roles
    PROVE  Cell(r) \in Board /\ Cell(Other(r)) \in Board
BY PlayAssumption DEF TypeOK, Cell, Other, Roles, Cops

(* Within the agent's own view the payload's opponent is the real one, and  *)
(* beyond it there is none either way.                                      *)
LEMMA OpponentStands ==
    ASSUME TypeOK, NEW r \in Roles
    PROVE  LET p == Payload(r, RefereeRadius)
           IN  /\ p.your_pos = Cell(r) /\ Opponent(p) \in Board
               /\ p.opponent_pos = NoCell => Opponent(p) = FarCell(Cell(r))
                                             /\ Distance(Cell(r), FarCell(Cell(r))) > Radius
               /\ Distance(Cell(r), Cell(Other(r))) <= Radius => Opponent(p) = Cell(Other(r))
               /\ Distance(Cell(r), Cell(Other(r))) > Radius =>
                     Distance(Cell(r), Opponent(p)) > Radius
<1> DEFINE p == Payload(r, RefereeRadius)
           you == Cell(r)
           other == Cell(Other(r))
<1>1. you \in Board /\ other \in Board
  BY CellTypes
<1>2. /\ p.your_pos = you
      /\ p.opponent_pos = IF Distance(you, other) <= RefereeRadius THEN other ELSE NoCell
  BY DEF Payload, MaskPayload
<1>3. NoCell \notin Board
  BY BoardAssumption DEF NoCell, Board
<1>4. Opponent(p) = IF Distance(you, other) <= RefereeRadius THEN other ELSE FarCell(you)
  BY <1>1, <1>2, <1>3 DEF Opponent
<1>5. p.opponent_pos = NoCell <=> ~(Distance(you, other) <= RefereeRadius)
  BY <1>1, <1>2, <1>3
<1> HIDE DEF p, you, other
<1>6. /\ FarCell(you) \in Board /\ Distance(you, other) <= Distance(you, FarCell(you))
      /\ Distance(you, other) \in Nat /\ Distance(you, FarCell(you)) \in Nat
  BY <1>1, FarCellIsFar, Distances
<1>7. Opponent(p) \in Board
  BY <1>1, <1>4, <1>6
<1>8. p.opponent_pos = NoCell => Opponent(p) = FarCell(you) /\ Distance(you, FarCell(you)) > Radius
  BY <1>4, <1>5, <1>6, Radii
<1>9. Distance(you, other) <= Radius => Opponent(p) = other
  BY <1>4, <1>6, Radii
<1>10. Distance(you, other) > Radius => Distance(you, Opponent(p)) > Radius
  BY <1>4, <1>6, Radii
<1>11. QED
  BY <1>2, <1>7, <1>8, <1>9, <1>10 DEF p, you, other

(* So the session counts as the environment does. *)
LEMMA SeenIsInView ==
    ASSUME TypeOK, NEW r \in Roles
    PROVE  Counted(r) = IF InView(Cell(r), Cell(Other(r))) THEN 0 ELSE since[r] + 1
<1> DEFINE p == Payload(r, RefereeRadius)
<1>1. /\ p.your_pos = Cell(r) /\ Opponent(p) \in Board
      /\ Distance(Cell(r), Cell(Other(r))) <= Radius => Opponent(p) = Cell(Other(r))
      /\ Distance(Cell(r), Cell(Other(r))) > Radius => Distance(Cell(r), Opponent(p)) > Radius
  BY OpponentStands
<1>2. Cell(r) \in Board /\ Cell(Other(r)) \in Board /\ Radius \in Nat
  BY CellTypes, Radii
<1> HIDE DEF p
<1>3. Distance(Cell(r), Cell(Other(r))) \in Nat /\ Distance(Cell(r), Opponent(p)) \in Nat
  BY <1>1, <1>2, Distances
<1>4. SeenOnWire(p) <=> InView(Cell(r), Cell(Other(r)))
  BY <1>1, <1>2, <1>3 DEF SeenOnWire, InView
<1>5. QED
  BY <1>4 DEF Counted, p

(* What build_observation and action_mask make of what they are given. *)
View(you, opponents, walls, spent, tick, count) ==
    LET visible == {o \in env!Window : env!At(you, o) \in Board /\ InView(you, env!At(you, o))}
    IN  [image   |-> [out_of_bounds |-> env!Window \ visible,
                      barrier       |-> {o \in visible : env!At(you, o) \in walls},
                      other_visible |-> {o \in visible : env!At(you, o) \in opponents},
                      time          |-> tick],
         scalars |-> [row           |-> you[1],
                      col           |-> you[2],
                      step          |-> tick,
                      barriers_left |-> MaxBarriers - spent,
                      seen_now      |-> \E o \in opponents : InView(you, o),
                      since_seen    |-> Min({count, MaxMoves})]]
OpenMoves(you, walls) ==
    {m \in Moves : Target(you, m) \in Board /\ (Target(you, m) \notin walls \/ Target(you, m) = you)}
MoveMask(you, walls) == IF OpenMoves(you, walls) = {} THEN Moves ELSE OpenMoves(you, walls)
PlaceMask(you, walls, spent) ==
    MoveMask(you, walls)
        \union (IF EnableBarrier /\ spent < MaxBarriers /\ you \notin walls
                THEN {"PLACE_BARRIER"} ELSE {})

LEMMA EnvShows ==
    /\ env!LeadCopSees = [obs  |-> View(cops[0], {thief}, barriers, used, step, copMemory[0]),
                          mask |-> PlaceMask(cops[0], barriers, used)]
    /\ env!ThiefSees = [obs  |-> View(thief, {cops[i] : i \in Cops}, barriers, used, step, thiefMemory),
                        mask |-> MoveMask(thief, barriers)]
<1>1. env!Board = Board /\ env!Moves = Moves /\ env!Cops = Cops
  BY DEF env!Board, Board, env!Moves, Moves, env!Cops, Cops
<1>2. \A a, b : env!InView(a, b) = InView(a, b)
  BY DEF env!InView, env!Distance, InView, Distance
<1>3. \A a, m : env!Target(a, m) = Target(a, m)
  BY DEF env!Target, env!Delta, Target, Delta
<1>4. \A S : env!Min(S) = Min(S)
  BY DEF env!Min, Min
<1>5. \A a : env!EnterableMoves(a) = OpenMoves(a, barriers)
  BY <1>1, <1>3 DEF env!EnterableMoves, env!CanEnter, OpenMoves
<1>6. ASSUME NEW you, NEW opponents, NEW count
      PROVE  env!BuildObservation(you, opponents, count)
                = View(you, opponents, barriers, used, step, count)
  BY <1>1, <1>2, <1>4 DEF env!BuildObservation, env!EncodeImage, View
<1>7. env!CopMask(0) = PlaceMask(cops[0], barriers, used) /\ env!ThiefMask = MoveMask(thief, barriers)
  BY <1>1, <1>5 DEF env!CopMask, env!ThiefMask, PlaceMask, MoveMask
<1>8. env!LeadCopSees = [obs  |-> View(cops[0], {thief}, barriers, used, step, copMemory[0]),
                         mask |-> PlaceMask(cops[0], barriers, used)]
  BY <1>6, <1>7 DEF env!LeadCopSees, env!CopObservation
<1>9. env!ThiefSees = [obs  |-> View(thief, {cops[i] : i \in Cops}, barriers, used, step, thiefMemory),
                       mask |-> MoveMask(thief, barriers)]
  BY <1>1, <1>6, <1>7 DEF env!ThiefSees, env!ThiefObservation
<1>10. QED
  BY <1>8, <1>9

(* ... and the same of the state the payload stands for. *)
LEMMA WireShows ==
    LET c == Payload("cop", RefereeRadius)
        t == Payload("thief", RefereeRadius)
    IN  /\ WireSees("cop") =
             [obs  |-> View(c.your_pos, {Opponent(c)}, c.barriers, MaxBarriers - c.barriers_left,
                            step, Counted("cop")),
              mask |-> PlaceMask(c.your_pos, c.barriers, MaxBarriers - c.barriers_left)]
        /\ WireSees("thief") =
             [obs  |-> View(t.your_pos, {Opponent(t)}, t.barriers, MaxBarriers - t.barriers_left,
                            step, Counted("thief")),
              mask |-> MoveMask(t.your_pos, t.barriers)]
<1>0. Cops = {0}
  BY PlayAssumption DEF Cops
<1>1. ASSUME NEW r, NEW p, NEW tick, NEW count
      PROVE  /\ Synth(r, p, tick, count)!Board = Board /\ Synth(r, p, tick, count)!Moves = Moves
             /\ Synth(r, p, tick, count)!Cops = Cops /\ Synth(r, p, tick, count)!Window = env!Window
  BY DEF Synth!Board, Board, Synth!Moves, Moves, Synth!Cops, Cops, Synth!Window, env!Window
<1>2. ASSUME NEW r, NEW p, NEW tick, NEW count
      PROVE  /\ \A a, b : Synth(r, p, tick, count)!InView(a, b) = InView(a, b)
             /\ \A a, m : Synth(r, p, tick, count)!Target(a, m) = Target(a, m)
             /\ \A a, o : Synth(r, p, tick, count)!At(a, o) = env!At(a, o)
             /\ \A S : Synth(r, p, tick, count)!Min(S) = Min(S)
  BY DEF Synth!InView, Synth!Distance, InView, Distance, Synth!Target, Synth!Delta, Target, Delta,
         Synth!At, env!At, Synth!Min, Min
<1>3. ASSUME NEW r, NEW p, NEW tick, NEW count, NEW a
      PROVE  Synth(r, p, tick, count)!EnterableMoves(a) = OpenMoves(a, p.barriers)
  BY <1>1, <1>2 DEF Synth!EnterableMoves, Synth!CanEnter, OpenMoves
<1>4. ASSUME NEW r, NEW p, NEW tick, NEW count, NEW you, NEW opponents, NEW n
      PROVE  Synth(r, p, tick, count)!BuildObservation(you, opponents, n)
                = View(you, opponents, p.barriers, MaxBarriers - p.barriers_left, tick, n)
  <2>1. Synth(r, p, tick, count)!Board = Board /\ Synth(r, p, tick, count)!Window = env!Window
    BY <1>1
  <2>2. /\ \A a, b : Synth(r, p, tick, count)!InView(a, b) = InView(a, b)
        /\ \A a, o : Synth(r, p, tick, count)!At(a, o) = env!At(a, o)
        /\ \A S : Synth(r, p, tick, count)!Min(S) = Min(S)
    BY <1>2
  <2>3. QED
    BY <2>1, <2>2 DEF Synth!BuildObservation, Synth!EncodeImage, View
<1>5. ASSUME NEW p, NEW tick, NEW count
      PROVE  Synth("cop", p, tick, count)!LeadCopSees =
               [obs  |-> View(p.your_pos, {Opponent(p)}, p.barriers, MaxBarriers - p.barriers_left,
                              tick, count),
                mask |-> PlaceMask(p.your_pos, p.barriers, MaxBarriers - p.barriers_left)]
  <2>1. Synth("cop", p, tick, count)!CopMask(0)
           = PlaceMask(p.your_pos, p.barriers, MaxBarriers - p.barriers_left)
    BY <1>0, <1>1, <1>3 DEF Synth!CopMask, PlaceMask, MoveMask
  <2>2. Synth("cop", p, tick, count)!CopObservation(0)
           = View(p.your_pos, {Opponent(p)}, p.barriers, MaxBarriers - p.barriers_left, tick, count)
    BY <1>0, <1>4 DEF Synth!CopObservation
  <2>3. QED
    BY <2>1, <2>2 DEF Synth!LeadCopSees
<1>6. ASSUME NEW p, NEW tick, NEW count
      PROVE  Synth("thief", p, tick, count)!ThiefSees =
               [obs  |-> View(p.your_pos, {Opponent(p)}, p.barriers, MaxBarriers - p.barriers_left,
                              tick, count),
                mask |-> MoveMask(p.your_pos, p.barriers)]
  <2>1. Synth("thief", p, tick, count)!ThiefMask = MoveMask(p.your_pos, p.barriers)
    BY <1>1, <1>3 DEF Synth!ThiefMask, MoveMask
  <2>2. Synth("thief", p, tick, count)!ThiefObservation
           = View(p.your_pos, {Opponent(p)}, p.barriers, MaxBarriers - p.barriers_left, tick, count)
    BY <1>0, <1>1, <1>4 DEF Synth!ThiefObservation
  <2>3. QED
    BY <2>1, <2>2 DEF Synth!ThiefSees
<1>7. QED
  BY <1>5, <1>6 DEF WireSees

(* Barriers beyond the referee's radius and an opponent beyond the agent's  *)
(* change nothing of what the agent is shown.                               *)
LEMMA SameView ==
    ASSUME NEW you \in Board, NEW real \in Board, NEW shown \in Board, NEW walls \in SUBSET Board,
           Distance(you, real) <= Radius => shown = real,
           Distance(you, real) > Radius => Distance(you, shown) > Radius,
           NEW spent, NEW tick, NEW count
    PROVE  LET near == {b \in walls : Distance(b, you) <= RefereeRadius}
           IN  View(you, {shown}, near, spent, tick, count) = View(you, {real}, walls, spent, tick, count)
<1> DEFINE near == {b \in walls : Distance(b, you) <= RefereeRadius}
           visible == {o \in env!Window : env!At(you, o) \in Board /\ InView(you, env!At(you, o))}
<1>1. Distance(you, real) \in Nat /\ Distance(you, shown) \in Nat
  BY Distances
<1>2. InView(you, shown) <=> InView(you, real)
  BY <1>1, Radii DEF InView
<1>3. InView(you, shown) \/ InView(you, real) => shown = real
  BY <1>1, <1>2 DEF InView
<1>4. ASSUME NEW o \in visible PROVE env!At(you, o) \in near <=> env!At(you, o) \in walls
  <2>1. PICK c \in Board : c = env!At(you, o)
    BY <1>4
  <2>2. Distance(you, c) <= Radius
    BY <1>4, <2>1 DEF InView
  <2>3. Distance(you, c) = Distance(c, you) /\ Distance(you, c) \in Nat
    BY Distances
  <2>4. Distance(c, you) <= RefereeRadius
    BY <2>2, <2>3, Radii
  <2>5. QED
    BY <2>1, <2>4
<1>5. ASSUME NEW o \in visible PROVE env!At(you, o) \in {shown} <=> env!At(you, o) \in {real}
  BY <1>3, <1>5
<1>6. {o \in visible : env!At(you, o) \in near} = {o \in visible : env!At(you, o) \in walls}
  BY <1>4
<1>7. {o \in visible : env!At(you, o) \in {shown}} = {o \in visible : env!At(you, o) \in {real}}
  BY <1>5
<1>8. (\E o \in {shown} : InView(you, o)) = (\E o \in {real} : InView(you, o))
  BY <1>2
<1>9. QED
  BY <1>6, <1>7, <1>8 DEF View

LEMMA SameMask ==
    ASSUME NEW you \in Board, NEW walls \in SUBSET Board
    PROVE  LET near == {b \in walls : Distance(b, you) <= RefereeRadius}
           IN  /\ OpenMoves(you, near) = OpenMoves(you, walls)
               /\ MoveMask(you, near) = MoveMask(you, walls)
               /\ \A spent : PlaceMask(you, near, spent) = PlaceMask(you, walls, spent)
<1> DEFINE near == {b \in walls : Distance(b, you) <= RefereeRadius}
<1>1. ASSUME NEW m \in Moves
      PROVE  Target(you, m) \in near <=> Target(you, m) \in walls
  BY Distances, Radii
<1>2. you \in near <=> you \in walls
  BY Distances, Radii
<1> HIDE DEF near
<1>3. OpenMoves(you, near) = OpenMoves(you, walls)
  BY <1>1 DEF OpenMoves
<1>4. QED
  BY <1>2, <1>3 DEF MoveMask, PlaceMask, near

(* The environment's memories are what the sessions of the two roles count. *)
MemoryInv ==
    /\ copMemory[0] = IF InView(cops[0], thief) THEN 0 ELSE since["cop"] + 1
    /\ thiefMemory = IF InView(thief, cops[0]) THEN 0 ELSE since["thief"] + 1

LEMMA OneCop == Cops = {0} /\ 0 \in Cops
BY PlayAssumption DEF Cops

LEMMA MemoryStart == PlayInit => MemoryInv
BY OneCop DEF PlayInit, Init, Roles, MemoryInv

LEMMA MemoryReset == ASSUME NewGame PROVE MemoryInv'
BY OneCop DEF NewGame, Reset, Remember, Roles, MemoryInv

LEMMA MemoryTick ==
    ASSUME IInv, MemoryInv, Tick
    PROVE  MemoryInv'
<1>1. PICK act, thiefAct : Step(act, thiefAct)
  BY DEF Tick
<1>2. /\ copMemory'[0] = IF InView(cops'[0], thief') THEN 0 ELSE copMemory[0] + 1
      /\ thiefMemory' = IF InView(thief', cops'[0]) THEN 0 ELSE thiefMemory + 1
  BY <1>1, OneCop DEF Step, Remember
<1>3. since'["cop"] = Counted("cop") /\ since'["thief"] = Counted("thief")
  BY DEF Tick, Roles
<1>4. Counted("cop") = copMemory[0] /\ Counted("thief") = thiefMemory
  <2>1. TypeOK /\ "cop" \in Roles /\ "thief" \in Roles
    BY DEF IInv, Roles
  <2>2. /\ Counted("cop") = IF InView(Cell("cop"), Cell(Other("cop"))) THEN 0 ELSE since["cop"] + 1
        /\ Counted("thief") =
             IF InView(Cell("thief"), Cell(Other("thief"))) THEN 0 ELSE since["thief"] + 1
    BY <2>1, SeenIsInView
  <2>3. QED
    BY <2>2 DEF MemoryInv, Cell, Other
<1>5. QED
  BY <1>2, <1>3, <1>4 DEF MemoryInv

LEMMA MemoryStep == IInv /\ MemoryInv /\ [PlayNext]_playVars => MemoryInv'
<1> SUFFICES ASSUME IInv, MemoryInv, [PlayNext]_playVars PROVE MemoryInv'
  OBVIOUS
<1>1. CASE UNCHANGED <<vars, mindVars>>
  BY <1>1 DEF vars, mindVars, MemoryInv
<1>2. CASE NewGame
  BY <1>2, MemoryReset
<1>3. CASE Tick
  BY <1>3, MemoryTick
<1>4. CASE WatchNext
  BY <1>1, <1>2, <1>4 DEF WatchNext
<1>5. CASE NextMatchup \/ NextEpisode \/ WatchReset
  BY <1>2, <1>5 DEF NextMatchup, NextEpisode, WatchReset
<1>6. CASE UNCHANGED playVars
  BY <1>1, <1>6 DEF playVars
<1>7. QED
  BY <1>3, <1>4, <1>5, <1>6 DEF PlayNext, Over

LEMMA WireSeesAll == IInv /\ MemoryInv => WireObsExact
<1> SUFFICES ASSUME IInv, MemoryInv PROVE WireObsExact
  OBVIOUS
<1>1. /\ TypeOK /\ cops[0] \in Board /\ thief \in Board /\ barriers \in SUBSET Board
      /\ used \in Nat /\ MaxBarriers \in Nat
      /\ Cell("cop") = cops[0] /\ Cell("thief") = thief
      /\ Cell(Other("cop")) = thief /\ Cell(Other("thief")) = cops[0]
      /\ "cop" \in Roles /\ "thief" \in Roles
  BY OneCop, BoardAssumption DEF IInv, TypeOK, Cell, Other, Roles
<1>2. Counted("cop") = copMemory[0] /\ Counted("thief") = thiefMemory
  <2>1. /\ Counted("cop") = IF InView(cops[0], thief) THEN 0 ELSE since["cop"] + 1
        /\ Counted("thief") = IF InView(thief, cops[0]) THEN 0 ELSE since["thief"] + 1
    BY <1>1, SeenIsInView
  <2>2. QED
    BY <2>1 DEF MemoryInv
<1>3. MaxBarriers - (MaxBarriers - used) = used
  BY <1>1
<1>4. WireSees("cop") = env!LeadCopSees
  <2> DEFINE p == Payload("cop", RefereeRadius)
             near == {b \in barriers : Distance(b, cops[0]) <= RefereeRadius}
  <2>1. /\ p.your_pos = cops[0] /\ p.barriers = near /\ p.barriers_left = MaxBarriers - used
    BY <1>1 DEF Payload, MaskPayload
  <2>2. /\ Opponent(p) \in Board
        /\ Distance(cops[0], thief) <= Radius => Opponent(p) = thief
        /\ Distance(cops[0], thief) > Radius => Distance(cops[0], Opponent(p)) > Radius
    BY <1>1, OpponentStands
  <2>3. WireSees("cop") =
           [obs  |-> View(p.your_pos, {Opponent(p)}, p.barriers, MaxBarriers - p.barriers_left,
                          step, Counted("cop")),
            mask |-> PlaceMask(p.your_pos, p.barriers, MaxBarriers - p.barriers_left)]
    BY WireShows
  <2> HIDE DEF p
  <2>4. View(cops[0], {Opponent(p)}, near, used, step, copMemory[0])
          = View(cops[0], {thief}, barriers, used, step, copMemory[0])
    BY <1>1, <2>2, SameView
  <2>5. PlaceMask(cops[0], near, used) = PlaceMask(cops[0], barriers, used)
    BY <1>1, SameMask
  <2>6. QED
    BY <1>2, <1>3, <2>1, <2>3, <2>4, <2>5, EnvShows
<1>5. WireSees("thief") = env!ThiefSees
  <2> DEFINE p == Payload("thief", RefereeRadius)
             near == {b \in barriers : Distance(b, thief) <= RefereeRadius}
  <2>1. /\ p.your_pos = thief /\ p.barriers = near /\ p.barriers_left = MaxBarriers - used
    BY <1>1 DEF Payload, MaskPayload
  <2>2. /\ Opponent(p) \in Board
        /\ Distance(thief, cops[0]) <= Radius => Opponent(p) = cops[0]
        /\ Distance(thief, cops[0]) > Radius => Distance(thief, Opponent(p)) > Radius
    BY <1>1, OpponentStands
  <2>3. WireSees("thief") =
           [obs  |-> View(p.your_pos, {Opponent(p)}, p.barriers, MaxBarriers - p.barriers_left,
                          step, Counted("thief")),
            mask |-> MoveMask(p.your_pos, p.barriers)]
    BY WireShows
  <2> HIDE DEF p
  <2>4. View(thief, {Opponent(p)}, near, used, step, thiefMemory)
          = View(thief, {cops[0]}, barriers, used, step, thiefMemory)
    BY <1>1, <2>2, SameView
  <2>5. MoveMask(thief, near) = MoveMask(thief, barriers)
    BY <1>1, SameMask
  <2>6. {cops[i] : i \in Cops} = {cops[0]}
    BY OneCop
  <2>7. QED
    BY <1>2, <1>3, <2>1, <2>3, <2>4, <2>5, <2>6, EnvShows
<1>6. ASSUME NEW r \in Roles, Payload(r, RefereeRadius).opponent_pos = NoCell
      PROVE  Distance(FarCell(Cell(r)), Cell(r)) > Radius
  <2>1. Cell(r) \in Board /\ Cell(Other(r)) \in Board
    BY <1>1, CellTypes
  <2>2. Distance(Cell(r), FarCell(Cell(r))) > Radius
    BY <1>1, <1>6, OpponentStands
  <2>3. Distance(Cell(r), FarCell(Cell(r))) = Distance(FarCell(Cell(r)), Cell(r))
    BY <2>1, FarCellIsFar, Distances
  <2>4. QED
    BY <2>2, <2>3
<1>7. QED
  BY <1>4, <1>5, <1>6 DEF WireObsExact

(* The payload lets an agent of either role rebuild the environment's own   *)
(* observation and mask on every tick, for every board, budget, view and    *)
(* referee's radius that new_session accepts.                               *)
THEOREM WireSeesTheSame == PlaySpec => []WireObsExact
BY PlayStart, PlayStep, MemoryStart, MemoryStep, WireSeesAll, PTL DEF PlaySpec
-----------------------------------------------------------------------------
(* The breadth-first search of the cop's expert.                            *)
SearchStates == [queue : Seq(Board), first : [Board -> Moves \union {NoMove}]]

LEMMA VisitTypes ==
    ASSUME NEW s \in SearchStates, NEW cell \in Board, NEW move \in Moves, NEW start \in Board
    PROVE  Visit(s, cell, move, start) \in SearchStates
<1> DEFINE nxt == Target(cell, move)
           skip == ~CanEnter(nxt, cell) \/ nxt = start \/ s.first[nxt] # NoMove
           more == [queue |-> Append(s.queue, nxt),
                    first |-> [s.first EXCEPT ![nxt] = FirstMove(cell, move, start, s.first)]]
<1>1. Visit(s, cell, move, start) = IF skip THEN s ELSE more
  BY DEF Visit
<1>2. s.queue \in Seq(Board) /\ s.first \in [Board -> Moves \union {NoMove}]
  BY DEF SearchStates
<1>3. CASE ~skip
  <2>1. nxt \in Board
    BY <1>3 DEF CanEnter
  <2>2. FirstMove(cell, move, start, s.first) \in Moves \union {NoMove}
    BY <1>2 DEF FirstMove
  <2> HIDE DEF nxt
  <2>3. Append(s.queue, nxt) \in Seq(Board)
    BY <1>2, <2>1
  <2>4. [s.first EXCEPT ![nxt] = FirstMove(cell, move, start, s.first)]
           \in [Board -> Moves \union {NoMove}]
    BY <1>2, <2>1, <2>2
  <2>5. QED
    BY <1>1, <1>3, <2>3, <2>4 DEF SearchStates
<1>4. QED
  BY <1>1, <1>3

LEMMA DequeueTypes ==
    ASSUME NEW s \in SearchStates, NEW n \in Nat \ {0}, NEW start \in Board
    PROVE  Dequeue(s, n, start) \in SearchStates
<1>1. CASE n > Len(s.queue)
  BY <1>1 DEF Dequeue
<1>2. CASE ~(n > Len(s.queue))
  <2> DEFINE cell == s.queue[n]
             s1 == Visit(s, cell, "UP", start)
             s2 == Visit(s1, cell, "DOWN", start)
             s3 == Visit(s2, cell, "LEFT", start)
             s4 == Visit(s3, cell, "RIGHT", start)
  <2>1. cell \in Board
    BY <1>2 DEF SearchStates
  <2>2. "UP" \in Moves /\ "DOWN" \in Moves /\ "LEFT" \in Moves /\ "RIGHT" \in Moves
    BY DEF Moves
  <2>3. Dequeue(s, n, start) = s4
    BY <1>2 DEF Dequeue
  <2> HIDE DEF cell
  <2>4. s1 \in SearchStates
    BY <2>1, <2>2, VisitTypes
  <2> HIDE DEF s1
  <2>5. s2 \in SearchStates
    BY <2>1, <2>2, <2>4, VisitTypes
  <2> HIDE DEF s2
  <2>6. s3 \in SearchStates
    BY <2>1, <2>2, <2>5, VisitTypes
  <2> HIDE DEF s3
  <2>7. s4 \in SearchStates
    BY <2>1, <2>2, <2>6, VisitTypes
  <2>8. QED
    BY <2>3, <2>7
<1>3. QED
  BY <1>1, <1>2

LEMMA CellsFinite == IsFiniteSet(Board) /\ Cardinality(Board) \in Nat
<1>1. IsFiniteSet(0 .. H - 1) /\ IsFiniteSet(0 .. W - 1)
  BY BoardAssumption, FS_Interval
<1>2. QED
  BY <1>1, FS_Product, FS_CardinalityType DEF Board

(* The states the search goes through, one dequeued cell after the other. *)
LEMMA Searched ==
    ASSUME NEW start \in Board
    PROVE  \E g \in [0 .. Cardinality(Board) -> SearchStates] :
              /\ g[0] = Opened(start)
              /\ \A n \in 1 .. Cardinality(Board) : g[n] = Dequeue(g[n - 1], n, start)
              /\ \A goal : BfsFirstStep(start, goal) = g[Cardinality(Board)].first[goal]
<1> DEFINE N == Cardinality(Board)
           op == [n \in 1 .. N |-> [s \in SearchStates |-> Dequeue(s, n, start)]]
           Rule(g) == g = [n \in 0 .. N |-> IF n = 0 THEN Opened(start)
                                             ELSE Dequeue(g[n - 1], n, start)]
           search == CHOOSE g : Rule(g)
<1>1. N \in Nat
  BY CellsFinite
<1>2. Opened(start) \in SearchStates
  BY DEF Opened, SearchStates
<1>3. op \in Operations(N, SearchStates)
  <2>1. \A n \in 1 .. N, s \in SearchStates : Dequeue(s, n, start) \in SearchStates
    BY <1>1, DequeueTypes
  <2>2. QED
    BY <2>1 DEF Operations
<1>4. PICK h \in [0 .. N -> SearchStates] :
         h[0] = Opened(start) /\ \A n \in 1 .. N : h[n] = op[n][h[n - 1]]
  <2> HIDE DEF op, N
  <2>1. \E h : Runs(h, N, SearchStates, Opened(start), op)
    BY <1>1, <1>2, <1>3, RecursionIn
  <2>2. QED
    BY <2>1 DEF Runs
<1>5. \A n \in 1 .. N : h[n] = Dequeue(h[n - 1], n, start)
  <2>1. TAKE n \in 1 .. N
  <2>2. n - 1 \in 0 .. N
    BY <1>1
  <2>3. h[n] = op[n][h[n - 1]] /\ h[n - 1] \in SearchStates
    BY <1>4, <2>2
  <2>4. QED
    BY <2>3
<1>6. Rule(h)
  <2>1. \A n \in 0 .. N : h[n] = IF n = 0 THEN Opened(start) ELSE Dequeue(h[n - 1], n, start)
    BY <1>1, <1>4, <1>5
  <2>2. h = [n \in 0 .. N |-> h[n]]
    BY <1>4
  <2>3. QED
    BY <2>1, <2>2, Zenon
<1>7. Rule(search)
  BY <1>6, Zenon
<1>8. \A goal : BfsFirstStep(start, goal) = search[N].first[goal]
  BY DEF BfsFirstStep
<1> HIDE DEF search
<1>9. \A n \in 0 .. N : search[n] = IF n = 0 THEN Opened(start)
                                    ELSE Dequeue(search[n - 1], n, start)
  BY <1>7, Zenon
<1>10. search[0] = Opened(start) /\ \A n \in 1 .. N : search[n] = Dequeue(search[n - 1], n, start)
  BY <1>1, <1>9
<1> DEFINE Good == {n \in 0 .. N : search[n] \in SearchStates}
<1>11. \A n \in 0 .. N : n \in Good
  <2>1. 0 \in Good
    BY <1>1, <1>2, <1>10
  <2>2. \A n \in 1 .. N : n - 1 \in Good => n \in Good
    BY <1>1, <1>10, DequeueTypes
  <2> HIDE DEF Good, N
  <2>3. QED
    BY <1>1, <2>1, <2>2, UpTo
<1>12. search \in [0 .. N -> SearchStates]
  <2>1. search = [n \in 0 .. N |-> search[n]]
    BY <1>7, Zenon
  <2>2. QED
    BY <1>11, <2>1
<1>13. QED
  BY <1>8, <1>10, <1>12
-----------------------------------------------------------------------------
(* Why the search is right.  Four times the length of the way to a cell and *)
(* the index of its opening move make one number, K[c]; the queue is sorted *)
(* by it.  Leap: what a cell entered by m from the one at n is to get.      *)
Leap(K, q, n, m) == IF n = 1 THEN 4 + Index(m) ELSE K[q[n]] + 4

Below(q, K, b) == \A i \in DOMAIN q : K[q[i]] <= b

(* Every cell but the start was entered from one that was handed out before.*)
Entered(q, first, K) ==
    \A i \in DOMAIN q \ {1} :
        \E p \in 1 .. i - 1 : \E m \in LegalMoves(q[p]) :
            /\ q[i] = Target(q[p], m)
            /\ first[q[i]] = IF p = 1 THEN m ELSE first[q[p]]
            /\ K[q[i]] = Leap(K, q, p, m)

(* A move that was tried leads to a cell in the queue, no later than it.    *)
Tried(q, K, done) ==
    \A e \in done : e[2] \in LegalMoves(q[e[1]]) =>
        \E j \in DOMAIN q : q[j] = Target(q[e[1]], e[2]) /\ K[q[j]] <= Leap(K, q, e[1], e[2])

Sorted(q, K) == \A i, j \in DOMAIN q : i <= j => K[q[i]] <= K[q[j]]

Numbered(q, first, K) ==
    \A i \in DOMAIN q \ {1} : \E d \in 1 .. i - 1 : K[q[i]] = 4 * d + Index(first[q[i]])

Marked(q, first) ==
    \A c \in Board : first[c] # NoMove <=> \E i \in DOMAIN q : i # 1 /\ q[i] = c

SearchInv(q, first, K, start, done) ==
    /\ q \in Seq(Board) /\ first \in [Board -> Moves \union {NoMove}] /\ K \in [Board -> Nat]
    /\ 1 \in DOMAIN q /\ q[1] = start /\ K[start] = 3
    /\ \A i, j \in DOMAIN q : q[i] = q[j] => i = j
    /\ Sorted(q, K) /\ Marked(q, first) /\ Entered(q, first, K) /\ Numbered(q, first, K)
    /\ done \subseteq (DOMAIN q) \X Moves /\ Tried(q, K, done)

LEMMA Indices ==
    /\ \A m \in Moves : Index(m) \in 0 .. 3
    /\ \A m, n \in Moves : Index(m) = Index(n) => m = n
    /\ Index("UP") = 0 /\ Index("DOWN") = 1 /\ Index("LEFT") = 2 /\ Index("RIGHT") = 3
    /\ NoMove \notin Moves
<1>1. Index("UP") = 0 /\ Index("DOWN") = 1 /\ Index("LEFT") = 2 /\ Index("RIGHT") = 3
  BY DEF Index
<1>2. \A m \in Moves : m = "UP" \/ m = "DOWN" \/ m = "LEFT" \/ m = "RIGHT"
  BY DEF Moves
<1>3. NoMove \notin Moves
  BY DEF Moves, NoMove
<1>4. \A m \in Moves : Index(m) \in 0 .. 3
  BY <1>1, <1>2
<1>5. \A m, n \in Moves : Index(m) = Index(n) => m = n
  BY <1>1, <1>2
<1>6. QED
  BY <1>1, <1>3, <1>4, <1>5

(* A move that leads nowhere new changes nothing but what was tried. *)
LEMMA VisitKnown ==
    ASSUME NEW q, NEW first, NEW K, NEW start \in Board, NEW done,
           SearchInv(q, first, K, start, done),
           NEW n \in DOMAIN q, NEW m \in Moves, Below(q, K, Leap(K, q, n, m)),
           ~CanEnter(Target(q[n], m), q[n]) \/ Target(q[n], m) = start
             \/ first[Target(q[n], m)] # NoMove
    PROVE  SearchInv(q, first, K, start, done \union {<<n, m>>})
<1>1. /\ done \union {<<n, m>>} \subseteq (DOMAIN q) \X Moves
      /\ 1 \in DOMAIN q /\ q[1] = start
  <2>1. done \subseteq (DOMAIN q) \X Moves /\ 1 \in DOMAIN q /\ q[1] = start
    BY DEF SearchInv
  <2>2. <<n, m>> \in (DOMAIN q) \X Moves
    OBVIOUS
  <2>3. QED
    BY <2>1, <2>2
<1>2. ASSUME m \in LegalMoves(q[n])
      PROVE  \E j \in DOMAIN q : q[j] = Target(q[n], m)
  <2>1. Target(q[n], m) \in Board
    BY <1>2 DEF LegalMoves, CanEnter
  <2>2. Target(q[n], m) = start \/ first[Target(q[n], m)] # NoMove
    BY <1>2 DEF LegalMoves
  <2>3. QED
    BY <1>1, <2>1, <2>2 DEF SearchInv, Marked
<1>3. Tried(q, K, done \union {<<n, m>>})
  <2>1. ASSUME NEW e \in done \union {<<n, m>>}, e[2] \in LegalMoves(q[e[1]])
        PROVE  \E j \in DOMAIN q : /\ q[j] = Target(q[e[1]], e[2])
                                   /\ K[q[j]] <= Leap(K, q, e[1], e[2])
    <3>1. CASE e \in done
      BY <2>1, <3>1 DEF SearchInv, Tried
    <3>2. CASE e = <<n, m>>
      <4>1. e[1] = n /\ e[2] = m
        BY <3>2
      <4>2. PICK j \in DOMAIN q : q[j] = Target(q[n], m)
        BY <1>2, <2>1, <4>1
      <4>3. K[q[j]] <= Leap(K, q, n, m)
        BY DEF Below
      <4>4. QED
        BY <4>1, <4>2, <4>3
    <3>3. QED
      BY <3>1, <3>2
  <2>2. QED
    BY <2>1 DEF Tried
<1>4. QED
  BY <1>1, <1>3 DEF SearchInv

(* A cell seen for the first time goes to the end, with the highest number. *)
Queued(q, first, K, start, n, m, nxt, q2, first2, K2) ==
    /\ q2 = Append(q, nxt)
    /\ first2 = [first EXCEPT ![nxt] = FirstMove(q[n], m, start, first)]
    /\ K2 = [K EXCEPT ![nxt] = Leap(K, q, n, m)]

LEMMA VisitNew ==
    ASSUME NEW q, NEW first, NEW K, NEW start \in Board, NEW done,
           SearchInv(q, first, K, start, done),
           NEW n \in DOMAIN q, NEW m \in Moves, Below(q, K, Leap(K, q, n, m)),
           NEW nxt, nxt = Target(q[n], m), m \in LegalMoves(q[n]), nxt # start, first[nxt] = NoMove,
           NEW q2, NEW f2, NEW K2, Queued(q, first, K, start, n, m, nxt, q2, f2, K2)
    PROVE  /\ SearchInv(q2, f2, K2, start, done \union {<<n, m>>})
           /\ Below(q2, K2, Leap(K2, q2, n, m)) /\ n \in DOMAIN q2 /\ q2[n] = q[n]
<1> DEFINE b == Leap(K, q, n, m)
<1>1. PICK L \in Nat : L = Len(q)
  BY DEF SearchInv
<1>2. /\ q \in Seq(Board) /\ first \in [Board -> Moves \union {NoMove}] /\ K \in [Board -> Nat]
      /\ DOMAIN q = 1 .. L /\ 1 <= L /\ q[1] = start /\ K[start] = 3
      /\ \A i \in 1 .. L : q[i] \in Board
  BY <1>1 DEF SearchInv
<1>3. nxt \in Board
  BY DEF LegalMoves, CanEnter
<1>4. \A i \in 1 .. L : q[i] # nxt
  <2>1. TAKE i \in 1 .. L
  <2>2. CASE i = 1
    BY <1>2, <2>2
  <2>3. CASE i # 1
    BY <1>2, <1>3, <2>3 DEF SearchInv, Marked
  <2>4. QED
    BY <2>2, <2>3
<1>5. /\ DOMAIN q2 = 1 .. L + 1 /\ q2 \in Seq(Board) /\ q2[L + 1] = nxt
      /\ \A i \in 1 .. L : q2[i] = q[i]
  BY <1>1, <1>2, <1>3 DEF Queued
<1>6. n \in 1 .. L /\ q[n] \in Board /\ Index(m) \in 0 .. 3
  BY <1>2, Indices
<1>7. b \in Nat /\ b >= 4
  BY <1>2, <1>6 DEF Leap
<1>8. FirstMove(q[n], m, start, first) = (IF n = 1 THEN m ELSE first[q[n]])
  <2>1. q[n] = start <=> n = 1
    BY <1>2, <1>6 DEF SearchInv
  <2>2. QED
    BY <2>1 DEF FirstMove
<1>9. FirstMove(q[n], m, start, first) \in Moves
  <2>1. CASE n = 1
    BY <1>8, <2>1
  <2>2. CASE n # 1
    <3>1. first[q[n]] # NoMove
      BY <1>2, <1>6, <2>2 DEF SearchInv, Marked
    <3>2. QED
      BY <1>2, <1>6, <1>8, <2>2, <3>1
  <2>3. QED
    BY <2>1, <2>2
<1>10. /\ f2 \in [Board -> Moves \union {NoMove}] /\ K2 \in [Board -> Nat]
       /\ f2[nxt] = FirstMove(q[n], m, start, first) /\ K2[nxt] = b
       /\ \A c \in Board \ {nxt} : f2[c] = first[c] /\ K2[c] = K[c]
  <2> HIDE DEF b
  <2>1. QED
    BY <1>2, <1>3, <1>7, <1>9 DEF b, Queued
<1>11. \A i \in 1 .. L : K2[q2[i]] = K[q[i]] /\ f2[q2[i]] = first[q[i]]
  BY <1>2, <1>4, <1>5, <1>10
<1>12. \A p \in 1 .. L : \A a \in Moves : Leap(K2, q2, p, a) = Leap(K, q, p, a)
  BY <1>11 DEF Leap
<1>13. /\ 1 \in DOMAIN q2 /\ q2[1] = start /\ K2[start] = 3
  <2>1. 1 \in 1 .. L
    BY <1>2
  <2>2. QED
    BY <1>2, <1>5, <1>11, <2>1
<1>14. \A i \in 1 .. L : K[q[i]] <= b
  BY <1>2 DEF Below
<1>15. \A i \in 1 .. L + 1 : i \in 1 .. L \/ i = L + 1
  OBVIOUS
<1>16. ASSUME NEW i \in DOMAIN q2, NEW j \in DOMAIN q2, q2[i] = q2[j] PROVE i = j
  <2>1. ASSUME NEW k \in 1 .. L, NEW l \in 1 .. L, q[k] = q[l] PROVE k = l
    BY <1>2, <2>1 DEF SearchInv
  <2>2. QED
    BY <1>4, <1>5, <1>15, <1>16, <2>1
<1>17. Sorted(q2, K2)
  <2>1. ASSUME NEW i \in DOMAIN q2, NEW j \in DOMAIN q2, i <= j PROVE K2[q2[i]] <= K2[q2[j]]
    <3>1. CASE j = L + 1
      <4>1. K2[q2[j]] = b
        BY <1>5, <1>10, <3>1
      <4>2. K2[q2[i]] <= b
        BY <1>5, <1>7, <1>10, <1>11, <1>14, <1>15
      <4>3. QED
        BY <4>1, <4>2
    <3>2. CASE j # L + 1
      <4>1. i \in 1 .. L /\ j \in 1 .. L
        BY <1>5, <2>1, <3>2
      <4>2. K[q[i]] <= K[q[j]]
        BY <1>2, <2>1, <4>1 DEF SearchInv, Sorted
      <4>3. QED
        BY <1>11, <4>1, <4>2
    <3>3. QED
      BY <3>1, <3>2
  <2>2. QED
    BY <2>1 DEF Sorted
<1>18. Marked(q2, f2)
  <2>1. ASSUME NEW c \in Board
        PROVE  f2[c] # NoMove <=> \E i \in DOMAIN q2 : i # 1 /\ q2[i] = c
    <3>1. CASE c = nxt
      <4>1. f2[c] # NoMove
        BY <1>9, <1>10, <3>1, Indices
      <4>2. L + 1 \in DOMAIN q2 /\ L + 1 # 1
        BY <1>2, <1>5
      <4>3. QED
        BY <1>5, <3>1, <4>1, <4>2
    <3>2. CASE c # nxt
      <4>1. f2[c] = first[c]
        BY <1>10, <3>2
      <4>2. first[c] # NoMove <=> \E i \in 1 .. L : i # 1 /\ q[i] = c
        BY <1>2 DEF SearchInv, Marked
      <4>3. (\E i \in 1 .. L : i # 1 /\ q[i] = c) <=> (\E i \in DOMAIN q2 : i # 1 /\ q2[i] = c)
        BY <1>5, <1>15, <3>2
      <4>4. QED
        BY <4>1, <4>2, <4>3
    <3>3. QED
      BY <3>1, <3>2
  <2>2. QED
    BY <2>1 DEF Marked
<1>19. Entered(q2, f2, K2)
  <2>1. ASSUME NEW i \in DOMAIN q2 \ {1}
        PROVE  \E p \in 1 .. i - 1 : \E a \in LegalMoves(q2[p]) :
                  /\ q2[i] = Target(q2[p], a)
                  /\ f2[q2[i]] = IF p = 1 THEN a ELSE f2[q2[p]]
                  /\ K2[q2[i]] = Leap(K2, q2, p, a)
    <3>1. CASE i = L + 1
      <4>1. n \in 1 .. i - 1 /\ q2[n] = q[n] /\ f2[q2[n]] = first[q[n]]
        BY <1>5, <1>6, <1>11, <3>1
      <4>2. f2[q2[i]] = (IF n = 1 THEN m ELSE f2[q2[n]]) /\ K2[q2[i]] = Leap(K2, q2, n, m)
        BY <1>5, <1>6, <1>8, <1>10, <1>12, <3>1, <4>1
      <4>3. q2[i] = Target(q2[n], m) /\ m \in LegalMoves(q2[n])
        BY <1>5, <3>1, <4>1
      <4>4. QED
        BY <4>1, <4>2, <4>3
    <3>2. CASE i # L + 1
      <4>1. i \in 1 .. L /\ i \in DOMAIN q \ {1}
        BY <1>2, <1>5, <1>15, <3>2
      <4>2. PICK p \in 1 .. i - 1 : \E a \in LegalMoves(q[p]) :
               /\ q[i] = Target(q[p], a)
               /\ first[q[i]] = IF p = 1 THEN a ELSE first[q[p]]
               /\ K[q[i]] = Leap(K, q, p, a)
        BY <4>1 DEF SearchInv, Entered
      <4>3. PICK a \in LegalMoves(q[p]) :
               /\ q[i] = Target(q[p], a)
               /\ first[q[i]] = IF p = 1 THEN a ELSE first[q[p]]
               /\ K[q[i]] = Leap(K, q, p, a)
        BY <4>2
      <4>4. p \in 1 .. L
        BY <4>1
      <4>5. a \in LegalMoves(q2[p]) /\ q2[i] = Target(q2[p], a) /\ a \in Moves
        BY <1>5, <4>1, <4>4, <4>3 DEF LegalMoves
      <4>6. f2[q2[i]] = (IF p = 1 THEN a ELSE f2[q2[p]]) /\ K2[q2[i]] = Leap(K2, q2, p, a)
        BY <1>11, <1>12, <4>1, <4>4, <4>5, <4>3
      <4>7. QED
        BY <4>5, <4>6
    <3>3. QED
      BY <3>1, <3>2
  <2>2. QED
    BY <2>1 DEF Entered
<1>20. Numbered(q2, f2, K2)
  <2>1. ASSUME NEW i \in DOMAIN q2 \ {1}
        PROVE  \E d \in 1 .. i - 1 : K2[q2[i]] = 4 * d + Index(f2[q2[i]])
    <3>1. CASE i = L + 1 /\ n = 1
      <4>1. K2[q2[i]] = 4 * 1 + Index(f2[q2[i]])
        BY <1>5, <1>8, <1>10, <3>1 DEF Leap
      <4>2. 1 \in 1 .. i - 1
        BY <1>2, <3>1
      <4>3. QED
        BY <4>1, <4>2
    <3>2. CASE i = L + 1 /\ n # 1
      <4>1. PICK d \in 1 .. n - 1 : K[q[n]] = 4 * d + Index(first[q[n]])
        BY <1>2, <1>6, <3>2 DEF SearchInv, Numbered
      <4>2. K2[q2[i]] = K[q[n]] + 4 /\ f2[q2[i]] = first[q[n]]
        BY <1>5, <1>8, <1>10, <3>2 DEF Leap
      <4>3. Index(first[q[n]]) \in Int
        BY <1>8, <1>9, <3>2, Indices
      <4>4. K2[q2[i]] = 4 * (d + 1) + Index(f2[q2[i]]) /\ d + 1 \in 1 .. i - 1
        BY <1>6, <3>2, <4>1, <4>2, <4>3
      <4>5. QED
        BY <4>4
    <3>3. CASE i # L + 1
      <4>1. i \in 1 .. L /\ i \in DOMAIN q \ {1}
        BY <1>2, <1>5, <1>15, <3>3
      <4>2. PICK d \in 1 .. i - 1 : K[q[i]] = 4 * d + Index(first[q[i]])
        BY <4>1 DEF SearchInv, Numbered
      <4>3. QED
        BY <1>11, <4>1, <4>2
    <3>4. QED
      BY <3>1, <3>2, <3>3
  <2>2. QED
    BY <2>1 DEF Numbered
<1>21. /\ done \union {<<n, m>>} \subseteq (DOMAIN q2) \X Moves
       /\ \A e \in done : e[1] \in 1 .. L /\ e[2] \in Moves
  <2>1. done \subseteq (DOMAIN q) \X Moves
    BY DEF SearchInv
  <2>2. \A e \in done : e \in (1 .. L) \X Moves
    BY <1>2, <2>1
  <2>3. (1 .. L) \X Moves \subseteq (DOMAIN q2) \X Moves
    BY <1>5
  <2>4. <<n, m>> \in (DOMAIN q2) \X Moves
    BY <1>5, <1>6
  <2>5. QED
    BY <2>2, <2>3, <2>4
<1>22. Tried(q2, K2, done \union {<<n, m>>})
  <2>1. ASSUME NEW e \in done \union {<<n, m>>}, e[2] \in LegalMoves(q2[e[1]])
        PROVE  \E j \in DOMAIN q2 : /\ q2[j] = Target(q2[e[1]], e[2])
                                    /\ K2[q2[j]] <= Leap(K2, q2, e[1], e[2])
    <3>1. CASE e \in done
      <4>1. e[1] \in 1 .. L /\ e[2] \in Moves
        BY <1>21, <3>1
      <4>2. PICK j \in 1 .. L : q[j] = Target(q[e[1]], e[2]) /\ K[q[j]] <= Leap(K, q, e[1], e[2])
        BY <1>2, <1>5, <2>1, <3>1, <4>1 DEF SearchInv, Tried
      <4>3. j \in DOMAIN q2 /\ q2[j] = Target(q2[e[1]], e[2])
        BY <1>5, <4>1, <4>2
      <4>4. K2[q2[j]] <= Leap(K2, q2, e[1], e[2])
        BY <1>11, <1>12, <4>1, <4>2
      <4>5. QED
        BY <4>3, <4>4
    <3>2. CASE e = <<n, m>>
      <4>1. e[1] = n /\ e[2] = m /\ q2[n] = q[n]
        BY <1>5, <1>6, <3>2
      <4>2. L + 1 \in DOMAIN q2 /\ q2[L + 1] = Target(q2[n], m)
        BY <1>5, <4>1
      <4>3. K2[q2[L + 1]] <= Leap(K2, q2, n, m)
        BY <1>5, <1>6, <1>7, <1>10, <1>12
      <4>4. QED
        BY <4>1, <4>2, <4>3
    <3>3. QED
      BY <3>1, <3>2
  <2>2. QED
    BY <2>1 DEF Tried
<1>23. SearchInv(q2, f2, K2, start, done \union {<<n, m>>})
  BY <1>5, <1>10, <1>13, <1>16, <1>17, <1>18, <1>19, <1>20, <1>21, <1>22 DEF SearchInv
<1>24. Below(q2, K2, Leap(K2, q2, n, m))
  <2>1. Leap(K2, q2, n, m) = b
    BY <1>6, <1>12
  <2>2. ASSUME NEW i \in DOMAIN q2 PROVE K2[q2[i]] <= b
    BY <1>5, <1>7, <1>10, <1>11, <1>14, <1>15
  <2>3. QED
    BY <2>1, <2>2 DEF Below
<1>25. n \in DOMAIN q2 /\ q2[n] = q[n]
  BY <1>2, <1>5, <1>6
<1>26. QED
  BY <1>23, <1>24, <1>25

(* About to try m from the cell at n. *)
Trying(s, K, start, done, n, m) ==
    /\ s \in SearchStates /\ SearchInv(s.queue, s.first, K, start, done)
    /\ n \in DOMAIN s.queue /\ Below(s.queue, K, Leap(K, s.queue, n, m))

LEMMA LeapTypes ==
    ASSUME NEW q, NEW first, NEW K, NEW start \in Board, NEW done,
           SearchInv(q, first, K, start, done), NEW n \in DOMAIN q
    PROVE  /\ \A m \in Moves : Leap(K, q, n, m) \in Nat
           /\ \A m, a \in Moves : Index(m) <= Index(a) => Leap(K, q, n, m) <= Leap(K, q, n, a)
           /\ \A i \in DOMAIN q : K[q[i]] \in Nat
<1>1. \A i \in DOMAIN q : K[q[i]] \in Nat
  BY DEF SearchInv
<1>2. \A m \in Moves : Index(m) \in 0 .. 3
  BY Indices
<1>3. QED
  BY <1>1, <1>2 DEF Leap

LEMMA VisitSound ==
    ASSUME NEW s, NEW K, NEW start \in Board, NEW done, NEW n, NEW m \in Moves,
           Trying(s, K, start, done, n, m), NEW a \in Moves, Index(m) <= Index(a)
    PROVE  LET s2 == Visit(s, s.queue[n], m, start)
           IN  /\ s2.queue[n] = s.queue[n]
               /\ \E K2 : Trying(s2, K2, start, done \union {<<n, m>>}, n, a)
<1> DEFINE q == s.queue
           cell == q[n]
           nxt == Target(cell, m)
           skip == ~CanEnter(nxt, cell) \/ nxt = start \/ s.first[nxt] # NoMove
           s2 == Visit(s, cell, m, start)
<1>1. /\ s \in SearchStates /\ SearchInv(q, s.first, K, start, done)
      /\ n \in DOMAIN q /\ Below(q, K, Leap(K, q, n, m)) /\ cell \in Board
  BY DEF Trying, SearchInv
<1>2. s2 \in SearchStates
  BY <1>1, VisitTypes
<1>3. ASSUME NEW q2, NEW first2, NEW K2, SearchInv(q2, first2, K2, start, done \union {<<n, m>>}),
             n \in DOMAIN q2, Below(q2, K2, Leap(K2, q2, n, m))
      PROVE  Below(q2, K2, Leap(K2, q2, n, a))
  <2>1. /\ Leap(K2, q2, n, m) \in Nat /\ Leap(K2, q2, n, a) \in Nat
        /\ Leap(K2, q2, n, m) <= Leap(K2, q2, n, a) /\ \A i \in DOMAIN q2 : K2[q2[i]] \in Nat
    BY <1>3, LeapTypes
  <2>2. QED
    BY <1>3, <2>1 DEF Below
<1>4. CASE skip
  <2>1. s2 = s
    BY <1>4 DEF Visit
  <2>2. SearchInv(q, s.first, K, start, done \union {<<n, m>>})
    BY <1>1, <1>4, VisitKnown
  <2>3. Below(q, K, Leap(K, q, n, a))
    BY <1>1, <1>3, <2>2
  <2>4. Trying(s, K, start, done \union {<<n, m>>}, n, a)
    BY <1>1, <2>2, <2>3 DEF Trying
  <2>5. QED
    BY <2>1, <2>4
<1>5. CASE ~skip
  <2> DEFINE f2 == [s.first EXCEPT ![nxt] = FirstMove(cell, m, start, s.first)]
             K2 == [K EXCEPT ![nxt] = Leap(K, q, n, m)]
             q2 == Append(q, nxt)
  <2>1. s2 = [queue |-> q2, first |-> f2]
    BY <1>5 DEF Visit
  <2>2. m \in LegalMoves(q[n]) /\ nxt # start /\ s.first[nxt] = NoMove /\ nxt = Target(q[n], m)
    BY <1>5 DEF LegalMoves
  <2>3. /\ SearchInv(q2, f2, K2, start, done \union {<<n, m>>})
        /\ Below(q2, K2, Leap(K2, q2, n, m)) /\ n \in DOMAIN q2 /\ q2[n] = q[n]
    <3>1. n \in DOMAIN q /\ Below(q, K, Leap(K, q, n, m)) /\ SearchInv(q, s.first, K, start, done)
      BY <1>1
    <3>2. Queued(q, s.first, K, start, n, m, nxt, q2, f2, K2)
      BY DEF Queued
    <3> HIDE DEF nxt, q, f2, K2, q2
    <3>3. QED
      BY <2>2, <3>1, <3>2, VisitNew
  <2>4. s2.queue = q2 /\ s2.first = f2
    BY <2>1
  <2> HIDE DEF f2, K2, q2, s2
  <2>5. Below(q2, K2, Leap(K2, q2, n, a))
    BY <1>3, <2>3
  <2>6. Trying(s2, K2, start, done \union {<<n, m>>}, n, a)
    BY <1>2, <2>3, <2>4, <2>5 DEF Trying
  <2>7. s2.queue[n] = q[n]
    BY <2>3, <2>4
  <2>8. QED
    BY <2>6, <2>7 DEF s2
<1>6. QED
  BY <1>4, <1>5

(* About to dequeue the cell after n: those up to n are done.               *)
Ready(s, K, start, n) ==
    /\ s \in SearchStates
    /\ SearchInv(s.queue, s.first, K, start, ((1 .. n) \intersect DOMAIN s.queue) \X Moves)
    /\ n + 1 \in DOMAIN s.queue => Below(s.queue, K, Leap(K, s.queue, n + 1, "UP"))

LEMMA OpenedReady ==
    ASSUME NEW start \in Board
    PROVE  \E K : Ready(Opened(start), K, start, 0)
<1> DEFINE K == [c \in Board |-> 3]
           s == Opened(start)
           q == s.queue
<1>1. q = <<start>> /\ s.first = [c \in Board |-> NoMove]
  BY DEF Opened
<1>2. s \in SearchStates
  BY <1>1 DEF Opened, SearchStates
<1>3. DOMAIN q = {1} /\ q[1] = start /\ q \in Seq(Board)
  BY <1>1
<1>4. ((1 .. 0) \intersect DOMAIN q) \X Moves = {}
  OBVIOUS
<1>5. K \in [Board -> Nat] /\ K[start] = 3
  OBVIOUS
<1>6. s.first \in [Board -> Moves \union {NoMove}] /\ \A c \in Board : s.first[c] = NoMove
  BY <1>1
<1> HIDE DEF s, K
<1>7. Sorted(q, K) /\ Marked(q, s.first)
  BY <1>3, <1>5, <1>6 DEF Sorted, Marked
<1>8. Entered(q, s.first, K) /\ Numbered(q, s.first, K) /\ Tried(q, K, {})
  BY <1>3 DEF Entered, Numbered, Tried
<1>9. SearchInv(q, s.first, K, start, {})
  BY <1>3, <1>5, <1>6, <1>7, <1>8 DEF SearchInv
<1>10. Below(q, K, Leap(K, q, 1, "UP"))
  BY <1>3, <1>5, Indices DEF Below, Leap
<1>11. Ready(s, K, start, 0)
  BY <1>2, <1>4, <1>9, <1>10 DEF Ready
<1>12. QED
  BY <1>11 DEF s

LEMMA DequeueSound ==
    ASSUME NEW s, NEW K, NEW start \in Board, NEW n \in Nat \ {0}, Ready(s, K, start, n - 1)
    PROVE  \E K2 : Ready(Dequeue(s, n, start), K2, start, n)
<1> DEFINE q == s.queue
           cell == q[n]
           done == ((1 .. n - 1) \intersect DOMAIN q) \X Moves
<1>1. PICK L \in Nat : L = Len(q)
  BY DEF Ready, SearchStates
<1>2. DOMAIN q = 1 .. L /\ s \in SearchStates
  BY <1>1 DEF Ready, SearchStates
<1>3. CASE n > L
  <2>1. Dequeue(s, n, start) = s
    BY <1>1, <1>3 DEF Dequeue
  <2>2. (1 .. n) \intersect DOMAIN q = (1 .. n - 1) \intersect DOMAIN q /\ n + 1 \notin DOMAIN q
    BY <1>2, <1>3
  <2>3. Ready(s, K, start, n)
    BY <2>2 DEF Ready
  <2>4. QED
    BY <2>1, <2>3
<1>4. CASE ~(n > L)
  <2> DEFINE s1 == Visit(s, cell, "UP", start)
             s2 == Visit(s1, cell, "DOWN", start)
             s3 == Visit(s2, cell, "LEFT", start)
             s4 == Visit(s3, cell, "RIGHT", start)
             d1 == done \union {<<n, "UP">>}
             d2 == d1 \union {<<n, "DOWN">>}
             d3 == d2 \union {<<n, "LEFT">>}
             d4 == d3 \union {<<n, "RIGHT">>}
  <2>1. Dequeue(s, n, start) = s4
    BY <1>1, <1>4 DEF Dequeue
  <2>2. "UP" \in Moves /\ "DOWN" \in Moves /\ "LEFT" \in Moves /\ "RIGHT" \in Moves
    BY DEF Moves
  <2>3. /\ Index("UP") <= Index("DOWN") /\ Index("DOWN") <= Index("LEFT")
        /\ Index("LEFT") <= Index("RIGHT") /\ Index("RIGHT") <= Index("RIGHT")
    BY Indices
  <2>4. d4 = (1 .. n) \X Moves
    <3>1. done = (1 .. n - 1) \X Moves
      BY <1>2, <1>4
    <3>2. d4 = done \union ({n} \X Moves)
      BY DEF Moves
    <3>3. 1 .. n = (1 .. n - 1) \union {n}
      OBVIOUS
    <3>4. QED
      BY <3>1, <3>2, <3>3
  <2>5. Trying(s, K, start, done, n, "UP")
    <3>1. n \in DOMAIN q /\ (n - 1) + 1 = n
      BY <1>2, <1>4
    <3>2. QED
      BY <3>1 DEF Ready, Trying
  <2> HIDE DEF done
  <2>6. s1.queue[n] = cell /\ \E K1 : Trying(s1, K1, start, d1, n, "DOWN")
    BY <2>2, <2>3, <2>5, VisitSound
  <2> HIDE DEF s1, d1
  <2>7. PICK K1 : Trying(s1, K1, start, d1, n, "DOWN")
    BY <2>6
  <2>8. s2.queue[n] = cell /\ \E K2 : Trying(s2, K2, start, d2, n, "LEFT")
    <3>1. s2 = Visit(s1, s1.queue[n], "DOWN", start)
      BY <2>6
    <3> HIDE DEF s2
    <3>2. LET v == Visit(s1, s1.queue[n], "DOWN", start)
          IN  /\ v.queue[n] = s1.queue[n]
              /\ \E K2 : Trying(v, K2, start, d1 \union {<<n, "DOWN">>}, n, "LEFT")
      BY <2>2, <2>3, <2>7, VisitSound
    <3>3. QED
      BY <2>6, <3>1, <3>2
  <2> HIDE DEF s2, d2
  <2>9. PICK K2 : Trying(s2, K2, start, d2, n, "LEFT")
    BY <2>8
  <2>10. s3.queue[n] = cell /\ \E K3 : Trying(s3, K3, start, d3, n, "RIGHT")
    <3>1. s3 = Visit(s2, s2.queue[n], "LEFT", start)
      BY <2>8
    <3> HIDE DEF s3
    <3>2. LET v == Visit(s2, s2.queue[n], "LEFT", start)
          IN  /\ v.queue[n] = s2.queue[n]
              /\ \E K3 : Trying(v, K3, start, d2 \union {<<n, "LEFT">>}, n, "RIGHT")
      BY <2>2, <2>3, <2>9, VisitSound
    <3>3. QED
      BY <2>8, <3>1, <3>2
  <2> HIDE DEF s3, d3
  <2>11. PICK K3 : Trying(s3, K3, start, d3, n, "RIGHT")
    BY <2>10
  <2>12. PICK K4 : Trying(s4, K4, start, d4, n, "RIGHT")
    <3>1. s4 = Visit(s3, s3.queue[n], "RIGHT", start)
      BY <2>10
    <3>2. QED
      BY <2>2, <2>3, <2>11, <3>1, VisitSound
  <2> HIDE DEF s4, d4
  <2>13. PICK q4 : q4 = s4.queue
    OBVIOUS
  <2>14. /\ s4 \in SearchStates /\ SearchInv(q4, s4.first, K4, start, d4) /\ n \in DOMAIN q4
         /\ Below(q4, K4, Leap(K4, q4, n, "RIGHT")) /\ q4 \in Seq(Board)
    BY <2>12, <2>13 DEF Trying, SearchInv
  <2>15. (1 .. n) \intersect DOMAIN q4 = 1 .. n
    <3>1. PICK M \in Nat : M = Len(q4)
      BY <2>14
    <3>2. n \in 1 .. M /\ DOMAIN q4 = 1 .. M
      BY <2>14, <3>1
    <3>3. QED
      BY <3>2
  <2>16. ASSUME n + 1 \in DOMAIN q4 PROVE Below(q4, K4, Leap(K4, q4, n + 1, "UP"))
    <3>1. /\ Leap(K4, q4, n, "RIGHT") \in Nat /\ Leap(K4, q4, n + 1, "UP") \in Nat
          /\ \A i \in DOMAIN q4 : K4[q4[i]] \in Nat
      BY <2>2, <2>14, <2>16, LeapTypes
    <3>2. Leap(K4, q4, n, "RIGHT") <= Leap(K4, q4, n + 1, "UP")
      <4>1. Leap(K4, q4, n + 1, "UP") = K4[q4[n + 1]] + 4
        BY DEF Leap
      <4>2. CASE n = 1
        <5>0. n + 1 \in DOMAIN q4 \ {1}
          BY <2>16
        <5>1. PICK d \in 1 .. (n + 1) - 1 : K4[q4[n + 1]] = 4 * d + Index(s4.first[q4[n + 1]])
          BY <2>14, <5>0 DEF SearchInv, Numbered
        <5>2. q4[n + 1] \in Board /\ s4.first[q4[n + 1]] # NoMove
          BY <2>14, <2>16 DEF SearchInv, Marked
        <5>3. Index(s4.first[q4[n + 1]]) \in 0 .. 3
          BY <2>14, <5>2, Indices DEF SearchInv
        <5>4. Leap(K4, q4, n, "RIGHT") = 7
          BY <4>2, Indices DEF Leap
        <5>5. QED
          BY <4>1, <5>1, <5>3, <5>4
      <4>3. CASE n # 1
        <5>1. Leap(K4, q4, n, "RIGHT") = K4[q4[n]] + 4
          BY <4>3 DEF Leap
        <5>2. K4[q4[n]] <= K4[q4[n + 1]]
          BY <2>14, <2>16 DEF SearchInv, Sorted
        <5>3. QED
          BY <2>14, <2>16, <3>1, <4>1, <5>1, <5>2
      <4>4. QED
        BY <4>2, <4>3
    <3>3. QED
      BY <2>14, <3>1, <3>2 DEF Below
  <2>17. Ready(s4, K4, start, n)
    BY <2>4, <2>13, <2>14, <2>15, <2>16 DEF Ready
  <2>18. QED
    BY <2>1, <2>17
<1>5. QED
  BY <1>3, <1>4

(* When as many cells were dequeued as there are, all in the queue were.    *)
LEMMA SearchSound ==
    ASSUME NEW start \in Board
    PROVE  \E q, first, K :
              /\ SearchInv(q, first, K, start, (DOMAIN q) \X Moves)
              /\ Len(q) <= Cardinality(Board)
              /\ \A goal : BfsFirstStep(start, goal) = first[goal]
<1> DEFINE N == Cardinality(Board)
<1>1. N \in Nat /\ IsFiniteSet(Board)
  BY CellsFinite
<1>2. PICK g \in [0 .. N -> SearchStates] :
         /\ g[0] = Opened(start)
         /\ \A n \in 1 .. N : g[n] = Dequeue(g[n - 1], n, start)
         /\ \A goal : BfsFirstStep(start, goal) = g[N].first[goal]
  BY Searched
<1> DEFINE Good == {n \in 0 .. N : \E K : Ready(g[n], K, start, n)}
<1>3. 0 \in Good
  BY <1>1, <1>2, OpenedReady
<1>4. \A n \in 1 .. N : n - 1 \in Good => n \in Good
  <2>1. ASSUME NEW n \in 1 .. N, n - 1 \in Good PROVE n \in Good
    <3>1. PICK K : Ready(g[n - 1], K, start, n - 1)
      BY <2>1
    <3>2. n \in Nat \ {0} /\ g[n] = Dequeue(g[n - 1], n, start)
      BY <1>2
    <3>3. \E K2 : Ready(Dequeue(g[n - 1], n, start), K2, start, n)
      BY <3>1, <3>2, DequeueSound
    <3>4. QED
      BY <3>2, <3>3
  <2>2. QED
    BY <2>1
<1>5. N \in Good
  <2> HIDE DEF Good, N
  <2>1. \A n \in 0 .. N : n \in Good
    BY <1>1, <1>3, <1>4, UpTo
  <2>2. QED
    BY <1>1, <2>1
<1>6. PICK K : Ready(g[N], K, start, N)
  BY <1>5
<1> DEFINE q == g[N].queue
<1>7. SearchInv(q, g[N].first, K, start, ((1 .. N) \intersect DOMAIN q) \X Moves)
  BY <1>6 DEF Ready
<1>8. PICK L \in Nat : L = Len(q)
  BY <1>7 DEF SearchInv
<1>9. /\ DOMAIN q = 1 .. L /\ \A i \in 1 .. L : q[i] \in Board
      /\ \A i, j \in 1 .. L : q[i] = q[j] => i = j
  BY <1>7, <1>8 DEF SearchInv
<1>10. L <= N
  <2> DEFINE f == [i \in 1 .. L |-> q[i]]
  <2> HIDE DEF q
  <2>1. f \in [1 .. L -> Board] /\ \A i, j \in 1 .. L : f[i] = f[j] => i = j
    BY <1>9
  <2> HIDE DEF f
  <2>2. f \in Injection(1 .. L, Board)
    BY <2>1 DEF Injection, IsInjective
  <2>3. Cardinality(1 .. L) <= N
    BY <1>1, <2>2, FS_Injection
  <2>4. Cardinality(1 .. L) = L
    BY FS_Interval
  <2>5. QED
    BY <2>3, <2>4
<1>11. (1 .. N) \intersect DOMAIN q = DOMAIN q
  BY <1>1, <1>9, <1>10
<1>12. QED
  BY <1>2, <1>7, <1>8, <1>10, <1>11

(* The sets Near of ShortestStep. *)
LEMMA NearSets ==
    ASSUME NEW goal \in Board
    PROVE  \E near \in [0 .. Cardinality(Board) -> SUBSET Board] :
              /\ near[0] = {goal}
              /\ \A k \in 1 .. Cardinality(Board) :
                    near[k] = near[k - 1] \union {c \in Board : Into(c, near[k - 1]) # {}}
              /\ \A start :
                    LET ways == {k \in 0 .. Cardinality(Board) : start \in near[k]}
                    IN  ShortestStep(start, goal) =
                           IF start = goal \/ ways = {} THEN NoMove
                           ELSE FirstOf(Into(start, near[Min(ways) - 1]))
<1> DEFINE N == Cardinality(Board)
           Wider(set) == set \union {c \in Board : Into(c, set) # {}}
           op == [k \in 1 .. N |-> [set \in SUBSET Board |-> Wider(set)]]
           Rule(g) == g = [k \in 0 .. N |-> IF k = 0 THEN {goal} ELSE
                              g[k - 1] \union {c \in Board : Into(c, g[k - 1]) # {}}]
           near == CHOOSE g : Rule(g)
<1>1. N \in Nat /\ {goal} \in SUBSET Board
  BY CellsFinite
<1>2. op \in Operations(N, SUBSET Board)
  <2>1. \A set \in SUBSET Board : Wider(set) \in SUBSET Board
    OBVIOUS
  <2> HIDE DEF Wider
  <2>2. QED
    BY <2>1 DEF Operations
<1>3. PICK h \in [0 .. N -> SUBSET Board] :
         h[0] = {goal} /\ \A k \in 1 .. N : h[k] = op[k][h[k - 1]]
  <2> HIDE DEF op, N
  <2>1. \E h : Runs(h, N, SUBSET Board, {goal}, op)
    BY <1>1, <1>2, RecursionIn
  <2>2. QED
    BY <2>1 DEF Runs
<1>4. \A k \in 1 .. N : h[k] = Wider(h[k - 1])
  <2>1. TAKE k \in 1 .. N
  <2>2. k - 1 \in 0 .. N
    BY <1>1
  <2>3. h[k] = op[k][h[k - 1]] /\ h[k - 1] \in SUBSET Board
    BY <1>3, <2>2
  <2> HIDE DEF Wider
  <2>4. QED
    BY <2>3
<1>5. Rule(h)
  <2>1. \A k \in 0 .. N : h[k] = IF k = 0 THEN {goal} ELSE
                              h[k - 1] \union {c \in Board : Into(c, h[k - 1]) # {}}
    <3>1. TAKE k \in 0 .. N
    <3>2. CASE k = 0
      BY <1>3, <3>2
    <3>3. CASE k # 0
      <4>1. k \in 1 .. N
        BY <3>3
      <4>2. QED
        BY <1>4, <3>3, <4>1
    <3>4. QED
      BY <3>2, <3>3
  <2>2. h = [k \in 0 .. N |-> h[k]]
    BY <1>3
  <2>3. QED
    BY <2>1, <2>2, Zenon
<1>6. Rule(near)
  BY <1>5, Zenon
<1>7. \A start :
         LET ways == {k \in DOMAIN near : start \in near[k]}
         IN  ShortestStep(start, goal) =
                IF start = goal \/ ways = {} THEN NoMove
                ELSE FirstOf(Into(start, near[Min(ways) - 1]))
  BY DEF ShortestStep
<1> HIDE DEF near
<1>8. \A k \in 0 .. N : near[k] = IF k = 0 THEN {goal} ELSE
                           near[k - 1] \union {c \in Board : Into(c, near[k - 1]) # {}}
  BY <1>6, Zenon
<1>9. near[0] = {goal} /\ \A k \in 1 .. N : near[k] = Wider(near[k - 1])
  <2>1. 0 \in 0 .. N /\ \A k \in 1 .. N : k \in 0 .. N /\ k # 0
    BY <1>1
  <2>2. QED
    BY <1>8, <2>1
<1> DEFINE Good == {k \in 0 .. N : near[k] \in SUBSET Board}
<1>10. \A k \in 0 .. N : k \in Good
  <2>1. 0 \in Good
    BY <1>1, <1>9
  <2>2. \A k \in 1 .. N : k - 1 \in Good => k \in Good
    BY <1>1, <1>9
  <2> HIDE DEF Good, N
  <2>3. QED
    BY <1>1, <2>1, <2>2, UpTo
<1>11. DOMAIN near = 0 .. N /\ near = [k \in 0 .. N |-> near[k]]
  BY <1>6, Zenon
<1>12. near \in [0 .. N -> SUBSET Board]
  BY <1>10, <1>11
<1>13. QED
  BY <1>7, <1>9, <1>11, <1>12

LEMMA FirstOfMoves ==
    ASSUME NEW S \in SUBSET Moves
    PROVE  /\ S # {} => FirstOf(S) \in S
           /\ \A m \in S : (\A n \in S : Index(m) <= Index(n)) => FirstOf(S) = m
<1> DEFINE T == {Index(m) : m \in S}
<1>1. T \in SUBSET Nat
  BY Indices
<1>2. ASSUME S # {} PROVE \E m \in S : \A n \in S : Index(m) <= Index(n)
  <2>1. T # {}
    BY <1>2
  <2>2. PICK i \in T : \A j \in T : i <= j
    <3> HIDE DEF T
    <3>1. QED
      BY <1>1, <2>1, LeastNumber
  <2>3. QED
    BY <2>2
<1>3. ASSUME S # {}
      PROVE  FirstOf(S) \in S /\ \A n \in S : Index(FirstOf(S)) <= Index(n)
  BY <1>2, <1>3 DEF FirstOf
<1>4. ASSUME NEW m \in S, \A n \in S : Index(m) <= Index(n) PROVE FirstOf(S) = m
  <2>1. FirstOf(S) \in S /\ Index(FirstOf(S)) <= Index(m) /\ Index(m) <= Index(FirstOf(S))
    BY <1>3, <1>4
  <2>2. /\ Index(m) \in 0 .. 3 /\ Index(FirstOf(S)) \in 0 .. 3
        /\ Index(FirstOf(S)) = Index(m) => FirstOf(S) = m
    BY <2>1, Indices
  <2>3. QED
    BY <2>1, <2>2
<1>5. QED
  BY <1>3, <1>4

(* _bfs_first_step is right for every board and whatever barriers stand.    *)
LEMMA SearchIsShortest ==
    ASSUME NEW start \in Board, NEW goal \in Board
    PROVE  BfsFirstStep(start, goal) = ShortestStep(start, goal)
<1> DEFINE N == Cardinality(Board)
<1>1. PICK q, first, K :
         /\ SearchInv(q, first, K, start, (DOMAIN q) \X Moves)
         /\ Len(q) <= N /\ \A c : BfsFirstStep(start, c) = first[c]
  BY SearchSound
<1>2. PICK near \in [0 .. N -> SUBSET Board] :
         /\ near[0] = {goal}
         /\ \A k \in 1 .. N : near[k] = near[k - 1] \union {c \in Board : Into(c, near[k - 1]) # {}}
         /\ \A c : LET ways == {k \in 0 .. N : c \in near[k]}
                   IN  ShortestStep(c, goal) =
                          IF c = goal \/ ways = {} THEN NoMove
                          ELSE FirstOf(Into(c, near[Min(ways) - 1]))
  BY NearSets
<1>3. PICK L \in Nat : L = Len(q)
  BY <1>1 DEF SearchInv
<1>4. /\ DOMAIN q = 1 .. L /\ L <= N /\ N \in Nat /\ 1 \in 1 .. L
      /\ q[1] = start /\ K[start] = 3
      /\ \A i \in 1 .. L : q[i] \in Board /\ K[q[i]] \in Nat
      /\ \A i, j \in 1 .. L : q[i] = q[j] => i = j
  <2>1. /\ q \in Seq(Board) /\ K \in [Board -> Nat] /\ 1 \in DOMAIN q
        /\ q[1] = start /\ K[start] = 3 /\ \A i, j \in DOMAIN q : q[i] = q[j] => i = j
    BY <1>1 DEF SearchInv
  <2>2. DOMAIN q = 1 .. L /\ L <= N /\ N \in Nat
    BY <1>1, <1>3, <2>1, CellsFinite
  <2> HIDE DEF N
  <2>3. \A i \in 1 .. L : q[i] \in Board
    BY <2>1, <2>2
  <2>4. QED
    BY <2>1, <2>2, <2>3
<1> DEFINE ways == {k \in 0 .. N : start \in near[k]}
<1> HIDE DEF N
<1>5. /\ BfsFirstStep(start, goal) = first[goal]
      /\ ShortestStep(start, goal) = IF start = goal \/ ways = {} THEN NoMove
                                     ELSE FirstOf(Into(start, near[Min(ways) - 1]))
  BY <1>1, <1>2
(* Every way out of a cell of the queue was tried.                          *)
<1>6. ASSUME NEW i \in 1 .. L, NEW m \in LegalMoves(q[i])
      PROVE  /\ m \in Moves
             /\ \E j \in 1 .. L : q[j] = Target(q[i], m) /\ K[q[j]] <= Leap(K, q, i, m)
             /\ Leap(K, q, i, m) <= K[q[i]] + 4
  <2>1. m \in Moves
    BY DEF LegalMoves
  <2>2. <<i, m>> \in (DOMAIN q) \X Moves
    BY <1>4, <2>1
  <2>3. Tried(q, K, (DOMAIN q) \X Moves)
    BY <1>1 DEF SearchInv
  <2>4. \E j \in 1 .. L : q[j] = Target(q[i], m) /\ K[q[j]] <= Leap(K, q, i, m)
    BY <1>4, <2>2, <2>3 DEF Tried
  <2>5. Leap(K, q, i, m) <= K[q[i]] + 4
    BY <1>4, <2>1, Indices DEF Leap
  <2>6. QED
    BY <2>1, <2>4, <2>5
(* So a cell that is k moves before the goal leads the search there.        *)
<1> DEFINE Leads == {k \in 0 .. N : \A i \in 1 .. L : q[i] \in near[k] =>
                       \E j \in 1 .. L : q[j] = goal /\ K[goal] <= K[q[i]] + 4 * k}
<1>7. \A k \in 0 .. N : k \in Leads
  <2>1. 0 \in Leads
    <3>1. ASSUME NEW i \in 1 .. L, q[i] \in near[0]
          PROVE  \E j \in 1 .. L : q[j] = goal /\ K[goal] <= K[q[i]] + 4 * 0
      <4>1. q[i] = goal /\ K[q[i]] \in Nat
        BY <1>2, <1>4, <3>1
      <4>2. QED
        BY <4>1
    <3>2. QED
      BY <1>4, <3>1
  <2>2. ASSUME NEW k \in 1 .. N, k - 1 \in Leads PROVE k \in Leads
    <3>1. ASSUME NEW i \in 1 .. L, q[i] \in near[k]
          PROVE  \E j \in 1 .. L : q[j] = goal /\ K[goal] <= K[q[i]] + 4 * k
      <4>1. CASE q[i] \in near[k - 1]
        <5>1. PICK j \in 1 .. L : q[j] = goal /\ K[goal] <= K[q[i]] + 4 * (k - 1)
          BY <2>2, <4>1
        <5>2. K[goal] \in Nat /\ K[q[i]] \in Nat
          BY <1>4, <5>1
        <5>3. QED
          BY <5>1, <5>2
      <4>2. CASE q[i] \notin near[k - 1]
        <5>0. near[k] = near[k - 1] \union {c \in Board : Into(c, near[k - 1]) # {}}
          BY <1>2
        <5>1. PICK m : m \in Into(q[i], near[k - 1])
          BY <3>1, <4>2, <5>0
        <5>2. m \in LegalMoves(q[i]) /\ Target(q[i], m) \in near[k - 1]
          BY <5>1 DEF Into
        <5>3. PICK l \in 1 .. L : q[l] = Target(q[i], m) /\ K[q[l]] <= Leap(K, q, i, m)
          BY <1>6, <5>2
        <5>4. Leap(K, q, i, m) <= K[q[i]] + 4 /\ m \in Moves
          BY <1>6, <5>2
        <5>5. PICK j \in 1 .. L : q[j] = goal /\ K[goal] <= K[q[l]] + 4 * (k - 1)
          BY <2>2, <5>2, <5>3
        <5>6. K[goal] \in Nat /\ K[q[l]] \in Nat /\ K[q[i]] \in Nat /\ Leap(K, q, i, m) \in Nat
          BY <1>1, <1>4, <5>4, <5>5, LeapTypes
        <5>7. QED
          BY <5>3, <5>4, <5>5, <5>6
      <4>3. QED
        BY <4>1, <4>2
    <3>2. QED
      BY <1>4, <3>1
  <2>3. \A k \in 1 .. N : k - 1 \in Leads => k \in Leads
    BY <2>2
  <2> HIDE DEF Leads
  <2>4. QED
    BY <1>4, <2>1, <2>3, UpTo
<1>8. CASE start = goal
  <2>1. first[goal] = NoMove
    <3>1. ~(\E i \in 1 .. L : i # 1 /\ q[i] = goal)
      BY <1>4, <1>8
    <3>2. QED
      BY <1>1, <1>4, <3>1 DEF SearchInv, Marked
  <2>2. QED
    BY <1>5, <1>8, <2>1
<1>9. CASE start # goal /\ ~(\E i \in 1 .. L : q[i] = goal)
  <2>1. first[goal] = NoMove
    BY <1>1, <1>4, <1>9 DEF SearchInv, Marked
  <2>2. ways = {}
    <3>1. ASSUME NEW k \in 0 .. N, start \in near[k] PROVE FALSE
      BY <1>4, <1>7, <1>9, <3>1
    <3>2. QED
      BY <3>1
  <2>3. QED
    BY <1>5, <2>1, <2>2
<1>10. CASE start # goal /\ \E i \in 1 .. L : q[i] = goal
  <2>1. PICK g \in 1 .. L : q[g] = goal
    BY <1>10
  <2>2. g \in DOMAIN q \ {1}
    BY <1>4, <1>10, <2>1
  <2>3. PICK d \in 1 .. g - 1 : K[goal] = 4 * d + Index(first[goal])
    BY <1>1, <2>1, <2>2 DEF SearchInv, Numbered
  <2> DEFINE r == Index(first[goal])
  <2>4. /\ \A i \in DOMAIN q \ {1} : first[q[i]] \in Moves
        /\ first[goal] \in Moves /\ r \in 0 .. 3 /\ K[goal] = 4 * d + r /\ d \in 1 .. N
    <3>1. \A i \in DOMAIN q \ {1} : q[i] \in Board /\ first[q[i]] # NoMove
      BY <1>1, <1>4 DEF SearchInv, Marked
    <3>2. \A i \in DOMAIN q \ {1} : first[q[i]] \in Moves
      BY <1>1, <3>1 DEF SearchInv
    <3>3. first[goal] \in Moves
      BY <2>1, <2>2, <3>2
    <3>4. r \in 0 .. 3
      BY <3>3, Indices
    <3>5. QED
      BY <1>4, <2>3, <3>2, <3>3, <3>4
  <2> HIDE DEF r
  (* A cell of the queue was entered from the start, or from a cell before. *)
  <2>5. ASSUME NEW i \in DOMAIN q \ {1}
        PROVE  \E p \in 1 .. i - 1 : \E m \in LegalMoves(q[p]) :
                  /\ q[i] = Target(q[p], m)
                  /\ first[q[i]] = IF p = 1 THEN m ELSE first[q[p]]
                  /\ K[q[i]] = Leap(K, q, p, m)
    BY <1>1 DEF SearchInv, Entered
  (* Back along the way: e moves before the goal, all opened by one move.   *)
  <2> DEFINE Before(i, e) == /\ i \in DOMAIN q \ {1} /\ K[q[i]] = 4 * (d - e) + r
                             /\ first[q[i]] = first[goal] /\ q[i] \in near[e]
             Reached == {e \in 0 .. d - 1 : \E i : Before(i, e)}
  <2>6. \A e \in 0 .. d - 1 : e \in Reached
    <3>1. 0 \in Reached
      <4>1. Before(g, 0)
        BY <1>2, <2>1, <2>2, <2>4
      <4>2. QED
        BY <2>4, <4>1
    <3>2. ASSUME NEW e \in 1 .. d - 1, e - 1 \in Reached PROVE e \in Reached
      <4>1. PICK i : Before(i, e - 1)
        BY <3>2
      <4>2. i \in 1 .. L /\ i # 1 /\ K[q[i]] = 4 * (d - (e - 1)) + r
        BY <1>4, <4>1
      <4>3. PICK p \in 1 .. i - 1 : \E m \in LegalMoves(q[p]) :
               /\ q[i] = Target(q[p], m)
               /\ first[q[i]] = IF p = 1 THEN m ELSE first[q[p]]
               /\ K[q[i]] = Leap(K, q, p, m)
        BY <2>5, <4>1
      <4>4. PICK m \in LegalMoves(q[p]) :
               /\ q[i] = Target(q[p], m)
               /\ first[q[i]] = IF p = 1 THEN m ELSE first[q[p]]
               /\ K[q[i]] = Leap(K, q, p, m)
        BY <4>3
      <4>5. p \in 1 .. L /\ m \in Moves
        BY <4>2, <4>4 DEF LegalMoves
      <4>6. p # 1
        <5>1. Index(m) \in 0 .. 3
          BY <4>5, Indices
        <5>2. K[q[i]] >= 8
          BY <2>4, <4>2
        <5>3. p = 1 => K[q[i]] = 4 + Index(m)
          BY <4>4 DEF Leap
        <5>4. QED
          BY <5>1, <5>2, <5>3
      <4>7. K[q[i]] = K[q[p]] + 4 /\ first[q[p]] = first[goal]
        BY <4>1, <4>4, <4>6 DEF Leap
      <4>8. K[q[p]] = 4 * (d - e) + r
        <5>1. K[q[p]] \in Nat
          BY <1>4, <4>5
        <5>2. QED
          BY <2>4, <4>2, <4>7, <5>1
      <4>9. q[p] \in near[e]
        <5>1. m \in Into(q[p], near[e - 1])
          BY <4>1, <4>4 DEF Into
        <5>2. e \in 1 .. N /\ q[p] \in Board
          BY <1>4, <2>4, <4>5
        <5>3. near[e] = near[e - 1] \union {c \in Board : Into(c, near[e - 1]) # {}}
          BY <1>2, <5>2
        <5>4. QED
          BY <5>1, <5>2, <5>3
      <4>10. Before(p, e)
        BY <1>4, <4>5, <4>6, <4>7, <4>8, <4>9
      <4>11. e \in 0 .. d - 1
        BY <2>4
      <4>12. QED
        BY <4>10, <4>11
    <3>3. \A e \in 1 .. d - 1 : e - 1 \in Reached => e \in Reached
      BY <3>2
    <3>4. d - 1 \in Nat
      BY <2>4
    <3> HIDE DEF Reached
    <3>5. QED
      BY <3>1, <3>3, <3>4, UpTo
  <2>7. PICK i : Before(i, d - 1)
    BY <2>4, <2>6
  <2>8. PICK p \in 1 .. i - 1 : \E m \in LegalMoves(q[p]) :
           /\ q[i] = Target(q[p], m)
           /\ first[q[i]] = IF p = 1 THEN m ELSE first[q[p]]
           /\ K[q[i]] = Leap(K, q, p, m)
    BY <2>5, <2>7
  <2>9. PICK m \in LegalMoves(q[p]) :
           /\ q[i] = Target(q[p], m)
           /\ first[q[i]] = IF p = 1 THEN m ELSE first[q[p]]
           /\ K[q[i]] = Leap(K, q, p, m)
    BY <2>8
  <2>10. i \in 1 .. L /\ i # 1 /\ K[q[i]] = 4 + r /\ p \in 1 .. L
    <3>1. i \in 1 .. L /\ i # 1 /\ K[q[i]] = 4 * (d - (d - 1)) + r
      BY <1>4, <2>7
    <3>2. QED
      BY <2>4, <3>1
  <2>11. p = 1
    <3>1. SUFFICES ASSUME p # 1 PROVE FALSE
      OBVIOUS
    <3>2. p \in DOMAIN q \ {1} /\ K[q[p]] \in Nat
      BY <1>4, <2>10, <3>1
    <3>3. K[q[i]] = K[q[p]] + 4
      BY <2>9, <3>1 DEF Leap
    <3>4. PICK x \in 1 .. p - 1 : K[q[p]] = 4 * x + Index(first[q[p]])
      BY <1>1, <3>2 DEF SearchInv, Numbered
    <3>5. Index(first[q[p]]) \in 0 .. 3
      BY <2>4, <3>2, Indices
    <3>6. K[q[p]] >= 4
      BY <3>4, <3>5
    <3>7. K[q[p]] = r
      BY <2>4, <2>10, <3>2, <3>3
    <3>8. QED
      BY <2>4, <3>6, <3>7
  <2>12. m = first[goal] /\ m \in Into(start, near[d - 1])
    BY <1>4, <2>7, <2>9, <2>11 DEF Into
  <2>13. start \in near[d]
    <3>1. near[d] = near[d - 1] \union {c \in Board : Into(c, near[d - 1]) # {}}
      BY <1>2, <2>4
    <3>2. QED
      BY <2>12, <3>1
  <2>14. ASSUME NEW k \in ways PROVE d <= k
    <3>1. k \in 0 .. N /\ start \in near[k]
      BY <2>14
    <3>2. K[goal] <= K[start] + 4 * k
      BY <1>4, <1>7, <3>1
    <3>3. QED
      BY <1>4, <2>4, <3>1, <3>2
  <2>15. Min(ways) = d
    <3>1. d \in ways /\ ways \in SUBSET Nat /\ \A k \in ways : d <= k
      BY <1>4, <2>4, <2>13, <2>14
    <3> HIDE DEF ways
    <3>2. Min(ways) \in ways /\ Min(ways) <= d
      BY <3>1, MinOfNumbers
    <3>3. d <= Min(ways) /\ d \in Nat /\ Min(ways) \in Nat
      BY <3>1, <3>2
    <3>4. QED
      BY <3>2, <3>3
  <2>16. ASSUME NEW n \in Into(start, near[d - 1]) PROVE Index(m) <= Index(n)
    <3>1. n \in LegalMoves(q[1]) /\ Target(q[1], n) \in near[d - 1] /\ n \in Moves
      BY <1>4, <2>16 DEF Into, LegalMoves
    <3>2. PICK j \in 1 .. L : q[j] = Target(q[1], n) /\ K[q[j]] <= Leap(K, q, 1, n)
      BY <1>4, <1>6, <3>1
    <3>3. d - 1 \in 0 .. N
      BY <1>4, <2>4
    <3>4. K[goal] <= K[q[j]] + 4 * (d - 1)
      BY <1>7, <3>1, <3>2, <3>3
    <3>5. Leap(K, q, 1, n) = 4 + Index(n) /\ Index(n) \in 0 .. 3
      BY <3>1, Indices DEF Leap
    <3>6. r = Index(m) /\ K[q[j]] \in Nat
      BY <1>4, <2>12 DEF r
    <3>7. QED
      BY <2>4, <3>2, <3>4, <3>5, <3>6
  <2>17. FirstOf(Into(start, near[d - 1])) = m
    <3>1. Into(start, near[d - 1]) \in SUBSET Moves
      BY DEF Into, LegalMoves
    <3>2. QED
      BY <2>12, <2>16, <3>1, FirstOfMoves
  <2>18. ways # {} /\ start # goal
    BY <1>4, <1>10, <2>4, <2>13
  <2>19. QED
    BY <1>5, <2>12, <2>15, <2>17, <2>18
<1>11. QED
  BY <1>8, <1>9, <1>10

(* cop_expert plays the first step of a shortest path, and of those the one *)
(* of the lowest index, around whatever barriers a play put up.             *)
THEOREM OraclePlaysShortest == PlaySpec => []OracleShortest
<1>1. IInv => OracleShortest
  <2> SUFFICES ASSUME IInv PROVE OracleShortest
    OBVIOUS
  <2>1. cops[0] \in Board /\ thief \in Board
    BY OneCop DEF IInv, TypeOK
  <2>2. QED
    BY <2>1, SearchIsShortest DEF OracleShortest
<1>2. QED
  BY <1>1, PlayInvariance, PTL
-----------------------------------------------------------------------------
(* The policies' decisions.  What they remember has its form, and a driver  *)
(* and its policies stay what they were.                                    *)
Offsets == Int \X Int
CopMinds == [seen : {Unseen} \union Offsets, placed : Nat, just : BOOLEAN]
ThiefMinds == [seen : {Unseen} \union Offsets, switched : BOOLEAN]
MindInv ==
    /\ copMind \in CopMinds /\ thiefMind \in ThiefMinds
    /\ copKind \in {"oracle", "net", "pursuit", "barrier"}
    /\ thiefKind \in {"expert", "random", "flee", "adaptive"}

(* Four moves have a best one. *)
LEMMA FirstBestIsOne ==
    ASSUME NEW legal \in SUBSET Moves, legal # {}, NEW score, \A m \in Moves : score[m] \in Int
    PROVE  FirstBest(legal, score) \in legal
<1>1. /\ score["UP"] \in Int /\ score["DOWN"] \in Int /\ score["LEFT"] \in Int /\ score["RIGHT"] \in Int
      /\ \A m \in Moves : m = "UP" \/ m = "DOWN" \/ m = "LEFT" \/ m = "RIGHT"
  BY DEF Moves
<1>2. PICK top \in Int : \A m \in Moves : score[m] <= top
  <2>1. PICK a \in Int, b \in Int :
           score["UP"] <= a /\ score["DOWN"] <= a /\ score["LEFT"] <= b /\ score["RIGHT"] <= b
    <3>1. ASSUME NEW x \in Int, NEW y \in Int PROVE \E z \in Int : x <= z /\ y <= z
      <4>1. CASE x <= y
        BY <4>1
      <4>2. CASE y <= x
        BY <4>2
      <4>3. QED
        BY <4>1, <4>2
    <3>2. \E z \in Int : score["UP"] <= z /\ score["DOWN"] <= z
      BY <1>1, <3>1
    <3>3. \E z \in Int : score["LEFT"] <= z /\ score["RIGHT"] <= z
      BY <1>1, <3>1
    <3>4. QED
      BY <3>2, <3>3
  <2>2. CASE a <= b
    BY <1>1, <2>1, <2>2
  <2>3. CASE b <= a
    BY <1>1, <2>1, <2>3
  <2>4. QED
    BY <2>2, <2>3
<1> DEFINE Key(m) == 4 * (top - score[m]) + Index(m)
           T == {Key(m) : m \in legal}
<1>3. \A m \in Moves : Key(m) \in Nat /\ Index(m) \in 0 .. 3
  BY <1>2, Indices
<1>4. T \in SUBSET Nat /\ T # {}
  <2> HIDE DEF Key
  <2>1. QED
    BY <1>3
<1>5. PICK k \in T : \A j \in T : k <= j
  <2> HIDE DEF T
  <2>1. QED
    BY <1>4, LeastNumber
<1>6. PICK m \in legal : \A n \in legal : Key(m) <= Key(n)
  <2> HIDE DEF Key
  <2>1. QED
    BY <1>5
<1>7. \A n \in legal : score[m] > score[n] \/ (score[m] = score[n] /\ Index(m) <= Index(n))
  <2>1. ASSUME NEW n \in legal
        PROVE  score[m] > score[n] \/ (score[m] = score[n] /\ Index(m) <= Index(n))
    <3>1. Key(m) <= Key(n) /\ m \in Moves /\ n \in Moves
      BY <1>6
    <3>2. score[m] \in Int /\ score[n] \in Int /\ Index(m) \in 0 .. 3 /\ Index(n) \in 0 .. 3
      BY <1>3, <3>1
    <3>3. PICK a \in Int, b \in Int, i \in 0 .. 3, j \in 0 .. 3 :
             a = score[m] /\ b = score[n] /\ i = Index(m) /\ j = Index(n)
      BY <3>2
    <3>4. 4 * (top - a) + i <= 4 * (top - b) + j
      BY <3>1, <3>3
    <3>5. a > b \/ (a = b /\ i <= j)
      BY <3>4
    <3>6. QED
      BY <3>3, <3>5
  <2>2. QED
    BY <2>1
<1>8. QED
  BY <1>7 DEF FirstBest

LEMMA MasksOf ==
    /\ Mask("cop") = PlaceMask(cops[0], barriers, used) /\ Mask("thief") = MoveMask(thief, barriers)
    /\ MaskMoves("cop") = MoveMask(cops[0], barriers) /\ MaskMoves("thief") = MoveMask(thief, barriers)
    /\ \A you : /\ LegalMoves(you) = OpenMoves(you, barriers)
                /\ OpenMoves(you, barriers) \subseteq Moves
                /\ MoveMask(you, barriers) \in SUBSET Moves /\ MoveMask(you, barriers) # {}
                /\ OpenMoves(you, barriers) \subseteq MoveMask(you, barriers)
<1>1. Mask("cop") = PlaceMask(cops[0], barriers, used) /\ Mask("thief") = MoveMask(thief, barriers)
  BY EnvShows DEF Mask
<1>2. \A you : /\ OpenMoves(you, barriers) \subseteq Moves
               /\ MoveMask(you, barriers) \in SUBSET Moves /\ MoveMask(you, barriers) # {}
               /\ OpenMoves(you, barriers) \subseteq MoveMask(you, barriers)
  BY DEF OpenMoves, MoveMask, Moves
<1>3. \A you : LegalMoves(you) = OpenMoves(you, barriers)
  BY DEF LegalMoves, OpenMoves, CanEnter
<1>4. "PLACE_BARRIER" \notin Moves
  BY DEF Moves
<1>5. MaskMoves("cop") = MoveMask(cops[0], barriers) /\ MaskMoves("thief") = MoveMask(thief, barriers)
  BY <1>1, <1>2, <1>4 DEF MaskMoves, PlaceMask
<1>6. QED
  BY <1>1, <1>2, <1>3, <1>5

LEMMA ImagesOf ==
    /\ Image("cop").other_visible =
          {o \in env!Window : /\ env!At(cops[0], o) \in Board /\ InView(cops[0], env!At(cops[0], o))
                              /\ env!At(cops[0], o) \in {thief}}
    /\ Image("thief").other_visible =
          {o \in env!Window : /\ env!At(thief, o) \in Board /\ InView(thief, env!At(thief, o))
                              /\ env!At(thief, o) \in {cops[i] : i \in Cops}}
<1>1. /\ Image("cop").other_visible = View(cops[0], {thief}, barriers, used, step, copMemory[0]).image.other_visible
      /\ Image("thief").other_visible =
            View(thief, {cops[i] : i \in Cops}, barriers, used, step, thiefMemory).image.other_visible
  BY EnvShows DEF Image
<1>2. ASSUME NEW you, NEW opponents, NEW count
      PROVE  View(you, opponents, barriers, used, step, count).image.other_visible =
                {o \in env!Window : /\ env!At(you, o) \in Board /\ InView(you, env!At(you, o))
                                    /\ env!At(you, o) \in opponents}
  BY DEF View
<1>3. QED
  BY <1>1, <1>2

(* What a policy goes by is what it sees, or else what it remembers.        *)
LEMMA ObservedIs ==
    ASSUME NEW r \in Roles, NEW seen
    PROVE  /\ Image(r).other_visible = {} => Observed(r, seen) = seen
           /\ Image(r).other_visible # {} => /\ Observed(r, seen) \in Image(r).other_visible
                                             /\ Observed(r, seen) \in Offsets
<1>1. Image(r).other_visible \subseteq env!Window
  BY ImagesOf DEF Roles
<1>2. env!Window \subseteq Offsets
  BY WindowAssumption DEF env!Window, Offsets
<1>3. QED
  BY <1>1, <1>2 DEF Observed

LEMMA ShiftedTypes ==
    ASSUME NEW seen \in Offsets, NEW m \in Moves
    PROVE  Shifted(seen, m) \in Offsets /\ Span(Shifted(seen, m)) \in Nat
<1>1. Delta(m)[1] \in Int /\ Delta(m)[2] \in Int
  BY DEF Moves, Delta
<1>2. Shifted(seen, m) \in Offsets
  BY <1>1 DEF Shifted, Offsets
<1>3. QED
  BY <1>2 DEF Span, Distance, Offsets

(* PursuitCop and what it asks for: a move of the mask. *)
LEMMA Pursuit ==
    ASSUME NEW mind \in CopMinds, NEW c \in Pursue(mind)
    PROVE  LET seen == Observed("cop", mind.seen)
           IN  /\ c.act \in MaskMoves("cop") /\ c.mind \in CopMinds
               /\ seen = Unseen => c.mind.seen = mind.seen
               /\ seen # Unseen => /\ seen \in Offsets
                                   /\ c.mind.seen \in {Unseen, Shifted(seen, c.act)}
<1> DEFINE seen == Observed("cop", mind.seen)
           closer == [m \in Moves |-> -Span(Shifted(seen, m))]
           best == FirstBest(MaskMoves("cop"), closer)
           after == Shifted(seen, best)
<1>1. mind.seen \in {Unseen} \union Offsets
  BY DEF CopMinds
<1>2. seen = Unseen \/ seen \in Offsets
  BY <1>1, ObservedIs DEF Roles
<1>3. CASE seen = Unseen
  <2>1. c \in {[act |-> m, mind |-> mind] : m \in Mask("cop") \ {"PLACE_BARRIER"}}
    BY <1>3 DEF Pursue
  <2>2. c.act \in Mask("cop") \ {"PLACE_BARRIER"} /\ c.mind = mind
    BY <2>1
  <2>3. c.act \in MaskMoves("cop")
    BY <2>2, MasksOf DEF PlaceMask
  <2>4. QED
    BY <1>3, <2>2, <2>3
<1>4. CASE seen # Unseen
  <2>1. seen \in Offsets
    BY <1>2, <1>4
  <2>2. c = [act |-> best,
             mind |-> [mind EXCEPT !.seen = IF after = <<0, 0>> THEN Unseen ELSE after]]
    BY <1>4 DEF Pursue
  <2> HIDE DEF seen
  <2>3. \A m \in Moves : closer[m] \in Int
    BY <2>1, ShiftedTypes
  <2> HIDE DEF closer
  <2>4. best \in MaskMoves("cop") /\ best \in Moves
    BY <2>3, MasksOf, FirstBestIsOne
  <2> HIDE DEF best
  <2>5. after \in Offsets
    BY <2>1, <2>4, ShiftedTypes
  <2>6. c.act = best /\ c.mind.seen \in {Unseen, after}
    BY <2>2 DEF CopMinds
  <2>7. c.mind \in CopMinds
    <3> HIDE DEF after
    <3>1. QED
      BY <2>2, <2>5 DEF CopMinds
  <2>8. QED
    BY <1>4, <2>1, <2>4, <2>6, <2>7 DEF seen
<1>5. QED
  BY <1>3, <1>4

LEMMA Fleeing ==
    ASSUME NEW mind \in ThiefMinds, NEW t \in Flee(mind)
    PROVE  LET seen == Observed("thief", mind.seen)
           IN  /\ t.act \in MaskMoves("thief") /\ t.mind \in ThiefMinds
               /\ t.mind.switched = mind.switched
               /\ seen = Unseen => t.mind.seen = mind.seen
               /\ seen # Unseen => seen \in Offsets /\ t.mind.seen = Shifted(seen, t.act)
<1> DEFINE seen == Observed("thief", mind.seen)
           farther == [m \in Moves |-> Span(Shifted(seen, m))]
           best == FirstBest(MaskMoves("thief"), farther)
<1>1. mind.seen \in {Unseen} \union Offsets
  BY DEF ThiefMinds
<1>2. seen = Unseen \/ seen \in Offsets
  BY <1>1, ObservedIs DEF Roles
<1>3. CASE seen = Unseen
  <2>1. t \in {[act |-> m, mind |-> mind] : m \in Mask("thief")}
    BY <1>3 DEF Flee
  <2>2. t.act \in Mask("thief") /\ t.mind = mind
    BY <2>1
  <2>3. QED
    BY <1>3, <2>2, MasksOf
<1>4. CASE seen # Unseen
  <2>1. seen \in Offsets
    BY <1>2, <1>4
  <2>2. t = [act |-> best, mind |-> [mind EXCEPT !.seen = Shifted(seen, best)]]
    BY <1>4 DEF Flee
  <2> HIDE DEF seen
  <2>3. \A m \in Moves : farther[m] \in Int
    BY <2>1, ShiftedTypes
  <2> HIDE DEF farther
  <2>4. best \in MaskMoves("thief") /\ best \in Moves
    BY <2>3, MasksOf, FirstBestIsOne
  <2> HIDE DEF best
  <2>5. Shifted(seen, best) \in Offsets
    BY <2>1, <2>4, ShiftedTypes
  <2>6. PICK after \in Offsets : after = Shifted(seen, best)
    BY <2>5
  <2>7. t = [act |-> best, mind |-> [mind EXCEPT !.seen = after]]
    BY <2>2, <2>6
  <2>8. t.act = best /\ t.mind \in ThiefMinds /\ t.mind.seen = after /\ t.mind.switched = mind.switched
    BY <2>7 DEF ThiefMinds
  <2>9. QED
    BY <1>4, <2>1, <2>4, <2>6, <2>8 DEF seen
<1>5. QED
  BY <1>3, <1>4

LEMMA ShortestIsLegal ==
    ASSUME NEW start \in Board, NEW goal \in Board
    PROVE  ShortestStep(start, goal) \in {NoMove} \union LegalMoves(start)
<1> DEFINE N == Cardinality(Board)
<1>1. PICK near \in [0 .. N -> SUBSET Board] :
         /\ near[0] = {goal}
         /\ \A k \in 1 .. N : near[k] = near[k - 1] \union {c \in Board : Into(c, near[k - 1]) # {}}
         /\ \A c : LET ways == {k \in 0 .. N : c \in near[k]}
                   IN  ShortestStep(c, goal) =
                          IF c = goal \/ ways = {} THEN NoMove
                          ELSE FirstOf(Into(c, near[Min(ways) - 1]))
  BY NearSets
<1>2. N \in Nat
  BY CellsFinite
<1> DEFINE ways == {k \in 0 .. N : start \in near[k]}
<1> HIDE DEF N
<1>3. ShortestStep(start, goal) = IF start = goal \/ ways = {} THEN NoMove
                                  ELSE FirstOf(Into(start, near[Min(ways) - 1]))
  BY <1>1
<1>4. CASE start = goal \/ ways = {}
  BY <1>3, <1>4
<1>5. CASE start # goal /\ ways # {}
  <2>1. ways \in SUBSET Nat
    OBVIOUS
  <2>2. PICK k \in Nat : k = Min(ways) /\ k \in ways /\ \A n \in ways : k <= n
    <3> HIDE DEF ways
    <3>1. QED
      BY <1>5, <2>1, MinOfNumbers
  <2>3. k \in 0 .. N /\ start \in near[k] /\ k # 0
    BY <1>1, <1>5, <2>2
  <2>4. k \in 1 .. N /\ k - 1 \in 0 .. N /\ ~(k <= k - 1)
    BY <1>2, <2>3
  <2>5. start \notin near[k - 1]
    BY <2>2, <2>4
  <2>6. near[k] = near[k - 1] \union {c \in Board : Into(c, near[k - 1]) # {}}
    BY <1>1, <2>4
  <2>7. Into(start, near[k - 1]) # {}
    BY <2>3, <2>5, <2>6
  <2>8. Into(start, near[k - 1]) \subseteq LegalMoves(start) /\ LegalMoves(start) \subseteq Moves
    BY DEF Into, LegalMoves
  <2>9. FirstOf(Into(start, near[k - 1])) \in LegalMoves(start)
    BY <2>7, <2>8, FirstOfMoves
  <2> HIDE DEF ways
  <2>10. QED
    BY <1>3, <1>5, <2>2, <2>9
<1>6. QED
  BY <1>4, <1>5

(* The experts: a move into a cell that can be entered, or UP. *)
LEMMA Experts ==
    ASSUME IInv
    PROVE  /\ CopExpert(0) \in Mask("cop") /\ ThiefExpert \in Mask("thief")
<1>1. cops[0] \in Board /\ thief \in Board /\ cops \in [Cops -> Board]
  BY OneCop DEF IInv, TypeOK
<1>2. "UP" \in Moves
  BY DEF Moves
<1>3. /\ LegalMoves(cops[0]) \subseteq Mask("cop") /\ LegalMoves(thief) \subseteq Mask("thief")
      /\ LegalMoves(cops[0]) = {} => "UP" \in Mask("cop")
      /\ LegalMoves(thief) = {} => "UP" \in Mask("thief")
      /\ LegalMoves(cops[0]) \in SUBSET Moves /\ LegalMoves(thief) \in SUBSET Moves
  BY <1>2, MasksOf DEF PlaceMask, MoveMask
<1>4. CopExpert(0) \in Mask("cop")
  <2> DEFINE way == BfsFirstStep(cops[0], thief)
  <2>1. way = NoMove \/ way \in LegalMoves(cops[0])
    BY <1>1, SearchIsShortest, ShortestIsLegal
  <2>2. LegalMoves(cops[0]) # {} => FirstOf(LegalMoves(cops[0])) \in LegalMoves(cops[0])
    BY <1>3, FirstOfMoves
  <2>3. QED
    BY <1>3, <2>1, <2>2 DEF CopExpert
<1>5. ThiefExpert \in Mask("thief")
  <2> DEFINE nearest == [m \in Moves |-> Min({Distance(Target(thief, m), cops[i]) : i \in Cops})]
  <2>1. \A m \in Moves : nearest[m] \in Int
    <3>1. ASSUME NEW m \in Moves PROVE nearest[m] \in Int
      <4>1. {Distance(Target(thief, m), cops[i]) : i \in Cops} = {Distance(Target(thief, m), cops[0])}
        BY OneCop
      <4>2. Distance(Target(thief, m), cops[0]) \in Nat
        <5>1. Target(thief, m) \in Int \X Int
          BY <1>1, Distances
        <5>2. cops[0] \in Int \X Int
          BY <1>1, BoardAssumption DEF Board
        <5>3. QED
          BY <5>1, <5>2 DEF Distance
      <4>3. Min({Distance(Target(thief, m), cops[0])}) = Distance(Target(thief, m), cops[0])
        BY <4>2, MinOfNumbers
      <4>4. QED
        BY <4>1, <4>2, <4>3
    <3>2. QED
      BY <3>1
  <2>2. ThiefExpert = IF LegalMoves(thief) = {} THEN "UP" ELSE FirstBest(LegalMoves(thief), nearest)
    BY DEF ThiefExpert
  <2> HIDE DEF nearest
  <2>3. LegalMoves(thief) # {} => FirstBest(LegalMoves(thief), nearest) \in LegalMoves(thief)
    BY <1>3, <2>1, FirstBestIsOne
  <2>4. QED
    BY <1>3, <2>2, <2>3
<1>6. QED
  BY <1>4, <1>5

(* Every decision of a cop's policy: an action of the mask; a belief is held*)
(* by the pursuers alone, who shift it by the move they ask for.            *)
LEMMA CopDecides ==
    ASSUME IInv, MindInv, NEW c \in CopDecisions
    PROVE  LET seen == Observed("cop", copMind.seen)
           IN  /\ c.act \in Mask("cop") /\ c.mind \in CopMinds
               /\ copKind \in {"oracle", "net"} => c.mind = copMind
               /\ copKind = "pursuit" => c.act \in Moves
               /\ copKind \in {"pursuit", "barrier"} =>
                     /\ seen = Unseen => c.mind.seen = copMind.seen
                     /\ seen # Unseen =>
                           /\ seen \in Offsets
                           /\ \/ c.act \in MaskMoves("cop")
                                 /\ c.mind.seen \in {Unseen, Shifted(seen, c.act)}
                              \/ c.act = "PLACE_BARRIER" /\ c.mind.seen = seen
<1> DEFINE seen == Observed("cop", copMind.seen)
<1>1. copMind \in CopMinds
  BY DEF MindInv
<1>2. MaskMoves("cop") \subseteq Mask("cop") /\ MaskMoves("cop") \subseteq Moves
  BY MasksOf DEF PlaceMask
<1>3. CASE copKind = "oracle"
  <2>1. c \in Explored(CopExpert(0), LegalMoves(cops[0]), copMind)
    BY <1>3 DEF CopDecisions
  <2>2. c.act \in {CopExpert(0)} \union LegalMoves(cops[0]) /\ c.mind = copMind
    BY <2>1 DEF Explored
  <2>3. LegalMoves(cops[0]) \subseteq Mask("cop")
    BY MasksOf DEF PlaceMask
  <2>4. QED
    BY <1>1, <1>3, <2>2, <2>3, Experts
<1>4. CASE copKind = "net"
  <2>1. c \in {[act |-> a, mind |-> copMind] : a \in Mask("cop")}
    BY <1>4 DEF CopDecisions, Sampled, AnyOf
  <2>2. QED
    BY <1>1, <1>4, <2>1
<1>5. ASSUME NEW mind \in CopMinds, mind.seen = copMind.seen, c \in Pursue(mind)
      PROVE  /\ c.act \in MaskMoves("cop") /\ c.mind \in CopMinds
             /\ seen = Unseen => c.mind.seen = copMind.seen
             /\ seen # Unseen => seen \in Offsets /\ c.mind.seen \in {Unseen, Shifted(seen, c.act)}
  BY <1>5, Pursuit
<1>6. CASE copKind = "pursuit"
  <2>1. c \in Pursue(copMind)
    BY <1>6 DEF CopDecisions
  <2> HIDE DEF seen
  <2>2. QED
    BY <1>1, <1>2, <1>5, <1>6, <2>1 DEF seen
<1>7. CASE copKind = "barrier"
  <2>1. c \in PursueOrPlace(copMind)
    BY <1>7 DEF CopDecisions
  <2>2. CASE ShouldPlace(copMind)
    <3>1. c = [act |-> "PLACE_BARRIER",
               mind |-> [seen |-> seen, placed |-> copMind.placed + 1, just |-> TRUE]]
      BY <2>1, <2>2 DEF PursueOrPlace
    <3>2. seen \in Offsets /\ "PLACE_BARRIER" \in Mask("cop")
      BY <2>2, ObservedIs DEF ShouldPlace, Roles
    <3>3. copMind.placed \in Nat
      BY <1>1 DEF CopMinds
    <3> HIDE DEF seen
    <3>4. c.act = "PLACE_BARRIER" /\ c.mind \in CopMinds /\ c.mind.seen = seen
      BY <3>1, <3>2, <3>3 DEF CopMinds
    <3>5. seen # Unseen
      BY <3>2 DEF Unseen, Offsets
    <3>6. QED
      BY <1>7, <3>2, <3>4, <3>5 DEF seen
  <2>3. CASE ~ShouldPlace(copMind)
    <3> DEFINE mind == [copMind EXCEPT !.just = FALSE]
    <3>1. c \in Pursue(mind)
      BY <2>1, <2>3 DEF PursueOrPlace
    <3>2. mind \in CopMinds /\ mind.seen = copMind.seen
      BY <1>1 DEF CopMinds
    <3> HIDE DEF mind, seen
    <3>3. QED
      BY <1>2, <1>5, <1>7, <3>1, <3>2 DEF seen
  <2>4. QED
    BY <2>2, <2>3
<1>8. QED
  BY <1>3, <1>4, <1>6, <1>7 DEF MindInv

LEMMA ThiefDecides ==
    ASSUME IInv, MindInv, NEW t \in ThiefDecisions
    PROVE  LET seen == Observed("thief", thiefMind.seen)
           IN  /\ t.act \in MaskMoves("thief") /\ t.mind \in ThiefMinds
               /\ thiefKind \in {"expert", "random"} => t.mind = thiefMind
               /\ thiefKind \in {"flee", "adaptive"} =>
                     \/ t.mind.switched
                     \/ /\ ~thiefMind.switched
                        /\ seen = Unseen => t.mind.seen = thiefMind.seen
                        /\ seen # Unseen => /\ seen \in Offsets
                                            /\ t.mind.seen = Shifted(seen, t.act)
               /\ thiefKind = "flee" => t.mind.switched = thiefMind.switched
<1> DEFINE seen == Observed("thief", thiefMind.seen)
<1>1. thiefMind \in ThiefMinds /\ thiefMind.switched \in BOOLEAN
  BY DEF MindInv, ThiefMinds
<1>2. MaskMoves("thief") = Mask("thief")
  BY MasksOf
<1>3. CASE thiefKind = "expert"
  <2>1. t \in Explored(ThiefExpert, LegalMoves(thief), thiefMind)
    BY <1>3 DEF ThiefDecisions
  <2>2. t.act \in {ThiefExpert} \union LegalMoves(thief) /\ t.mind = thiefMind
    BY <2>1 DEF Explored
  <2>3. LegalMoves(thief) \subseteq Mask("thief")
    BY MasksOf
  <2>4. QED
    BY <1>1, <1>2, <1>3, <2>2, <2>3, Experts
<1>4. ASSUME NEW mind, t \in Sampled("thief", mind) PROVE t.act \in Mask("thief") /\ t.mind = mind
  BY <1>4 DEF Sampled, AnyOf
<1>5. CASE thiefKind = "random"
  <2>1. t \in Sampled("thief", thiefMind)
    BY <1>5 DEF ThiefDecisions
  <2>2. QED
    BY <1>1, <1>2, <1>4, <1>5, <2>1
<1>6. ASSUME t \in Flee(thiefMind)
      PROVE  /\ t.act \in MaskMoves("thief") /\ t.mind \in ThiefMinds
             /\ t.mind.switched = thiefMind.switched
             /\ seen = Unseen => t.mind.seen = thiefMind.seen
             /\ seen # Unseen => seen \in Offsets /\ t.mind.seen = Shifted(seen, t.act)
  BY <1>1, <1>6, Fleeing
<1>7. CASE thiefKind = "flee" /\ ~thiefMind.switched
  <2>1. t \in Flee(thiefMind)
    BY <1>7 DEF ThiefDecisions
  <2> HIDE DEF seen
  <2>2. QED
    BY <1>6, <1>7, <2>1 DEF seen
<1>8. CASE thiefKind = "flee" /\ thiefMind.switched
  <2>1. t \in Flee(thiefMind)
    BY <1>8 DEF ThiefDecisions
  <2> HIDE DEF seen
  <2>2. QED
    BY <1>6, <1>8, <2>1 DEF seen
<1>9. CASE thiefKind = "adaptive"
  <2>1. t \in FleeOrNet(thiefMind)
    BY <1>9 DEF ThiefDecisions
  <2>2. CASE thiefMind.switched \/ Image("thief").barrier # {}
    <3> DEFINE mind == [thiefMind EXCEPT !.switched = TRUE]
    <3>1. t \in Sampled("thief", mind)
      BY <2>1, <2>2 DEF FleeOrNet
    <3>2. mind \in ThiefMinds /\ mind.switched
      BY <1>1 DEF ThiefMinds
    <3> HIDE DEF mind
    <3>3. t.act \in Mask("thief") /\ t.mind = mind
      BY <1>4, <3>1
    <3>4. QED
      BY <1>2, <1>9, <3>2, <3>3
  <2>3. CASE ~(thiefMind.switched \/ Image("thief").barrier # {})
    <3>1. t \in Flee(thiefMind)
      BY <2>1, <2>3 DEF FleeOrNet
    <3> HIDE DEF seen
    <3>2. QED
      BY <1>6, <1>9, <2>3, <3>1 DEF seen
  <2>4. QED
    BY <2>2, <2>3
<1>10. QED
  BY <1>3, <1>5, <1>7, <1>8, <1>9 DEF MindInv

LEMMA FreshMinds == FreshCop \in CopMinds /\ FreshThief \in ThiefMinds
BY DEF FreshCop, FreshThief, CopMinds, ThiefMinds

LEMMA MindStart == PlayInit => MindInv
BY FreshMinds DEF PlayInit, MindInv

LEMMA MindStep == IInv /\ MindInv /\ [PlayNext]_playVars => MindInv'
<1> SUFFICES ASSUME IInv, MindInv, [PlayNext]_playVars PROVE MindInv'
  OBVIOUS
<1>1. CASE Tick
  <2>1. PICK c \in CopDecisions, t \in ThiefDecisions : copMind' = c.mind /\ thiefMind' = t.mind
    BY <1>1 DEF Tick
  <2>2. c.mind \in CopMinds
    BY CopDecides
  <2>3. t.mind \in ThiefMinds
    BY ThiefDecides
  <2>4. UNCHANGED <<copKind, thiefKind>>
    BY <1>1 DEF Tick, kindVars
  <2>5. QED
    BY <2>1, <2>2, <2>3, <2>4 DEF MindInv
<1>2. CASE UNCHANGED <<copMind, thiefMind, copKind, thiefKind>>
  BY <1>2 DEF MindInv
<1>3. CASE NewGame /\ UNCHANGED kindVars
  BY <1>3, FreshMinds DEF NewGame, kindVars, MindInv
<1>4. CASE NextMatchup \/ NextEpisode \/ WatchReset
  BY <1>3, <1>4 DEF NextMatchup, NextEpisode, WatchReset, kindVars
<1>5. CASE WatchNext
  BY <1>2, <1>3, <1>5 DEF WatchNext, mindVars, kindVars
<1>6. CASE UNCHANGED playVars
  BY <1>2, <1>6 DEF playVars, mindVars, kindVars
<1>7. QED
  BY <1>1, <1>4, <1>5, <1>6 DEF PlayNext, Over

(* No policy and no expert ever asks for what the mask forbids, on any board*)
(* that any play of any of them leads to.                                   *)
THEOREM PoliciesChooseLegally == PlaySpec => []ChoicesLegal
<1>1. IInv /\ MindInv => ChoicesLegal
  <2> SUFFICES ASSUME IInv, MindInv PROVE ChoicesLegal
    OBVIOUS
  <2>1. \A c \in CopDecisions : c.act \in Mask("cop")
    BY CopDecides
  <2>2. \A t \in ThiefDecisions : t.act \in Mask("thief")
    BY ThiefDecides, MasksOf
  <2>3. \A r \in Roles : Label(r) \in Mask(r)
    BY Experts DEF Label, Roles
  <2>4. QED
    BY <2>1, <2>2, <2>3 DEF ChoicesLegal
<1>2. QED
  BY <1>1, PlayStart, PlayStep, MindStart, MindStep, PTL DEF PlaySpec
-----------------------------------------------------------------------------
(* Dead reckoning. *)
Believed(pos, seen) == <<pos[1] + seen[1], pos[2] + seen[2]>>

(* A belief is right unless its holder is walled in, where the mask allows  *)
(* moves that are not made.  A thief never is while it is free (it can go   *)
(* back where it came from), and no cop on a board without barriers.        *)
BeliefInv ==
    /\ H > 1 \/ W > 1
    /\ winner # "cop" => OpenMoves(thief, barriers) # {}
    /\ copKind = "pursuit" => barriers = {}
    /\ copKind \in {"oracle", "net"} => copMind.seen = Unseen
    /\ thiefKind \in {"expert", "random"} => thiefMind.seen = Unseen
    /\ copMind.seen # Unseen /\ OpenMoves(cops[0], barriers) # {} =>
          sighted["cop"] = Believed(cops[0], copMind.seen)
    /\ thiefMind.seen # Unseen /\ ~thiefMind.switched =>
          sighted["thief"] = Believed(thief, thiefMind.seen)

LEMMA MoveBack ==
    ASSUME NEW pos \in Board, NEW m \in Moves
    PROVE  \E n \in Moves : Target(Target(pos, m), n) = pos
<1>1. pos[1] \in Int /\ pos[2] \in Int /\ pos = <<pos[1], pos[2]>>
  BY BoardAssumption DEF Board
<1>2. /\ Delta("UP") = <<-1, 0>> /\ Delta("DOWN") = <<1, 0>>
      /\ Delta("LEFT") = <<0, -1>> /\ Delta("RIGHT") = <<0, 1>>
  BY DEF Delta
<1>3. CASE m = "UP"
  <2>1. Target(Target(pos, m), "DOWN") = <<(pos[1] + (-1)) + 1, (pos[2] + 0) + 0>>
    BY <1>2, <1>3 DEF Target
  <2>2. QED
    BY <1>1, <2>1 DEF Moves
<1>4. CASE m = "DOWN"
  <2>1. Target(Target(pos, m), "UP") = <<(pos[1] + 1) + (-1), (pos[2] + 0) + 0>>
    BY <1>2, <1>4 DEF Target
  <2>2. QED
    BY <1>1, <2>1 DEF Moves
<1>5. CASE m = "LEFT"
  <2>1. Target(Target(pos, m), "RIGHT") = <<(pos[1] + 0) + 0, (pos[2] + (-1)) + 1>>
    BY <1>2, <1>5 DEF Target
  <2>2. QED
    BY <1>1, <2>1 DEF Moves
<1>6. CASE m = "RIGHT"
  <2>1. Target(Target(pos, m), "LEFT") = <<(pos[1] + 0) + 0, (pos[2] + 1) + (-1)>>
    BY <1>2, <1>6 DEF Target
  <2>2. QED
    BY <1>1, <2>1 DEF Moves
<1>7. QED
  BY <1>3, <1>4, <1>5, <1>6 DEF Moves

(* With two cells or more, and no barrier, there is always a way. *)
LEMMA OpenBoard ==
    ASSUME NEW pos \in Board, H > 1 \/ W > 1
    PROVE  OpenMoves(pos, {}) # {}
<1>1. /\ pos[1] \in 0 .. H - 1 /\ pos[2] \in 0 .. W - 1 /\ H \in Nat \ {0} /\ W \in Nat \ {0}
  BY BoardAssumption DEF Board
<1>2. /\ Delta("UP") = <<-1, 0>> /\ Delta("DOWN") = <<1, 0>>
      /\ Delta("LEFT") = <<0, -1>> /\ Delta("RIGHT") = <<0, 1>>
  BY DEF Delta
<1>3. \A m \in Moves : Target(pos, m) \in Board => m \in OpenMoves(pos, {})
  BY DEF OpenMoves
<1>4. CASE pos[1] > 0
  <2>1. Target(pos, "UP") = <<pos[1] + (-1), pos[2] + 0>>
    BY <1>2 DEF Target
  <2>2. Target(pos, "UP") \in Board
    BY <1>1, <1>4, <2>1 DEF Board
  <2>3. QED
    BY <1>3, <2>2 DEF Moves
<1>5. CASE pos[2] > 0
  <2>1. Target(pos, "LEFT") = <<pos[1] + 0, pos[2] + (-1)>>
    BY <1>2 DEF Target
  <2>2. Target(pos, "LEFT") \in Board
    BY <1>1, <1>5, <2>1 DEF Board
  <2>3. QED
    BY <1>3, <2>2 DEF Moves
<1>6. CASE pos[1] = 0 /\ H > 1
  <2>1. Target(pos, "DOWN") = <<pos[1] + 1, pos[2] + 0>>
    BY <1>2 DEF Target
  <2>2. Target(pos, "DOWN") \in Board
    BY <1>1, <1>6, <2>1 DEF Board
  <2>3. QED
    BY <1>3, <2>2 DEF Moves
<1>7. CASE pos[2] = 0 /\ W > 1
  <2>1. Target(pos, "RIGHT") = <<pos[1] + 0, pos[2] + 1>>
    BY <1>2 DEF Target
  <2>2. Target(pos, "RIGHT") \in Board
    BY <1>1, <1>7, <2>1 DEF Board
  <2>3. QED
    BY <1>3, <2>2 DEF Moves
<1>8. QED
  BY <1>1, <1>4, <1>5, <1>6, <1>7

(* A spawn needs two cells. *)
LEMMA SpawnNeedsRoom ==
    ASSUME NEW c \in [Cops -> Board], NEW t \in Board, Spawn(c, t)
    PROVE  H > 1 \/ W > 1
<1>1. c[0] \in Board /\ Distance(c[0], t) > Radius /\ Radius \in Nat
  BY OneCop, BoardAssumption DEF Spawn, SampleSpawn
<1>2. Distance(c[0], t) # 0
  BY <1>1, Distances
<1>3. c[0] # t
  BY <1>1, <1>2, Distances
<1>4. ASSUME ~(H > 1), ~(W > 1) PROVE c[0] = t
  <2>1. H = 1 /\ W = 1
    BY <1>4, BoardAssumption
  <2>2. Board = {<<0, 0>>}
    BY <2>1 DEF Board
  <2>3. QED
    BY <1>1, <2>2
<1>5. QED
  BY <1>3, <1>4

LEMMA NewSpawn ==
    ASSUME NEW c \in [Cops -> Board], NEW t \in Board, Spawn(c, t)
    PROVE  (H > 1 \/ W > 1) /\ OpenMoves(t, {}) # {}
BY SpawnNeedsRoom, OpenBoard

LEMMA BeliefStart == PlayInit => BeliefInv
<1> SUFFICES ASSUME PlayInit PROVE BeliefInv
  OBVIOUS
<1>1. /\ cops \in [Cops -> Board] /\ thief \in Board /\ Spawn(cops, thief) /\ barriers = {}
      /\ copMind.seen = Unseen /\ thiefMind.seen = Unseen
  BY DEF PlayInit, Init, FreshCop, FreshThief
<1>2. QED
  BY <1>1, NewSpawn DEF BeliefInv

LEMMA BeliefReset == ASSUME NewGame PROVE BeliefInv'
<1>1. /\ cops' \in [Cops -> Board] /\ thief' \in Board /\ Spawn(cops', thief') /\ barriers' = {}
      /\ copMind'.seen = Unseen /\ thiefMind'.seen = Unseen
  BY DEF NewGame, Reset, FreshCop, FreshThief
<1>2. QED
  BY <1>1, NewSpawn DEF BeliefInv

(* A sighting puts the opponent where it stands. *)
LEMMA Sighting ==
    ASSUME IInv, NEW r \in Roles, NEW o \in Image(r).other_visible
    PROVE  Cell(Other(r)) = Believed(Cell(r), o)
<1>1. {cops[i] : i \in Cops} = {cops[0]}
  BY OneCop
<1>2. Cell("cop") = cops[0] /\ Cell("thief") = thief /\ Other("cop") = "thief" /\ Other("thief") = "cop"
  BY DEF Cell, Other
<1>3. \A you, x : env!At(you, x) = Believed(you, x)
  BY DEF env!At, Believed
<1>4. CASE r = "cop"
  BY <1>2, <1>3, <1>4, ImagesOf
<1>5. CASE r = "thief"
  BY <1>1, <1>2, <1>3, <1>5, ImagesOf
<1>6. QED
  BY <1>4, <1>5 DEF Roles

(* What a policy goes by is where its opponent was last seen. *)
LEMMA GoesBySighting ==
    ASSUME IInv, NEW r \in Roles, NEW seen \in {Unseen} \union Offsets, NEW last,
           seen # Unseen => last = Believed(Cell(r), seen), Observed(r, seen) # Unseen
    PROVE  (IF Image(r).other_visible = {} THEN last ELSE Cell(Other(r)))
              = Believed(Cell(r), Observed(r, seen))
<1>1. CASE Image(r).other_visible = {}
  BY <1>1, ObservedIs
<1>2. CASE Image(r).other_visible # {}
  BY <1>2, ObservedIs, Sighting
<1>3. QED
  BY <1>1, <1>2

LEMMA ShiftedBelief ==
    ASSUME NEW pos \in Board, NEW seen \in Offsets, NEW m \in Moves
    PROVE  Believed(Target(pos, m), Shifted(seen, m)) = Believed(pos, seen)
<1>1. pos[1] \in Int /\ pos[2] \in Int /\ seen[1] \in Int /\ seen[2] \in Int
  BY BoardAssumption DEF Board, Offsets
<1>2. PICK x \in Int, y \in Int : Delta(m) = <<x, y>>
  BY DEF Moves, Delta
<1>3. /\ Target(pos, m) = <<pos[1] + x, pos[2] + y>>
      /\ Shifted(seen, m) = <<seen[1] - x, seen[2] - y>>
  BY <1>2 DEF Target, Shifted
<1>4. /\ (pos[1] + x) + (seen[1] - x) = pos[1] + seen[1]
      /\ (pos[2] + y) + (seen[2] - y) = pos[2] + seen[2]
  BY <1>1
<1>5. QED
  BY <1>3, <1>4 DEF Believed

(* The cop's side of a tick: moves leave the barriers as they are, a walled-*)
(* in cop stays walled in, and one that is not makes the move it asks for.  *)
LEMMA CopSteps ==
    ASSUME IInv, NEW a, a \in MaskMoves("cop") \/ a = "PLACE_BARRIER", NEW t,
           Step([i \in Cops |-> a], t)
    PROVE  /\ barriers \subseteq barriers' /\ barriers' \subseteq barriers \union {cops[0]}
           /\ a \in Moves => barriers' = barriers
           /\ a = "PLACE_BARRIER" => cops'[0] = cops[0]
           /\ OpenMoves(cops[0], barriers) = {} => OpenMoves(cops'[0], barriers') = {}
           /\ a # "PLACE_BARRIER" /\ OpenMoves(cops[0], barriers) # {} =>
                 cops'[0] = Target(cops[0], a)
<1> DEFINE act == [i \in Cops |-> a]
<1>1. cops[0] \in Board /\ 0 \in Cops /\ Cops = {0}
  BY OneCop DEF IInv, TypeOK
<1>2. Placers(act) \subseteq {i \in Cops : act[i] = "PLACE_BARRIER"}
  BY DEF Placers, FreshPlacers
<1>3. /\ barriers' = barriers \union {cops[i] : i \in Placers(act)}
      /\ cops'[0] = IF 0 \in Placers(act) THEN cops[0] ELSE ResolveMove(cops[0], a)
  BY <1>1 DEF Step
<1>4. /\ barriers \subseteq barriers' /\ barriers' \subseteq barriers \union {cops[0]}
  <2>1. \A i \in Placers(act) : i = 0
    BY <1>1, <1>2
  <2>2. QED
    BY <1>3, <2>1
<1>5. "PLACE_BARRIER" \notin Moves /\ MaskMoves("cop") = MoveMask(cops[0], barriers)
  BY MasksOf DEF Moves
<1>6. ASSUME a \in Moves
      PROVE  barriers' = barriers /\ cops'[0] = ResolveMove(cops[0], a)
  <2>1. Placers(act) = {}
    BY <1>2, <1>5, <1>6
  <2>2. QED
    BY <1>3, <2>1
<1>7. ASSUME a = "PLACE_BARRIER" PROVE cops'[0] = cops[0]
  <2>1. Delta(a) = <<0, 0>>
    BY <1>7 DEF Delta
  <2>2. Target(cops[0], a) = cops[0]
    BY <1>1, <2>1, BoardAssumption DEF Target, Board
  <2>3. ResolveMove(cops[0], a) = cops[0]
    BY <2>2 DEF ResolveMove
  <2>4. QED
    BY <1>3, <2>3
<1>8. CASE a = "PLACE_BARRIER"
  <2>1. OpenMoves(cops[0], barriers') \subseteq OpenMoves(cops[0], barriers)
    BY <1>4 DEF OpenMoves
  <2>2. QED
    BY <1>4, <1>5, <1>7, <1>8, <2>1
<1>9. CASE a \in MaskMoves("cop")
  <2>1. a \in Moves
    BY <1>9, MasksOf
  <2>2. barriers' = barriers /\ cops'[0] = ResolveMove(cops[0], a)
    BY <1>6, <2>1
  <2>3. a \in OpenMoves(cops[0], barriers) <=> CanEnter(Target(cops[0], a), cops[0])
    BY <2>1 DEF OpenMoves, CanEnter
  <2>4. CASE OpenMoves(cops[0], barriers) = {}
    <3>1. cops'[0] = cops[0]
      BY <2>2, <2>3, <2>4 DEF ResolveMove
    <3>2. QED
      BY <1>4, <1>5, <2>1, <2>2, <2>4, <3>1
  <2>5. CASE OpenMoves(cops[0], barriers) # {}
    <3>1. a \in OpenMoves(cops[0], barriers)
      BY <1>5, <1>9, <2>5 DEF MoveMask
    <3>2. cops'[0] = Target(cops[0], a)
      BY <2>2, <2>3, <3>1 DEF ResolveMove
    <3>3. QED
      BY <1>4, <1>5, <2>1, <2>2, <2>5, <3>2
  <2>6. QED
    BY <2>4, <2>5
<1>10. QED
  BY <1>8, <1>9

(* The thief's: it makes the move it asks for, and can go back.             *)
LEMMA ThiefSteps ==
    ASSUME IInv, BeliefInv, NEW a \in MaskMoves("thief"), NEW act, Step(act, a),
           barriers' \subseteq barriers \union {cops[0]}
    PROVE  thief' = Target(thief, a) /\ OpenMoves(thief', barriers') # {}
<1>1. /\ thief \in Board /\ thief \notin barriers /\ thief # cops[0] /\ winner = "none"
      /\ OpenMoves(thief, barriers) # {}
  BY OneCop DEF Step, IInv, TypeOK, OutcomeJustified, BeliefInv
<1>2. a \in OpenMoves(thief, barriers) /\ a \in Moves
  BY <1>1, MasksOf DEF MoveMask
<1>3. thief' = Target(thief, a)
  BY <1>2 DEF Step, ResolveMove, OpenMoves, CanEnter
<1>4. PICK n \in Moves : Target(Target(thief, a), n) = thief
  BY <1>1, <1>2, MoveBack
<1>5. thief \notin barriers'
  BY <1>1
<1>6. n \in OpenMoves(thief', barriers')
  BY <1>1, <1>3, <1>4, <1>5 DEF OpenMoves
<1>7. QED
  BY <1>3, <1>6

LEMMA BeliefTick ==
    ASSUME IInv, MindInv, BeliefInv, Tick
    PROVE  BeliefInv'
<1>1. PICK c \in CopDecisions, t \in ThiefDecisions :
         Step([i \in Cops |-> c.act], t.act) /\ copMind' = c.mind /\ thiefMind' = t.mind
  BY DEF Tick
<1> DEFINE seenC == Observed("cop", copMind.seen)
           seenT == Observed("thief", thiefMind.seen)
<1>2. /\ cops[0] \in Board /\ thief \in Board /\ "cop" \in Roles /\ "thief" \in Roles
      /\ Cell("cop") = cops[0] /\ Cell("thief") = thief
  BY OneCop DEF IInv, TypeOK, Cell, Roles
<1>3. /\ sighted'["cop"] = IF Image("cop").other_visible = {} THEN sighted["cop"] ELSE Cell(Other("cop"))
      /\ sighted'["thief"] =
            IF Image("thief").other_visible = {} THEN sighted["thief"] ELSE Cell(Other("thief"))
      /\ copKind' = copKind /\ thiefKind' = thiefKind
  BY <1>2 DEF Tick, kindVars
<1>4. /\ c.act \in Mask("cop")
      /\ copKind \in {"oracle", "net"} => c.mind = copMind
      /\ copKind = "pursuit" => c.act \in Moves
      /\ copKind \in {"pursuit", "barrier"} =>
            /\ seenC = Unseen => c.mind.seen = copMind.seen
            /\ seenC # Unseen =>
                  /\ seenC \in Offsets
                  /\ \/ c.act \in MaskMoves("cop") /\ c.mind.seen \in {Unseen, Shifted(seenC, c.act)}
                     \/ c.act = "PLACE_BARRIER" /\ c.mind.seen = seenC
  BY CopDecides
<1>5. /\ t.act \in MaskMoves("thief")
      /\ thiefKind \in {"expert", "random"} => t.mind = thiefMind
      /\ thiefKind \in {"flee", "adaptive"} =>
            \/ t.mind.switched
            \/ /\ ~thiefMind.switched
               /\ seenT = Unseen => t.mind.seen = thiefMind.seen
               /\ seenT # Unseen => seenT \in Offsets /\ t.mind.seen = Shifted(seenT, t.act)
  BY ThiefDecides
<1>6. copMind.seen \in {Unseen} \union Offsets /\ thiefMind.seen \in {Unseen} \union Offsets
  BY DEF MindInv, CopMinds, ThiefMinds
<1>7. c.act \in MaskMoves("cop") \/ c.act = "PLACE_BARRIER"
  BY <1>4, MasksOf DEF PlaceMask
<1>8. /\ barriers \subseteq barriers' /\ barriers' \subseteq barriers \union {cops[0]}
      /\ c.act \in Moves => barriers' = barriers
      /\ c.act = "PLACE_BARRIER" => cops'[0] = cops[0]
      /\ OpenMoves(cops[0], barriers) = {} => OpenMoves(cops'[0], barriers') = {}
      /\ c.act # "PLACE_BARRIER" /\ OpenMoves(cops[0], barriers) # {} =>
            cops'[0] = Target(cops[0], c.act)
  BY <1>1, <1>7, CopSteps
<1>9. thief' = Target(thief, t.act) /\ OpenMoves(thief', barriers') # {}
  BY <1>1, <1>5, <1>8, ThiefSteps
<1>10. /\ seenC = Unseen => copMind.seen = Unseen
       /\ seenT = Unseen => thiefMind.seen = Unseen
  <2>1. Unseen \notin Offsets
    BY DEF Unseen, Offsets
  <2>2. QED
    BY <1>2, <2>1, ObservedIs
<1> HIDE DEF seenC, seenT
<1>11. ASSUME copMind'.seen # Unseen, OpenMoves(cops'[0], barriers') # {}
       PROVE  sighted'["cop"] = Believed(cops'[0], copMind'.seen)
  <2>1. copKind \in {"pursuit", "barrier"}
    BY <1>1, <1>4, <1>11 DEF BeliefInv, MindInv
  <2>2. seenC # Unseen /\ OpenMoves(cops[0], barriers) # {}
    BY <1>1, <1>4, <1>8, <1>10, <1>11, <2>1
  <2>3. sighted'["cop"] = Believed(cops[0], seenC)
    <3>1. copMind.seen # Unseen => sighted["cop"] = Believed(Cell("cop"), copMind.seen)
      BY <1>2, <2>2 DEF BeliefInv
    <3>2. (IF Image("cop").other_visible = {} THEN sighted["cop"] ELSE Cell(Other("cop")))
             = Believed(Cell("cop"), seenC)
      BY <1>2, <1>6, <2>2, <3>1, GoesBySighting DEF seenC
    <3>3. QED
      BY <1>2, <1>3, <3>2
  <2>4. CASE c.act = "PLACE_BARRIER" /\ c.mind.seen = seenC
    BY <1>1, <1>8, <2>3, <2>4
  <2>5. CASE c.act \in MaskMoves("cop") /\ c.mind.seen \in {Unseen, Shifted(seenC, c.act)}
    <3>1. c.act \in Moves /\ c.act # "PLACE_BARRIER" /\ c.mind.seen = Shifted(seenC, c.act)
      BY <1>1, <1>11, <2>5, MasksOf DEF Moves
    <3>2. seenC \in Offsets
      BY <1>4, <2>1, <2>2
    <3>3. cops'[0] = Target(cops[0], c.act)
      BY <1>8, <2>2, <3>1
    <3>4. Believed(Target(cops[0], c.act), Shifted(seenC, c.act)) = Believed(cops[0], seenC)
      BY <1>2, <3>1, <3>2, ShiftedBelief
    <3>5. QED
      BY <1>1, <2>3, <3>1, <3>3, <3>4
  <2>6. QED
    BY <1>4, <2>1, <2>2, <2>4, <2>5
<1>12. ASSUME thiefMind'.seen # Unseen, ~thiefMind'.switched
       PROVE  sighted'["thief"] = Believed(thief', thiefMind'.seen)
  <2>1. thiefKind \in {"flee", "adaptive"}
    BY <1>1, <1>5, <1>12 DEF BeliefInv, MindInv
  <2>2. ~thiefMind.switched /\ seenT # Unseen
    BY <1>1, <1>5, <1>10, <1>12, <2>1
  <2>3. seenT \in Offsets /\ t.mind.seen = Shifted(seenT, t.act)
    BY <1>1, <1>5, <1>12, <2>1, <2>2
  <2>4. sighted'["thief"] = Believed(thief, seenT)
    <3>1. thiefMind.seen # Unseen => sighted["thief"] = Believed(Cell("thief"), thiefMind.seen)
      BY <1>2, <2>2 DEF BeliefInv
    <3>2. (IF Image("thief").other_visible = {} THEN sighted["thief"] ELSE Cell(Other("thief")))
             = Believed(Cell("thief"), seenT)
      BY <1>2, <1>6, <2>2, <3>1, GoesBySighting DEF seenT
    <3>3. QED
      BY <1>2, <1>3, <3>2
  <2>5. t.act \in Moves
    BY <1>5, MasksOf
  <2>6. Believed(Target(thief, t.act), Shifted(seenT, t.act)) = Believed(thief, seenT)
    BY <1>2, <2>3, <2>5, ShiftedBelief
  <2>7. QED
    BY <1>1, <1>9, <2>3, <2>4, <2>6
<1>13. /\ copKind' \in {"oracle", "net"} => copMind'.seen = Unseen
       /\ thiefKind' \in {"expert", "random"} => thiefMind'.seen = Unseen
       /\ copKind' = "pursuit" => barriers' = {}
  BY <1>1, <1>3, <1>4, <1>5, <1>8 DEF BeliefInv
<1>14. QED
  BY <1>9, <1>11, <1>12, <1>13 DEF BeliefInv

LEMMA BeliefStep == IInv /\ MindInv /\ BeliefInv /\ [PlayNext]_playVars => BeliefInv'
<1> SUFFICES ASSUME IInv, MindInv, BeliefInv, [PlayNext]_playVars PROVE BeliefInv'
  OBVIOUS
<1>1. CASE Tick
  BY <1>1, BeliefTick
<1>2. CASE NewGame
  BY <1>2, BeliefReset
<1>3. CASE UNCHANGED <<vars, mindVars, kindVars>>
  BY <1>3 DEF BeliefInv, vars, mindVars, kindVars
<1>4. CASE NextMatchup \/ NextEpisode \/ WatchReset
  BY <1>2, <1>4 DEF NextMatchup, NextEpisode, WatchReset
<1>5. CASE WatchNext
  BY <1>2, <1>3, <1>5 DEF WatchNext
<1>6. CASE UNCHANGED playVars
  BY <1>3, <1>6 DEF playVars
<1>7. QED
  BY <1>1, <1>4, <1>5, <1>6 DEF PlayNext, Over

(* Where a policy believes its opponent was last seen is where it was last  *)
(* seen, on every board and with every view, unless the policy is the cop   *)
(* that puts up barriers and it walled itself in.                           *)
THEOREM BeliefUnlessWalledIn ==
    PlaySpec => []((copKind = "barrier" => EnterableMoves(cops[0]) # {}) => BeliefIsSighting)
<1>1. IInv /\ MindInv /\ BeliefInv =>
         ((copKind = "barrier" => EnterableMoves(cops[0]) # {}) => BeliefIsSighting)
  <2> SUFFICES ASSUME IInv, MindInv, BeliefInv, copKind = "barrier" => EnterableMoves(cops[0]) # {}
               PROVE  BeliefIsSighting
    OBVIOUS
  <2>1. EnterableMoves(cops[0]) = OpenMoves(cops[0], barriers)
    BY DEF EnterableMoves, OpenMoves, CanEnter
  <2>2. cops[0] \in Board /\ Cell("cop") = cops[0] /\ Cell("thief") = thief
    BY OneCop DEF IInv, TypeOK, Cell
  <2>3. copMind.seen # Unseen => OpenMoves(cops[0], barriers) # {}
    BY <2>1, <2>2, OpenBoard DEF MindInv, BeliefInv
  <2>4. copMind.seen # Unseen => sighted["cop"] = Believed(Cell("cop"), copMind.seen)
    BY <2>2, <2>3 DEF BeliefInv
  <2>5. thiefMind.seen # Unseen /\ ~thiefMind.switched =>
           sighted["thief"] = Believed(Cell("thief"), thiefMind.seen)
    BY <2>2 DEF BeliefInv
  <2>6. ASSUME NEW r \in Roles PROVE r = "cop" \/ r = "thief"
    BY DEF Roles
  <2>7. QED
    BY <2>4, <2>5, <2>6 DEF BeliefIsSighting, Believed
<1>2. QED
  BY <1>1, PlayStart, PlayStep, MindStart, MindStep, BeliefStart, BeliefStep, PTL DEF PlaySpec

(* A thief that keeps to the mask is never walled in while it is free: the  *)
(* cell it came from stays open, since barriers go down under a cop alone.  *)
(* So the mask's fallback to all four moves is never the thief's.           *)
THEOREM ThiefHasAWay == PlaySpec => [](winner # "cop" => EnterableMoves(thief) # {})
<1>1. BeliefInv => (winner # "cop" => EnterableMoves(thief) # {})
  BY DEF BeliefInv, EnterableMoves, OpenMoves, CanEnter
<1>2. QED
  BY <1>1, PlayStart, PlayStep, MindStart, MindStep, BeliefStart, BeliefStep, PTL DEF PlaySpec

(* Every play is a behaviour of the environment, with resets between its    *)
(* sub-games: what is proved of CopsRobbers holds of evaluations, watched   *)
(* matches and data collections.                                            *)
THEOREM PlaysTheEnvironment == PlaySpec => Spec
<1>1. PlayInit => Init
  BY DEF PlayInit
<1>2. IInv /\ MindInv /\ [PlayNext]_playVars => [Next]_vars
  <2> SUFFICES ASSUME IInv, MindInv, [PlayNext]_playVars PROVE [Next]_vars
    OBVIOUS
  <2>1. CASE Tick
    <3>1. PICK c \in CopDecisions, t \in ThiefDecisions : Step([i \in Cops |-> c.act], t.act)
      BY <2>1 DEF Tick
    <3>2. c.act \in CopActions
      <4>1. Mask("cop") \subseteq CopActions
        BY MasksOf DEF PlaceMask, CopActions
      <4>2. QED
        BY <4>1, CopDecides
    <3>3. t.act \in Moves
      BY ThiefDecides, MasksOf
    <3>4. [i \in Cops |-> c.act] \in [Cops -> CopActions]
      BY <3>2
    <3>5. QED
      BY <3>1, <3>3, <3>4 DEF Next
  <2>2. CASE NewGame
    BY <2>2 DEF NewGame, Next
  <2>3. CASE UNCHANGED vars
    BY <2>3
  <2>4. CASE NextMatchup \/ NextEpisode \/ WatchReset
    BY <2>2, <2>4 DEF NextMatchup, NextEpisode, WatchReset
  <2>5. CASE WatchNext
    BY <2>2, <2>3, <2>5 DEF WatchNext
  <2>6. CASE UNCHANGED playVars
    BY <2>3, <2>6 DEF playVars
  <2>7. QED
    BY <2>1, <2>4, <2>5, <2>6 DEF PlayNext, Over
<1>3. QED
  BY <1>1, <1>2, PlayStart, PlayStep, MindStart, MindStep, PTL DEF PlaySpec, Spec
=============================================================================
