-------------------------- MODULE CopsRobbersProofs --------------------------
(***************************************************************************)
(* Proofs about one sub-game, for every board, team size and budget.       *)
(***************************************************************************)
EXTENDS CopsRobbers, FiniteSetTheorems, TLAPS

(* A non-empty set of cop indices has a greatest member. *)
LEMMA LastCop ==
    ASSUME NEW S \in SUBSET Cops, S # {}
    PROVE  \E m \in S : \A x \in S : x <= m
<1> DEFINE Back == {n \in Nat : NumCops - 1 - n \in S}
<1>0. NumCops \in Nat \ {0}
  BY BoardAssumption
<1>1. \A x \in S : x \in Int /\ 0 <= x /\ x <= NumCops - 1
  BY <1>0 DEF Cops
<1>2. PICK x \in S : TRUE
  OBVIOUS
<1>3. NumCops - 1 - x \in Back
  BY <1>0, <1>1
<1>4. Back \subseteq Nat /\ Back # {}
  BY <1>3
<1> HIDE DEF Back
<1>5. PICK n \in Back : \A y \in Back : ~ (<<y, n>> \in OpToRel(<, Nat))
  BY <1>4, NatLessThanWellFounded, WFMin
<1>6. \A y \in Back : ~ (y < n)
  BY <1>4, <1>5 DEF OpToRel
<1>7. NumCops - 1 - n \in S /\ n \in Nat
  BY <1>5 DEF Back
<1>8. ASSUME NEW y \in S PROVE y <= NumCops - 1 - n
  <2>1. y \in Int /\ 0 <= y /\ y <= NumCops - 1
    BY <1>1
  <2>2. NumCops - 1 - y \in Nat /\ NumCops - 1 - (NumCops - 1 - y) = y
    BY <1>0, <2>1
  <2>3. NumCops - 1 - y \in Back
    BY <2>2 DEF Back
  <2> QED
    BY <1>0, <1>6, <1>7, <2>1, <2>3
<1> QED
  BY <1>7, <1>8

(* The cops' indices, and whatever is picked among them, are finite. *)
LEMMA CopsFinite == \A S \in SUBSET Cops : IsFiniteSet(S) /\ Cardinality(S) \in Nat
<1>1. IsFiniteSet(Cops)
  BY BoardAssumption, FS_Interval DEF Cops
<1> QED
  BY <1>1, FS_Subset, FS_CardinalityType

(* Taking only the cops that have fewer than n predecessors takes at most n.*)
LEMMA FirstOnes ==
    ASSUME NEW F \in SUBSET Cops, NEW n \in Nat, NEW S \in SUBSET F,
           \A i \in S : Cardinality({j \in F : j < i}) < n
    PROVE  Cardinality(S) <= n
<1>1. CASE S = {}
  <2>1. Cardinality(S) = 0
    BY <1>1, FS_EmptySet
  <2> QED
    BY <2>1
<1>2. CASE S # {}
  <2>1. S \in SUBSET Cops
    OBVIOUS
  <2>2. PICK m \in S : \A x \in S : x <= m
    BY <1>2, <2>1, LastCop
  <2> DEFINE B == {j \in F : j < m}
  <2>3. B \in SUBSET Cops /\ Cardinality(B) < n
    BY <2>2
  <2>4. IsFiniteSet(B) /\ Cardinality(B) \in Nat
    BY <2>3, CopsFinite
  <2>5. IsFiniteSet(B \union {m}) /\ Cardinality(B \union {m}) <= Cardinality(B) + 1
    BY <2>4, FS_AddElement
  <2>6. S \subseteq B \union {m}
    <3>1. \A x \in S : x \in Int
      BY <2>1, BoardAssumption DEF Cops
    <3>2. \A x \in S : x < m \/ x = m
      BY <2>2, <3>1
    <3> QED
      BY <3>2
  <2>7. Cardinality(S) <= Cardinality(B \union {m})
    BY <2>5, <2>6, FS_Subset
  <2>8. Cardinality(S) \in Nat /\ Cardinality(B \union {m}) \in Nat
    BY <2>1, <2>5, CopsFinite, FS_CardinalityType
  <2> QED
    BY <2>3, <2>4, <2>5, <2>7, <2>8
<1> QED
  BY <1>1, <1>2

-----------------------------------------------------------------------------
(* A move ends on the board, and never inside a barrier it did not start on.*)
LEMMA MoveLands ==
    ASSUME NEW pos \in Board, NEW a
    PROVE  /\ ResolveMove(pos, a) \in Board
           /\ ResolveMove(pos, a) \in barriers => ResolveMove(pos, a) = pos
BY DEF ResolveMove, CanEnter

(* A move goes to a neighbouring cell or nowhere. *)
Displacements == {<<0, 0>>, <<-1, 0>>, <<1, 0>>, <<0, -1>>, <<0, 1>>}

LEMMA MoveIsOneCell ==
    ASSUME NEW pos \in Board, NEW a
    PROVE  \E d \in Displacements :
               /\ ResolveMove(pos, a)[1] = pos[1] + d[1]
               /\ ResolveMove(pos, a)[2] = pos[2] + d[2]
<1>1. pos[1] \in Int /\ pos[2] \in Int
  BY BoardAssumption DEF Board
<1>2. CASE ResolveMove(pos, a) = pos
  BY <1>1, <1>2 DEF Displacements
<1>3. CASE ResolveMove(pos, a) = Target(pos, a)
  <2>1. Delta(a) \in Displacements
    BY DEF Delta, Displacements
  <2>2. ResolveMove(pos, a)[1] = pos[1] + Delta(a)[1] /\ ResolveMove(pos, a)[2] = pos[2] + Delta(a)[2]
    BY <1>3 DEF Target
  <2> QED
    BY <2>1, <2>2
<1> QED
  BY <1>2, <1>3 DEF ResolveMove

(* Two agents on different cells that are at one point halfway through a    *)
(* tick have changed places.                                                *)
LEMMA HalfWayIsSwap ==
    ASSUME NEW c \in Board, NEW t \in Board, NEW c1 \in Board, NEW t1 \in Board, c # t,
           NEW d \in Displacements, c1[1] = c[1] + d[1], c1[2] = c[2] + d[2],
           NEW e \in Displacements, t1[1] = t[1] + e[1], t1[2] = t[2] + e[2],
           \A k \in 1 .. 2 : c[k] + c1[k] = t[k] + t1[k]
    PROVE  c1 = t /\ t1 = c
<1>1. \A p \in Board : p[1] \in Int /\ p[2] \in Int /\ p = <<p[1], p[2]>>
  BY BoardAssumption DEF Board
<1>2. /\ d[1] \in Int /\ d[2] \in Int /\ e[1] \in Int /\ e[2] \in Int
      /\ \/ d[1] = 0 /\ d[2] \in {-1, 0, 1}
         \/ d[1] \in {-1, 1} /\ d[2] = 0
      /\ \/ e[1] = 0 /\ e[2] \in {-1, 0, 1}
         \/ e[1] \in {-1, 1} /\ e[2] = 0
  BY DEF Displacements
<1>3. c[1] + c1[1] = t[1] + t1[1] /\ c[2] + c1[2] = t[2] + t1[2]
  OBVIOUS
<1>4. c[1] # t[1] \/ c[2] # t[2]
  BY <1>1
<1>5. c1[1] = t[1] /\ c1[2] = t[2] /\ t1[1] = c[1] /\ t1[2] = c[2]
  <2>1. /\ c[1] \in Int /\ c[2] \in Int /\ t[1] \in Int /\ t[2] \in Int
        /\ d[1] \in {-1, 0, 1} /\ d[2] \in {-1, 0, 1} /\ (d[1] = 0 \/ d[2] = 0)
        /\ e[1] \in {-1, 0, 1} /\ e[2] \in {-1, 0, 1} /\ (e[1] = 0 \/ e[2] = 0)
    BY <1>1, <1>2
  <2>2. /\ c[1] + (c[1] + d[1]) = t[1] + (t[1] + e[1])
        /\ c[2] + (c[2] + d[2]) = t[2] + (t[2] + e[2])
    BY <1>3
  <2>3. /\ c[1] + d[1] = t[1] /\ c[2] + d[2] = t[2]
        /\ t[1] + e[1] = c[1] /\ t[2] + e[2] = c[2]
    <3> DEFINE cr == c[1]  cc == c[2]  tr == t[1]  tc == t[2]
               dr == d[1]  dc == d[2]  er == e[1]  ec == e[2]
    <3>1. /\ cr \in Int /\ cc \in Int /\ tr \in Int /\ tc \in Int
          /\ dr \in {-1, 0, 1} /\ dc \in {-1, 0, 1} /\ (dr = 0 \/ dc = 0)
          /\ er \in {-1, 0, 1} /\ ec \in {-1, 0, 1} /\ (er = 0 \/ ec = 0)
          /\ cr + (cr + dr) = tr + (tr + er) /\ cc + (cc + dc) = tc + (tc + ec)
          /\ (cr # tr \/ cc # tc)
      BY <1>4, <2>1, <2>2
    <3> HIDE DEF cr, cc, tr, tc, dr, dc, er, ec
    <3>2. cr + dr = tr /\ cc + dc = tc /\ tr + er = cr /\ tc + ec = cc
      BY <3>1
    <3> QED
      BY <3>2 DEF cr, cc, tr, tc, dr, dc, er, ec
  <2> QED
    BY <2>3
<1> QED
  BY <1>1, <1>5

(* The cops whose PLACE is honoured are within budget, on distinct cells    *)
(* none of which was a barrier.                                             *)
LEMMA PlacersSound ==
    ASSUME TypeOK, used <= MaxBarriers, NEW act
    PROVE  /\ Placers(act) \in SUBSET Cops
           /\ Cardinality(Placers(act)) \in Nat
           /\ used + Cardinality(Placers(act)) <= MaxBarriers
           /\ \A i \in Placers(act) : cops[i] \in Board \ barriers
           /\ \A i, j \in Placers(act) : cops[i] = cops[j] => i = j
<1> DEFINE F == FreshPlacers(act)
           P == Placers(act)
<1>1. F \in SUBSET Cops /\ P \in SUBSET F
  BY DEF FreshPlacers, Placers
<1>2. MaxBarriers - used \in Nat
  BY BoardAssumption DEF TypeOK
<1>3. P = {i \in F : Cardinality({j \in F : j < i}) < MaxBarriers - used}
  BY DEF Placers
<1>4. Cardinality(P) <= MaxBarriers - used
  <2> HIDE DEF F, P
  <2> QED
    BY <1>1, <1>2, <1>3, FirstOnes
<1>5. P \in SUBSET Cops
  BY <1>1
<1>6. Cardinality(P) \in Nat
  BY <1>5, CopsFinite
<1>7. used + Cardinality(P) <= MaxBarriers
  BY <1>4, <1>6, BoardAssumption DEF TypeOK
<1>8. \A i \in P : cops[i] \in Board \ barriers
  BY <1>1 DEF FreshPlacers, TypeOK
<1>9. ASSUME NEW i \in P, NEW j \in P, cops[i] = cops[j] PROVE i = j
  <2>1. i \in Int /\ j \in Int /\ 0 <= i /\ 0 <= j
    BY <1>1, BoardAssumption DEF Cops
  <2>2. i < j => FALSE
    BY <1>1, <1>9, <2>1 DEF FreshPlacers
  <2>3. j < i => FALSE
    BY <1>1, <1>9, <2>1 DEF FreshPlacers
  <2> QED
    BY <2>1, <2>2, <2>3
<1> QED
  BY <1>5, <1>6, <1>7, <1>8, <1>9

(* They put down one barrier each. *)
LEMMA OneBarrierEach ==
    ASSUME TypeOK, used <= MaxBarriers, NEW act
    PROVE  LET cells == {cops[i] : i \in Placers(act)}
           IN  /\ cells \in SUBSET Board /\ cells \intersect barriers = {}
               /\ IsFiniteSet(cells)
               /\ Cardinality(cells) = Cardinality(Placers(act))
<1> DEFINE P == Placers(act)
           cells == {cops[i] : i \in P}
           f == [i \in P |-> cops[i]]
<1>1. /\ P \in SUBSET Cops /\ \A i \in P : cops[i] \in Board \ barriers
      /\ \A i, j \in P : cops[i] = cops[j] => i = j
  BY PlacersSound
<1>2. IsFiniteSet(P)
  BY <1>1, CopsFinite
<1> HIDE DEF P
<1>3. f \in Surjection(P, cells) /\ f \in Injection(P, cells)
  BY <1>1 DEF Surjection, Injection, IsInjective
<1> HIDE DEF f
<1>4. IsFiniteSet(cells) /\ Cardinality(cells) = Cardinality(P)
  BY <1>2, <1>3, FS_Surjection
<1> QED
  BY <1>1, <1>4 DEF P

-----------------------------------------------------------------------------
(* The inductive invariant.  The properties need each other: the budget     *)
(* bounds what a tick may place, and that the thief is not inside a barrier *)
(* while the sub-game goes on is what keeps it out of one at the next tick. *)
ThiefNotWalledIn == thief \in barriers => winner = "cop"

IInv ==
    /\ TypeOK
    /\ BudgetExact /\ IsFiniteSet(barriers)
    /\ ThiefNotWalledIn
    /\ OutcomeJustified

(* Spawned apart: no cop starts on the thief. *)
LEMMA SpawnApart ==
    ASSUME NEW c \in [Cops -> Board], NEW t \in Board, Spawn(c, t)
    PROVE  \A i \in Cops : c[i] # t
<1>1. 0 \in Cops /\ Radius \in Nat
  BY BoardAssumption DEF Cops
<1>2. Distance(c[0], t) > Radius
  BY DEF Spawn, SampleSpawn
<1>3. t[1] \in Int /\ t[2] \in Int
  BY DEF Board
<1>4. Distance(t, t) = 0
  BY <1>3 DEF Distance
<1>5. c[0] # t
  BY <1>1, <1>2, <1>4
<1> QED
  BY <1>5 DEF Spawn

(* Where a sub-game starts, by reset() as at first, the invariant holds. *)
LEMMA StartSound == Init => IInv
<1> SUFFICES ASSUME Init PROVE IInv
  OBVIOUS
<1>1. TypeOK
  BY BoardAssumption DEF Init, TypeOK
<1>2. \A i \in Cops : cops[i] # thief
  BY SpawnApart DEF Init
<1>3. BudgetExact /\ IsFiniteSet(barriers)
  BY FS_EmptySet, BoardAssumption DEF Init, BudgetExact
<1>4. ThiefNotWalledIn
  BY DEF Init, ThiefNotWalledIn
<1>5. OutcomeJustified
  BY <1>2, <1>4, BoardAssumption DEF Init, ThiefNotWalledIn, OutcomeJustified
<1> QED
  BY <1>1, <1>3, <1>4, <1>5 DEF IInv

LEMMA ResetSound == ASSUME IInv, Reset PROVE IInv'
<1>1. TypeOK'
  BY DEF IInv, Reset, Remember, TypeOK
<1>2. \A i \in Cops : cops'[i] # thief'
  BY SpawnApart DEF Reset
<1>3. (BudgetExact /\ IsFiniteSet(barriers))'
  BY FS_EmptySet, BoardAssumption DEF Reset, BudgetExact
<1>4. ThiefNotWalledIn'
  BY DEF Reset, ThiefNotWalledIn
<1>5. OutcomeJustified'
  BY <1>2, <1>4, BoardAssumption DEF Reset, ThiefNotWalledIn, OutcomeJustified
<1> QED
  BY <1>1, <1>3, <1>4, <1>5 DEF IInv

(* A tick keeps it, whatever the cops and the thief ask for. *)
LEMMA StepSound ==
    ASSUME IInv, NEW act, NEW thiefAct, Step(act, thiefAct)
    PROVE  IInv'
<1> DEFINE P == Placers(act)
           cells == {cops[i] : i \in P}
<1>0. TypeOK /\ used <= MaxBarriers
  BY DEF IInv, BudgetExact
<1>1. /\ P \in SUBSET Cops /\ Cardinality(P) \in Nat
      /\ used + Cardinality(P) <= MaxBarriers
  BY <1>0, PlacersSound
<1>2. /\ cells \in SUBSET Board /\ cells \intersect barriers = {}
      /\ IsFiniteSet(cells) /\ Cardinality(cells) = Cardinality(P)
  BY <1>0, OneBarrierEach
<1>3. /\ barriers' = barriers \union cells /\ used' = used + Cardinality(P)
      /\ thief' = ResolveMove(thief, thiefAct) /\ step' = step + 1
      /\ winner = "none" /\ winner' = Winner(Captured(cops', thief'), step + 1)
      /\ cops' = [i \in Cops |-> IF i \in P THEN cops[i] ELSE ResolveMove(cops[i], act[i])]
  BY DEF Step
<1>4. TypeOK'
  <2>1. cops' \in [Cops -> Board] /\ thief' \in Board
    BY <1>0, <1>3, MoveLands DEF TypeOK
  <2>2. barriers' \in SUBSET Board /\ used' \in Nat /\ step' \in Nat
    BY <1>0, <1>1, <1>2, <1>3 DEF TypeOK
  <2>3. winner' \in {"none", "cop", "thief"}
    BY <1>3 DEF Winner
  <2>4. copMemory' \in [Cops -> Nat] /\ thiefMemory' \in Nat
    BY <1>0 DEF Step, Remember, TypeOK
  <2> QED
    BY <2>1, <2>2, <2>3, <2>4 DEF TypeOK
<1>5. (BudgetExact /\ IsFiniteSet(barriers))'
  <2>1. IsFiniteSet(barriers) /\ used = Cardinality(barriers) /\ used \in Nat
    BY <1>0 DEF IInv, BudgetExact, TypeOK
  <2> HIDE DEF cells, P
  <2>2. barriers \intersect cells = {} /\ Cardinality({}) = 0
    BY <1>2, FS_EmptySet
  <2>3. /\ IsFiniteSet(barriers \union cells)
        /\ Cardinality(barriers \union cells) = Cardinality(barriers) + Cardinality(cells) - 0
    <3>1. /\ IsFiniteSet(barriers \union cells)
          /\ Cardinality(barriers \union cells) =
               Cardinality(barriers) + Cardinality(cells) - Cardinality(barriers \intersect cells)
      BY <1>2, <2>1, FS_Union
    <3>2. Cardinality(barriers \intersect cells) = 0
      BY <2>2
    <3> QED
      BY <3>1, <3>2
  <2>4. Cardinality(barriers') = used + Cardinality(P)
    BY <1>1, <1>2, <1>3, <2>1, <2>3
  <2> QED
    BY <1>1, <1>3, <2>3, <2>4 DEF BudgetExact
<1>6. ASSUME winner' # "cop" PROVE \A i \in Cops : cops'[i] # thief'
  BY <1>3, <1>6 DEF Winner, Captured
<1>7. ThiefNotWalledIn'
  <2> SUFFICES ASSUME thief' \in barriers', winner' # "cop" PROVE FALSE
    BY DEF ThiefNotWalledIn
  <2>1. CASE thief' \in barriers
    <3>1. thief' = thief
      BY <1>0, <1>3, <2>1, MoveLands DEF TypeOK
    <3> QED
      BY <1>3, <2>1, <3>1 DEF IInv, ThiefNotWalledIn
  <2>2. CASE thief' \in cells
    <3>1. PICK i \in P : thief' = cops[i]
      BY <2>2
    <3>2. i \in Cops /\ cops'[i] = cops[i]
      BY <1>1, <1>3
    <3> QED
      BY <1>6, <3>1, <3>2
  <2> QED
    BY <1>3, <2>1, <2>2
<1>8. OutcomeJustified'
  <2>1. step \in Nat /\ step < MaxMoves /\ MaxMoves \in Nat
    BY <1>0, <1>3, BoardAssumption DEF IInv, OutcomeJustified, TypeOK
  <2>2. /\ winner' = "none" => step + 1 < MaxMoves
        /\ winner' = "thief" => step + 1 = MaxMoves
    BY <1>3, <2>1 DEF Winner
  <2>3. ASSUME winner' = "cop"
        PROVE  \E i \in Cops :
                   cops'[i] = thief' \/ (CaptureOnSwap /\ Distance(cops'[i], thief') = 1)
    <3>1. PICK i \in Cops : \/ cops'[i] = thief'
                            \/ CaptureOnSwap /\ cops[i] = thief' /\ cops'[i] = thief
      BY <1>3, <2>3 DEF Winner, Captured
    <3>2. CASE CaptureOnSwap /\ cops'[i] = thief /\ thief' # thief
      <4>1. PICK d \in Displacements : thief'[1] = thief[1] + d[1] /\ thief'[2] = thief[2] + d[2]
        BY <1>0, <1>3, MoveIsOneCell DEF TypeOK
      <4>2. /\ thief[1] \in Int /\ thief[2] \in Int /\ thief = <<thief[1], thief[2]>>
            /\ thief' = <<thief'[1], thief'[2]>>
        BY <1>0, <1>4, BoardAssumption DEF TypeOK, Board
      <4>3. d # <<0, 0>>
        <5>1. d = <<0, 0>> => thief'[1] = thief[1] /\ thief'[2] = thief[2]
          BY <4>1, <4>2
        <5> QED
          BY <3>2, <4>2, <5>1
      <4>4. Distance(thief, thief') = 1
        BY <4>1, <4>2, <4>3 DEF Distance, Displacements
      <4> QED
        BY <3>2, <4>4
    <3> QED
      BY <3>1, <3>2
  <2> QED
    BY <1>3, <1>6, <1>7, <2>1, <2>2, <2>3 DEF ThiefNotWalledIn, OutcomeJustified
<1> QED
  BY <1>4, <1>5, <1>7, <1>8 DEF IInv

(* No step of the environment leaves the invariant. *)
LEMMA NextSound == IInv /\ [Next]_vars => IInv'
<1> SUFFICES ASSUME IInv, [Next]_vars PROVE IInv'
  OBVIOUS
<1>1. CASE Reset
  BY <1>1, ResetSound
<1>2. ASSUME NEW act \in [Cops -> CopActions], NEW thiefAct \in Moves, Step(act, thiefAct)
      PROVE  IInv'
  BY <1>2, StepSound
<1>3. CASE UNCHANGED vars
  BY <1>3 DEF vars, IInv, TypeOK, BudgetExact, ThiefNotWalledIn, OutcomeJustified
<1> QED
  BY <1>1, <1>2, <1>3 DEF Next

(* Every reachable state of every sub-game satisfies the invariant. *)
THEOREM Invariance == Spec => []IInv
BY StartSound, NextSound, PTL DEF Spec

(* The team never passes its barrier budget and pays for each barrier once, *)
(* for any team size (_resolve_cops, the per-barrier reward charge).        *)
THEOREM BudgetSound == Spec => []BudgetExact
BY Invariance, PTL DEF IInv

(* A tick is won by the cops exactly when one of them meets the thief.      *)
LEMMA MeetingWins ==
    ASSUME IInv, IInv', NEW act, NEW thiefAct, Step(act, thiefAct)
    PROVE  winner' = "cop" <=>
               \E i \in Cops : cops'[i] = thief' \/ (CaptureOnSwap /\ MeetsHalfWay(i))
<1>1. winner = "none" /\ thief' = ResolveMove(thief, thiefAct) /\ \A i \in Cops : cops[i] # thief
  BY DEF Step, IInv, OutcomeJustified
<1>2. winner' = "cop" <=> Captured(cops', thief')
  BY DEF Step, Winner
<1>3. /\ thief \in Board /\ thief' \in Board
      /\ \A i \in Cops : cops[i] \in Board /\ cops'[i] \in Board
  BY DEF IInv, TypeOK
<1>4. ASSUME NEW i \in Cops
      PROVE  MeetsHalfWay(i) <=> cops[i] = thief' /\ cops'[i] = thief
  <2>1. \A p \in Board : p[1] \in Int /\ p[2] \in Int
    BY BoardAssumption DEF Board
  <2>2. PICK e \in Displacements : thief'[1] = thief[1] + e[1] /\ thief'[2] = thief[2] + e[2]
    BY <1>1, <1>3, MoveIsOneCell
  <2>3. PICK d \in Displacements : cops'[i][1] = cops[i][1] + d[1] /\ cops'[i][2] = cops[i][2] + d[2]
    <3>1. CASE cops'[i] = cops[i]
      BY <1>3, <2>1, <3>1 DEF Displacements
    <3>2. CASE cops'[i] = ResolveMove(cops[i], act[i])
      BY <1>3, <3>2, MoveIsOneCell
    <3> QED
      BY <3>1, <3>2 DEF Step
  <2>4. MeetsHalfWay(i) => cops[i] = thief' /\ cops'[i] = thief
    BY <1>1, <1>3, <2>2, <2>3, HalfWayIsSwap DEF MeetsHalfWay
  <2>5. cops[i] = thief' /\ cops'[i] = thief => MeetsHalfWay(i)
    BY <1>3, <2>1 DEF MeetsHalfWay
  <2> QED
    BY <2>4, <2>5
<1> QED
  BY <1>2, <1>4 DEF Captured

(* The cops win exactly when one of them meets the thief, the thief exactly *)
(* at max_moves if they have not, no sub-game outlasts max_moves, and a     *)
(* thief inside a barrier was caught by the tick that put it there.         *)
THEOREM OutcomeSound == Spec => OutcomeSettled
<1> DEFINE Meeting ==
             step' = step + 1 =>
                 (winner' = "cop" <=>
                     \E i \in Cops : cops'[i] = thief' \/ (CaptureOnSwap /\ MeetsHalfWay(i)))
<1>1. IInv /\ IInv' /\ [Next]_vars => [Meeting]_vars
  <2> SUFFICES ASSUME IInv, IInv', Next, step' = step + 1
               PROVE  winner' = "cop" <=>
                          \E i \in Cops : cops'[i] = thief' \/ (CaptureOnSwap /\ MeetsHalfWay(i))
    OBVIOUS
  <2>1. ~Reset
    BY DEF IInv, TypeOK, Reset
  <2>2. PICK act \in [Cops -> CopActions], thiefAct \in Moves : Step(act, thiefAct)
    BY <2>1 DEF Next
  <2> QED
    BY <2>2, MeetingWins
<1>2. IInv => OutcomeJustified
  BY DEF IInv
<1>3. CopsWinByMeeting <=> [][Meeting]_vars
  BY DEF CopsWinByMeeting
<1> HIDE DEF Meeting
<1> QED
  BY <1>1, <1>2, <1>3, Invariance, PTL DEF Spec, OutcomeSettled

(* The type invariant of the environment. *)
THEOREM TypeSound == Spec => []TypeOK
BY Invariance, PTL DEF IInv

-----------------------------------------------------------------------------
(* The thief's count is the least of the cops'. *)
Agree(ofCops, ofThief) ==
    (\A i \in Cops : ofThief <= ofCops[i]) /\ (\E i \in Cops : ofThief = ofCops[i])

(* Counts that agreed agree after the next look: a cop sees the thief       *)
(* exactly when the thief sees that cop.                                    *)
LEMMA LookedTogether ==
    ASSUME NEW c \in [Cops -> Board], NEW t \in Board,
           NEW oldCop \in [Cops -> Nat], NEW oldThief \in Nat, Agree(oldCop, oldThief)
    PROVE  Agree([i \in Cops |-> IF InView(c[i], t) THEN 0 ELSE oldCop[i] + 1],
                 IF \E i \in Cops : InView(t, c[i]) THEN 0 ELSE oldThief + 1)
<1> DEFINE newCop == [i \in Cops |-> IF InView(c[i], t) THEN 0 ELSE oldCop[i] + 1]
           newThief == IF \E i \in Cops : InView(t, c[i]) THEN 0 ELSE oldThief + 1
<1> SUFFICES Agree(newCop, newThief)
  OBVIOUS
<1>1. \A i \in Cops : InView(t, c[i]) <=> InView(c[i], t)
  BY BoardAssumption DEF Board, InView, Distance
<1>2. CASE \E i \in Cops : InView(t, c[i])
  <2>1. newThief = 0 /\ \A i \in Cops : newCop[i] \in Nat
    BY <1>2
  <2>2. \E i \in Cops : newCop[i] = 0
    BY <1>1, <1>2
  <2> HIDE DEF newCop, newThief
  <2>3. QED
    BY <2>1, <2>2 DEF Agree
<1>3. CASE \A i \in Cops : ~InView(t, c[i])
  <2>1. newThief = oldThief + 1 /\ \A i \in Cops : newCop[i] = oldCop[i] + 1
    BY <1>1, <1>3
  <2>2. \A i \in Cops : oldCop[i] \in Nat
    OBVIOUS
  <2> HIDE DEF newCop, newThief
  <2>3. QED
    BY <2>1, <2>2 DEF Agree
<1> QED
  BY <1>2, <1>3

(* The thief's count of steps without a meeting is that of the cop that met *)
(* it last, for every team: no sighting is booked on one side only          *)
(* (update_memory, the thief's against the whole team).                     *)
THEOREM MeetTogether == Spec => []MetTogether
<1> DEFINE Zero == [i \in Cops |-> 0]
<1>0. Zero \in [Cops -> Nat] /\ 0 \in Nat /\ Agree(Zero, 0)
  BY BoardAssumption DEF Cops, Agree
<1>1. /\ MetTogether <=> Agree(copMemory, thiefMemory)
      /\ MetTogether' <=> Agree(copMemory', thiefMemory')
  BY DEF MetTogether, Agree
<1>2. Init => MetTogether
  <2> SUFFICES ASSUME Init PROVE MetTogether
    OBVIOUS
  <2>1. /\ copMemory = [i \in Cops |-> IF InView(cops[i], thief) THEN 0 ELSE Zero[i] + 1]
        /\ thiefMemory = IF \E i \in Cops : InView(thief, cops[i]) THEN 0 ELSE 0 + 1
    BY DEF Init
  <2>2. cops \in [Cops -> Board] /\ thief \in Board
    BY DEF Init
  <2> HIDE DEF Zero
  <2> QED
    BY <1>0, <1>1, <2>1, <2>2, LookedTogether
<1>3. IInv /\ IInv' /\ MetTogether /\ [Next]_vars => MetTogether'
  <2> SUFFICES ASSUME IInv, IInv', MetTogether, [Next]_vars PROVE MetTogether'
    OBVIOUS
  <2>1. cops' \in [Cops -> Board] /\ thief' \in Board
    BY DEF IInv, TypeOK
  <2>2. CASE Reset
    <3>1. Remember(cops', thief', Zero, 0)
      BY <2>2 DEF Reset
    <3> HIDE DEF Zero
    <3> QED
      BY <1>0, <1>1, <2>1, <3>1, LookedTogether DEF Remember
  <2>3. ASSUME NEW act \in [Cops -> CopActions], NEW thiefAct \in Moves, Step(act, thiefAct)
        PROVE  MetTogether'
    <3>1. Remember(cops', thief', copMemory, thiefMemory)
      BY <2>3 DEF Step
    <3>2. copMemory \in [Cops -> Nat] /\ thiefMemory \in Nat
      BY DEF IInv, TypeOK
    <3> QED
      BY <1>1, <2>1, <3>1, <3>2, LookedTogether DEF Remember
  <2>4. CASE UNCHANGED vars
    BY <2>4 DEF vars, MetTogether
  <2> QED
    BY <2>2, <2>3, <2>4 DEF Next
<1> HIDE DEF Zero
<1> QED
  BY <1>2, <1>3, Invariance, PTL DEF Spec

-----------------------------------------------------------------------------
(* A non-empty set of cop indices has a least member. *)
LEMMA FirstCop ==
    ASSUME NEW S \in SUBSET Cops, S # {}
    PROVE  \E m \in S : \A x \in S : ~(x < m)
<1>1. S \subseteq Nat
  BY BoardAssumption DEF Cops
<1>2. PICK m \in S : \A x \in S : ~ (<<x, m>> \in OpToRel(<, Nat))
  BY <1>1, NatLessThanWellFounded, WFMin
<1>3. QED
  BY <1>1, <1>2 DEF OpToRel

(* Where the fresh placers before m exhaust the budget, so do the placers   *)
(* before any i from m on: the budget goes to the first ones.               *)
LEMMA BudgetSpentAhead ==
    ASSUME TypeOK, used <= MaxBarriers, NEW act, NEW m \in Cops, NEW i \in Cops, m <= i,
           ~(Cardinality({j \in FreshPlacers(act) : j < m}) < MaxBarriers - used)
    PROVE  Cardinality({j \in Placers(act) : j < i}) = MaxBarriers - used
<1> DEFINE F == FreshPlacers(act)
           P == Placers(act)
           n == MaxBarriers - used
           Before(k) == {j \in F : j < k}
           ahead == {j \in P : j < i}
<1>1. n \in Nat
  BY BoardAssumption DEF TypeOK
<1>2. P = {k \in F : Cardinality(Before(k)) < n}
  BY DEF Placers
<1>3. F \in SUBSET Cops /\ P \in SUBSET F /\ ahead \in SUBSET F /\ ahead \in SUBSET Cops
  BY DEF FreshPlacers, Placers
<1>4. ~(Cardinality(Before(m)) < n)
  OBVIOUS
<1>5. \A k \in Cops : k \in Int
  BY BoardAssumption DEF Cops
<1> HIDE DEF F, P, n
<1>6. Cardinality(ahead) <= n
  <2>1. \A k \in ahead : Cardinality({j \in F : j < k}) < n
    BY <1>2
  <2> HIDE DEF ahead
  <2>2. QED
    BY <1>1, <1>3, <2>1, FirstOnes
<1>7. \E k \in Cops : Before(k) \subseteq ahead /\ ~(Cardinality(Before(k)) < n)
  <2>1. CASE Before(m) \subseteq P
    <3>1. Before(m) \subseteq ahead
      BY <1>3, <1>5, <2>1
    <3>2. QED
      BY <1>4, <3>1
  <2>2. CASE ~(Before(m) \subseteq P)
    <3> DEFINE S == Before(m) \ P
    <3>1. S \in SUBSET Cops /\ S # {}
      BY <1>3, <2>2
    <3>2. PICK k \in S : \A x \in S : ~(x < k)
      <4> HIDE DEF S
      <4>1. QED
        BY <3>1, FirstCop
    <3>3. k \in F /\ k \in Cops /\ k < m /\ k \notin P
      BY <1>3
    <3>4. ~(Cardinality(Before(k)) < n)
      BY <1>2, <3>3
    <3>5. ASSUME NEW j \in Before(k)
          PROVE  j \in ahead
      <4>1. j \in F /\ j \in Cops /\ j < k
        BY <1>3
      <4>2. j \in Before(m) /\ j < i
        BY <1>5, <3>3, <4>1
      <4>3. j \in P
        BY <3>2, <4>1, <4>2
      <4>4. QED
        BY <4>2, <4>3
    <3>6. QED
      BY <3>3, <3>4, <3>5
  <2>3. QED
    BY <2>1, <2>2
<1>8. PICK k \in Cops : Before(k) \subseteq ahead /\ ~(Cardinality(Before(k)) < n)
  BY <1>7
<1>9. IsFiniteSet(ahead) /\ Cardinality(ahead) \in Nat
  BY <1>3, CopsFinite
<1>10. Cardinality(Before(k)) \in Nat /\ Cardinality(Before(k)) <= Cardinality(ahead)
  <2>1. Before(k) \in SUBSET Cops
    BY <1>3
  <2> HIDE DEF ahead, Before
  <2>2. QED
    BY <1>8, <1>9, <2>1, CopsFinite, FS_Subset
<1>11. Cardinality(ahead) = n
  BY <1>1, <1>6, <1>8, <1>9, <1>10
<1>12. QED
  BY <1>11 DEF P, n

(* action_mask's promise of a PLACE: one that was legal before the tick and *)
(* is not honoured was lost to a cop of a lower index, on the same cell or  *)
(* on the last of the budget, for any team, board and budget.               *)
THEOREM PlaceLostToMateOnly == Spec => []MaskedPlaceLostToMateOnly
<1>1. IInv => MaskedPlaceLostToMateOnly
  <2> SUFFICES ASSUME IInv, NEW act \in [Cops -> CopActions],
                      \A c \in Cops : act[c] \in CopMask(c),
                      NEW i \in {j \in Cops : act[j] = "PLACE_BARRIER"} \ Placers(act)
               PROVE  LET ahead == {j \in Placers(act) : j < i}
                      IN  \/ \E j \in ahead : cops[j] = cops[i]
                          \/ Cardinality(ahead) = MaxBarriers - used
    BY DEF MaskedPlaceLostToMateOnly
  <2>1. TypeOK /\ used <= MaxBarriers
    BY DEF IInv, BudgetExact
  <2>2. \A k \in Cops : k \in Nat
    BY BoardAssumption DEF Cops
  <2>3. EnableBarrier /\ cops[i] \notin barriers
    <3>1. "PLACE_BARRIER" \in CopMask(i) /\ "PLACE_BARRIER" \notin Moves
      BY DEF Moves
    <3>2. EnterableMoves(cops[i]) \subseteq Moves
      BY DEF EnterableMoves
    <3>3. QED
      BY <3>1, <3>2 DEF CopMask
  <2> DEFINE S == {j \in Cops : act[j] = "PLACE_BARRIER" /\ cops[j] = cops[i]}
  <2>4. S \in SUBSET Cops /\ S # {}
    OBVIOUS
  <2>5. PICK m \in S : \A x \in S : ~(x < m)
    <3> HIDE DEF S
    <3>1. QED
      BY <2>4, FirstCop
  <2>6. m \in Cops /\ cops[m] = cops[i] /\ m <= i
    BY <2>2, <2>5
  <2>7. m \in FreshPlacers(act)
    <3>1. \A j \in 0 .. m - 1 : j \in Cops /\ j < m
      BY <2>2, <2>6, BoardAssumption DEF Cops
    <3>2. \A j \in 0 .. m - 1 : act[j] = "PLACE_BARRIER" => cops[j] # cops[m]
      BY <2>5, <2>6, <3>1
    <3>3. QED
      BY <2>3, <2>5, <2>6, <3>2 DEF FreshPlacers
  <2>8. CASE m \in Placers(act)
    BY <2>2, <2>6, <2>8
  <2>9. CASE m \notin Placers(act)
    <3>1. ~(Cardinality({j \in FreshPlacers(act) : j < m}) < MaxBarriers - used)
      BY <2>7, <2>9 DEF Placers
    <3>2. QED
      BY <2>1, <2>6, <3>1, BudgetSpentAhead
  <2>10. QED
    BY <2>8, <2>9
<1>2. QED
  BY <1>1, Invariance, PTL
=============================================================================
