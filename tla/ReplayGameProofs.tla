-------------------------- MODULE ReplayGameProofs --------------------------
(***************************************************************************)
(* Theorems about ReplayGame for every board, budget, list of seeds, cap of*)
(* voids and number of retries.  The invariant keeps, beside the log, the  *)
(* run the log was written of: a sequence of boards that only the proof    *)
(* knows, which the verifier's environment walks along again.              *)
(***************************************************************************)
EXTENDS ReplayGame, CopsRobbersProofs

(* The referee masks with the radius the verifier unmasks with.             *)
SameRadius == RefereeRadius = Radius

(* No two seeds of the list spawn the cop alike and the thief apart: what   *)
(* the parser needs to tell an attempt on a new seed from a retried hello.  *)
CopTellsThief ==
    \A i, j \in DOMAIN Layouts :
        Layouts[i]["cop"] = Layouts[j]["cop"] => Layouts[i]["thief"] = Layouts[j]["thief"]

(* The parser is not misled: trivially in a sub-game without a void.        *)
Clear == voids = 0 \/ CopTellsThief
-----------------------------------------------------------------------------
(* The environment as a value.  The memories, which no payload shows, are   *)
(* left out.                                                                *)
Boards ==
    [cop : Board, thief : Board, barriers : SUBSET Board, used : Nat, step : Nat,
     winner : {"none", "cop", "thief"}]
Present ==
    [cop |-> cops[0], thief |-> thief, barriers |-> barriers, used |-> used, step |-> step,
     winner |-> winner]
Opened(i) ==
    [cop |-> Layouts[i]["cop"], thief |-> Layouts[i]["thief"], barriers |-> {}, used |-> 0,
     step |-> 0, winner |-> "none"]

(* One tick of it. *)
Places(b, a) ==
    a = "PLACE_BARRIER" /\ EnableBarrier /\ b.cop \notin b.barriers /\ 0 < MaxBarriers - b.used
Lands(b, pos, a) ==
    IF Target(pos, a) \in Board /\ (Target(pos, a) \notin b.barriers \/ Target(pos, a) = pos)
    THEN Target(pos, a) ELSE pos
CopAfter(b, a) == IF Places(b, a) THEN b.cop ELSE Lands(b, b.cop, a)
After(b, a, t) ==
    [cop      |-> CopAfter(b, a),
     thief    |-> Lands(b, b.thief, t),
     barriers |-> IF Places(b, a) THEN b.barriers \union {b.cop} ELSE b.barriers,
     used     |-> IF Places(b, a) THEN b.used + 1 ELSE b.used,
     step     |-> b.step + 1,
     winner   |-> Winner(\/ CopAfter(b, a) = Lands(b, b.thief, t)
                         \/ /\ CaptureOnSwap /\ b.cop = Lands(b, b.thief, t)
                            /\ CopAfter(b, a) = b.thief,
                         b.step + 1)]

(* What an honest referee tells a role of it. *)
Told(b, r) ==
    MaskPayload(IF r = "cop" THEN b.cop ELSE b.thief, IF r = "cop" THEN b.thief ELSE b.cop,
                b.barriers, MaxBarriers - b.used, Radius)

(* The run of seed i over the first n of the logged ticks, and a log that   *)
(* tells it.                                                                *)
Along(run, i, acts, n) ==
    /\ run[0] = Opened(i)
    /\ \A k \in 1 .. n :
          /\ run[k] = After(run[k - 1], acts[k]["cop"], acts[k]["thief"])
          /\ run[k - 1].winner = "none"
          /\ \A r \in Roles : acts[k][r] \in Alphabet(r)
Tells(states, run, n) == \A k \in 1 .. n : \A r \in Roles : states[k][r] = Told(run[k - 1], r)
-----------------------------------------------------------------------------
Payloads ==
    {NoPayload} \union [your_pos : Board, opponent_pos : Board \union {NoCell},
                        barriers : SUBSET Board, barriers_left : Int]
Strings == CopActions \union {"NONSENSE", NoString}
Spots == [Roles -> Board \union {NoCell}]
Attempts == [spawns : Spots, opening : [Roles -> Payloads]]
Sessions ==
    [spawns : Spots, actions : Seq([Roles -> Strings]), states : Seq([Roles -> Payloads]),
     attempts : Seq(Attempts), posts : Nat, seed : Nat]
Records == [seed : Nat, winner : Roles, moves : Nat, scores : [Roles -> Nat]]

Greeting == {"greet_cop", "greet_thief"}
Asking == {"ask_cop", "ask_thief"}
Auditing == {"recorded", "replay", "judged"}

GameTypeOK ==
    /\ phase \in Greeting \union Asking \union Auditing \union {"aborted"}
    /\ voids \in Nat /\ started \in Nat /\ started <= voids
    /\ round \in 0 .. Retries /\ try \in 0 .. Retries /\ faults \in Nat
    /\ copAct \in CopActions /\ damaged \in BOOLEAN
    /\ Clear => session \in Sessions \union {Unparsable}
    /\ phase # "aborted" => Seed \in DOMAIN Layouts
    /\ phase \in Auditing => record \in Records /\ record.seed = Seed
    /\ phase # "judged" => verdict = "pending"
    /\ phase \notin Auditing => ~damaged
    /\ damaged => voids = 0

(* An attempt the parser may retain: of some seed, and all that is missing  *)
(* is what the thief is told first.                                         *)
SoundRun(spawns, opening) ==
    \E i \in DOMAIN Layouts :
        /\ spawns = Layouts[i]
        /\ opening["cop"] = Told(Opened(i), "cop")
        /\ opening["thief"] \in {NoPayload, Told(Opened(i), "thief")}

(* What parse_wire_log has between two runs. *)
Waiting(s) == s.states = <<>> /\ s.actions = <<>> /\ s.posts = 0
HalfGreeted(s, i) ==
    /\ Waiting(s) /\ s.spawns["cop"] = Layouts[i]["cop"]
    /\ s.spawns["thief"] \in {NoCell, Layouts[i]["thief"]}
BetweenRuns(s) ==
    \/ Waiting(s) /\ s.spawns = [r \in Roles |-> NoCell]
    \/ \E i \in DOMAIN Layouts : HalfGreeted(s, i)
    \/ s.states # <<>> /\ SoundRun(s.spawns, s.states[1])
GreetInv ==
    /\ phase \in Greeting => Present = Opened(Seed) /\ round = 0 /\ faults = 0
    /\ phase = "greet_cop" /\ voids = 0 => session = NewSession
    /\ (phase \in Greeting /\ Clear /\ session # Unparsable) =>
          /\ phase = "greet_cop" => BetweenRuns(session)
          /\ phase = "greet_thief" => HalfGreeted(session, Seed)

(* What it has of a run under way: the ticks played, and of this tick what  *)
(* was asked so far.                                                        *)
ThisTick(s, n, b) ==
    /\ phase = "ask_cop" /\ s.posts = 0 => Len(s.states) = n /\ Len(s.actions) = n
    /\ phase = "ask_cop" /\ s.posts # 0 =>
          /\ Len(s.states) = n + 1 /\ Len(s.actions) \in {n, n + 1}
          /\ s.states[n + 1]["cop"] = Told(b, "cop") /\ s.states[n + 1]["thief"] = NoPayload
    /\ phase = "ask_thief" =>
          /\ Len(s.states) = n + 1 /\ Len(s.actions) = n + 1
          /\ s.states[n + 1]["cop"] = Told(b, "cop") /\ s.actions[n + 1]["cop"] = copAct
          /\ s.states[n + 1]["thief"] = IF s.posts = 0 THEN NoPayload ELSE Told(b, "thief")
UnderWay(s) ==
    /\ s.spawns = Layouts[Seed] /\ ThisTick(s, step, Present)
    /\ \E run \in [Nat -> Boards] :
          /\ Along(run, Seed, s.actions, step) /\ run[step] = Present
          /\ Tells(s.states, run, step)
AskInv ==
    phase \in Asking =>
        /\ winner = "none"
        /\ (Clear /\ session # Unparsable) =>
              session.posts = round + faults /\ UnderWay(session)

(* The attempts retained, and what the referee knows of them. *)
ShortAttempt(s) == \E m \in 1 .. Len(s.attempts) : s.attempts[m].opening["thief"] = NoPayload
Tally(s, waits, count, o) ==
    /\ Len(s.attempts) + (IF waits THEN 1 ELSE 0) = count
    /\ \A m \in 1 .. Len(s.attempts) : SoundRun(s.attempts[m].spawns, s.attempts[m].opening)
    /\ "short_void" \in o <=> ShortAttempt(s) \/ (waits /\ s.states[1]["thief"] = NoPayload)
AttemptsInv ==
    (Clear /\ session # Unparsable /\ phase # "aborted") =>
        Tally(session, phase = "greet_cop" /\ session.states # <<>>, started, odd)

(* The parser gave up exactly when the referee knows why. *)
Unread == {"surplus_post", "other_string"}
ParseInv ==
    (Clear /\ phase # "aborted") => (session = Unparsable <=> odd \intersect Unread # {})

(* The audit: of an undamaged log, and of one that differs from the run.    *)
Differs(run, n) ==
    \/ record.winner # run[n].winner \/ record.moves # n
    \/ \E k \in 1 .. n : \E r \in Roles : session.states[k][r] # Told(run[k - 1], r)
Audited(n) ==
    \E run \in [Nat -> Boards] :
        /\ Along(run, Seed, session.actions, n) /\ run[n].winner # "none"
        /\ ~damaged =>
              Tells(session.states, run, n) /\ record.winner = run[n].winner /\ record.moves = n
        /\ damaged => Differs(run, n)
        /\ phase = "replay" =>
              step <= n /\ Present = run[step] /\ Tells(session.states, run, step)
AuditInv ==
    phase \in Auditing =>
        /\ ~damaged => record.scores = Points[record.winner]
        /\ (Clear /\ session # Unparsable) =>
              /\ session.spawns = Layouts[Seed] /\ session.seed = Seed
              /\ Len(session.states) = Len(session.actions) /\ Audited(Len(session.actions))
        /\ phase = "replay" =>
              session # Unparsable /\ (CopTellsThief /\ ~damaged => "short_void" \notin odd)

(* The environment is the kernel's, save where the verifier was misled.     *)
EnvInv == (Clear \/ phase \notin {"replay", "judged"}) => IInv

GameInv ==
    /\ EnvInv /\ GameTypeOK /\ GreetInv /\ AskInv /\ AttemptsInv /\ ParseInv /\ AuditInv
    /\ DamageCaught /\ (CopTellsThief => HonestVerdict)
-----------------------------------------------------------------------------
(* What the assumptions say of the constants. *)
LEMMA Constants ==
    /\ NumCops = 1 /\ Cops = {0} /\ Radius \in Nat /\ MaxBarriers \in Nat
    /\ Retries \in Nat /\ CfgRetries \in Nat /\ MaxVoids \in Nat \ {0}
    /\ 1 \in DOMAIN Layouts /\ DOMAIN Layouts = 1 .. Len(Layouts) /\ Len(Layouts) \in Nat
    /\ \A i \in DOMAIN Layouts : Layouts[i] \in [Roles -> Board]
<1>1. Layouts \in Seq([Roles -> Board]) /\ Layouts # <<>>
  BY GameAssumption
<1>2. Len(Layouts) \in Nat /\ Len(Layouts) # 0 /\ DOMAIN Layouts = 1 .. Len(Layouts)
  BY <1>1
<1>3. \A i \in DOMAIN Layouts : Layouts[i] \in [Roles -> Board]
  BY <1>1
<1>4. NumCops = 1 /\ Cops = {0}
  BY GameAssumption DEF Cops
<1>5. Retries \in Nat /\ CfgRetries \in Nat /\ MaxVoids \in Nat \ {0} /\ Radius \in Nat /\ MaxBarriers \in Nat
  BY GameAssumption, BoardAssumption
<1>6. 1 \in 1 .. Len(Layouts)
  BY <1>2
<1>7. QED
  BY <1>2, <1>3, <1>4, <1>5, <1>6

(* What stands for nothing is nothing. *)
LEMMA Blanks ==
    /\ NoCell \notin Board /\ Unparsable \notin Sessions
    /\ \A a \in CopActions : a # NoString /\ a \in Strings
    /\ NoString \in Strings /\ NoPayload \in Payloads
<1>1. NoCell \notin Board
  BY BoardAssumption DEF NoCell, Board
<1>2. Unparsable \notin Sessions
  <2>1. \A s \in Sessions : DOMAIN s = {"spawns", "actions", "states", "attempts", "posts", "seed"}
    BY DEF Sessions
  <2>2. DOMAIN Unparsable = {"error"}
    BY DEF Unparsable
  <2>3. QED
    BY <2>1, <2>2
<1>3. \A a \in CopActions : a # NoString /\ a \in Strings
  BY DEF CopActions, Moves, NoString, Strings
<1>4. NoString \in Strings /\ NoPayload \in Payloads
  BY DEF Strings, Payloads
<1>5. QED
  BY <1>1, <1>2, <1>3, <1>4

(* The present environment is a board. *)
LEMMA PresentTyped == ASSUME IInv PROVE Present \in Boards
BY Constants DEF IInv, TypeOK, Present, Boards

(* A payload is one of these, and it is something. *)
LEMMA ToldTyped ==
    ASSUME NEW b \in Boards, NEW r \in Roles
    PROVE  Told(b, r) \in Payloads /\ Told(b, r) # NoPayload
<1>1. b.cop \in Board /\ b.thief \in Board /\ b.barriers \in SUBSET Board /\ b.used \in Nat
  BY DEF Boards
<1>2. \A you, other \in Board : \A left \in Int :
         MaskPayload(you, other, b.barriers, left, Radius)
           \in [your_pos : Board, opponent_pos : Board \union {NoCell},
                barriers : SUBSET Board, barriers_left : Int]
  BY <1>1 DEF MaskPayload
<1>3. MaxBarriers - b.used \in Int
  BY <1>1, Constants
<1>4. Told(b, r) \in [your_pos : Board, opponent_pos : Board \union {NoCell},
                      barriers : SUBSET Board, barriers_left : Int]
  BY <1>1, <1>2, <1>3 DEF Told
<1>5. NoPayload \notin [your_pos : Board, opponent_pos : Board \union {NoCell},
                        barriers : SUBSET Board, barriers_left : Int]
  <2>1. NoPayload.your_pos = NoCell
    BY DEF NoPayload
  <2>2. QED
    BY <2>1, Blanks
<1>6. QED
  BY <1>4, <1>5 DEF Payloads

(* The payloads of the present environment, and of one just reset.          *)
LEMMA PresentTold ==
    ASSUME NEW r \in Roles
    PROVE  /\ Payload(r, Radius) = Told(Present, r)
           /\ \A i \in DOMAIN Layouts : OpeningPayload(Layouts[i], r, Radius) = Told(Opened(i), r)
<1>1. Payload(r, Radius) = Told(Present, r)
  BY DEF Payload, Told, Present, Cell, Other, Roles
<1>2. MaxBarriers - 0 = MaxBarriers
  BY Constants
<1>3. \A i \in DOMAIN Layouts : OpeningPayload(Layouts[i], r, Radius) = Told(Opened(i), r)
  BY <1>2 DEF OpeningPayload, Told, Opened, Other, Roles
<1>4. QED
  BY <1>1, <1>3

(* env.reset opens the board of its seed. *)
LEMMA ResetOpens ==
    ASSUME IInv, NEW i \in DOMAIN Layouts, ResetTo(i)
    PROVE  IInv' /\ Present' = Opened(i)
<1>1. IInv'
  BY ResetSound DEF ResetTo
<1>2. cops'[0] = Layouts[i]["cop"]
  BY Constants DEF ResetTo
<1>3. QED
  BY <1>1, <1>2 DEF ResetTo, Reset, Present, Opened

(* step() is one tick of the board. *)
LEMMA StepIsAfter ==
    ASSUME IInv, NEW a \in CopActions, NEW t \in Moves, Step([c \in Cops |-> a], t)
    PROVE  IInv' /\ Present' = After(Present, a, t) /\ winner = "none"
<1> DEFINE act == [c \in Cops |-> a]
<1>1. act \in [Cops -> CopActions] /\ act[0] = a
  BY Constants
<1>2. IInv' /\ winner = "none"
  <2>1. Step(act, t)
    OBVIOUS
  <2> HIDE DEF act
  <2>2. IInv'
    BY <1>1, <2>1, StepSound
  <2>3. QED
    BY <2>1, <2>2 DEF Step
<1>3. FreshPlacers(act) = IF a = "PLACE_BARRIER" /\ EnableBarrier /\ cops[0] \notin barriers
                          THEN {0} ELSE {}
  <2>1. \A i \in Cops : i = 0 /\ act[i] = a
    BY Constants
  <2>2. \A j \in 0 .. 0 - 1 : FALSE
    OBVIOUS
  <2> HIDE DEF act
  <2>3. QED
    BY <2>1, <2>2, Constants DEF FreshPlacers
<1> DEFINE places == Places(Present, a)
<1>4. Placers(act) = IF places THEN {0} ELSE {}
  <2>1. \A i \in FreshPlacers(act) : i = 0
    BY <1>3
  <2>2. \A i \in FreshPlacers(act) : {j \in FreshPlacers(act) : j < i} = {}
    BY <2>1
  <2>3. \A i \in FreshPlacers(act) : Cardinality({j \in FreshPlacers(act) : j < i}) = 0
    BY <2>2, FS_EmptySet
  <2> HIDE DEF act
  <2>4. Placers(act) = {i \in FreshPlacers(act) : 0 < MaxBarriers - used}
    BY <2>3 DEF Placers
  <2>5. QED
    BY <1>3, <2>4 DEF Places, Present
<1>5. /\ cops' = [i \in Cops |-> IF i \in Placers(act) THEN cops[i] ELSE ResolveMove(cops[i], act[i])]
      /\ thief' = ResolveMove(thief, t)
      /\ barriers' = barriers \union {cops[i] : i \in Placers(act)}
      /\ used' = used + Cardinality(Placers(act))
      /\ step' = step + 1
      /\ winner' = Winner(Captured(cops', thief'), step + 1)
  BY DEF Step
<1> DEFINE b == Present
<1>6. /\ b.cop = cops[0] /\ b.thief = thief /\ b.barriers = barriers /\ b.used = used
      /\ b.step = step
  BY DEF Present
<1>7. \A pos, m : ResolveMove(pos, m) = Lands(b, pos, m)
  BY <1>6 DEF ResolveMove, CanEnter, Lands
<1> HIDE DEF b, places
<1>8. cops'[0] = CopAfter(b, a)
  <2>1. cops'[0] = IF 0 \in Placers(act) THEN cops[0] ELSE ResolveMove(cops[0], act[0])
    BY <1>5, Constants
  <2> HIDE DEF act
  <2>2. 0 \in Placers(act) <=> places
    BY <1>4
  <2>3. places <=> Places(b, a)
    BY DEF places, b
  <2>4. QED
    BY <1>1, <1>6, <1>7, <2>1, <2>2, <2>3 DEF CopAfter
<1>9. thief' = Lands(b, b.thief, t)
  BY <1>5, <1>6, <1>7
<1>10. /\ barriers' = IF Places(b, a) THEN b.barriers \union {b.cop} ELSE b.barriers
       /\ used' = IF Places(b, a) THEN b.used + 1 ELSE b.used
  <2>1. used \in Nat
    BY DEF IInv, TypeOK
  <2> HIDE DEF act
  <2>2. CASE places
    <3>1. Placers(act) = {0} /\ Cardinality({0}) = 1
      BY <1>4, <2>2, FS_Singleton
    <3>2. Places(b, a)
      BY <2>2 DEF places, b
    <3>3. {cops[i] : i \in {0}} = {cops[0]}
      OBVIOUS
    <3>4. QED
      BY <1>5, <1>6, <3>1, <3>2, <3>3
  <2>3. CASE ~places
    <3>1. Placers(act) = {} /\ Cardinality({}) = 0
      BY <1>4, <2>3, FS_EmptySet
    <3>2. ~Places(b, a)
      BY <2>3 DEF places, b
    <3>3. {cops[i] : i \in {}} = {} /\ barriers \union {} = barriers
      OBVIOUS
    <3>4. QED
      BY <1>5, <1>6, <2>1, <3>1, <3>2, <3>3
  <2>4. QED
    BY <2>2, <2>3
<1>11. winner' = After(b, a, t).winner
  <2>1. Captured(cops', thief') <=>
          \/ CopAfter(b, a) = Lands(b, b.thief, t)
          \/ CaptureOnSwap /\ b.cop = Lands(b, b.thief, t) /\ CopAfter(b, a) = b.thief
    BY <1>6, <1>8, <1>9, Constants DEF Captured
  <2>2. QED
    BY <1>5, <1>6, <2>1 DEF After, Winner
<1>12. Present' = After(b, a, t)
  BY <1>5, <1>6, <1>8, <1>9, <1>10, <1>11 DEF After, Present
<1>13. QED
  BY <1>2, <1>12 DEF b

(* A run goes on by a tick. *)
LEMMA RunExtended ==
    ASSUME NEW n \in Nat, NEW i, NEW acts, NEW new, NEW run \in [Nat -> Boards],
           Along(run, i, acts, n), run[n].winner = "none",
           \A k \in 1 .. n : new[k] = acts[k],
           \A r \in Roles : new[n + 1][r] \in Alphabet(r),
           NEW b \in Boards, b = After(run[n], new[n + 1]["cop"], new[n + 1]["thief"])
    PROVE  \E longer \in [Nat -> Boards] :
              /\ Along(longer, i, new, n + 1) /\ longer[n + 1] = b
              /\ \A k \in 0 .. n : longer[k] = run[k]
<1> DEFINE longer == [run EXCEPT ![n + 1] = b]
<1>1. longer \in [Nat -> Boards] /\ longer[n + 1] = b /\ \A k \in 0 .. n : longer[k] = run[k]
  <2>1. n + 1 \in Nat /\ \A k \in 0 .. n : k \in Nat /\ k # n + 1
    OBVIOUS
  <2>2. QED
    BY <2>1
<1> HIDE DEF longer
<1>2. 0 \in 0 .. n /\ n \in 0 .. n
  OBVIOUS
<1>3. longer[0] = Opened(i)
  BY <1>1, <1>2 DEF Along
<1>4. ASSUME NEW k \in 1 .. n + 1
      PROVE  /\ longer[k] = After(longer[k - 1], new[k]["cop"], new[k]["thief"])
             /\ longer[k - 1].winner = "none"
             /\ \A r \in Roles : new[k][r] \in Alphabet(r)
  <2>1. CASE k = n + 1
    <3>1. k - 1 = n
      BY <2>1
    <3>2. QED
      BY <1>1, <1>2, <2>1, <3>1
  <2>2. CASE k \in 1 .. n
    <3>1. k \in 0 .. n /\ k - 1 \in 0 .. n
      BY <2>2
    <3>2. longer[k] = run[k] /\ longer[k - 1] = run[k - 1] /\ new[k] = acts[k]
      BY <1>1, <2>2, <3>1
    <3>3. QED
      BY <2>2, <3>2 DEF Along
  <2>3. QED
    BY <2>1, <2>2
<1>5. QED
  BY <1>1, <1>3, <1>4 DEF Along

(* The first ticks of a run. *)
LEMMA RunOpens ==
    ASSUME NEW i, Opened(i) \in Boards, NEW acts
    PROVE  \E run \in [Nat -> Boards] : Along(run, i, acts, 0) /\ run[0] = Opened(i)
<1>1. [k \in Nat |-> Opened(i)] \in [Nat -> Boards] /\ [k \in Nat |-> Opened(i)][0] = Opened(i)
  OBVIOUS
<1>2. \A k \in 1 .. 0 : FALSE
  OBVIOUS
<1>3. QED
  BY <1>1, <1>2 DEF Along
-----------------------------------------------------------------------------
(* A list of at least n + 1 entries, and one of them set for a role.        *)
Grown(t, s, n, filler) ==
    /\ Len(t) = n + 1 /\ \A k \in 1 .. n : t[k] = s[k]
    /\ t[n + 1] = IF Len(s) = n THEN filler ELSE s[n + 1]
LEMMA GrownBy ==
    ASSUME NEW S, NEW s \in Seq(S), NEW n \in Nat, Len(s) \in {n, n + 1}, NEW filler \in S
    PROVE  Resized(s, n + 1, filler) \in Seq(S) /\ Grown(Resized(s, n + 1, filler), s, n, filler)
<1>1. CASE Len(s) = n
  <2>1. Resized(s, n + 1, filler) = Append(s, filler)
    BY <1>1 DEF Resized
  <2>2. /\ Append(s, filler) \in Seq(S) /\ Len(Append(s, filler)) = n + 1
        /\ Append(s, filler)[n + 1] = filler /\ \A k \in 1 .. n : Append(s, filler)[k] = s[k]
    BY <1>1
  <2>3. QED
    BY <1>1, <2>1, <2>2 DEF Grown
<1>2. CASE Len(s) = n + 1
  <2>1. Resized(s, n + 1, filler) = s /\ ~(Len(s) = n)
    BY <1>2 DEF Resized
  <2>2. QED
    BY <1>2, <2>1 DEF Grown
<1>3. QED
  BY <1>1, <1>2

(* The last entry of a list, told for one role. *)
Entered(t, s, n, r, v) ==
    /\ Len(t) = n + 1 /\ \A k \in 1 .. n : t[k] = s[k]
    /\ t[n + 1][r] = v /\ \A o \in Roles : o # r => t[n + 1][o] = s[n + 1][o]
LEMMA EnteredAt ==
    ASSUME NEW V, NEW n \in Nat, NEW s \in Seq([Roles -> V]), Len(s) = n + 1,
           NEW r \in Roles, NEW v \in V
    PROVE  /\ [s EXCEPT ![n + 1][r] = v] \in Seq([Roles -> V])
           /\ Entered([s EXCEPT ![n + 1][r] = v], s, n, r, v)
<1>1. s[n + 1] \in [Roles -> V]
  BY DEF Roles
<1>2. PICK e \in [Roles -> V] :
         e = [s[n + 1] EXCEPT ![r] = v] /\ e[r] = v /\ \A o \in Roles : o # r => e[o] = s[n + 1][o]
  <2>1. PICK f \in [Roles -> V] : f = s[n + 1]
    BY <1>1
  <2>2. /\ [f EXCEPT ![r] = v] \in [Roles -> V] /\ [f EXCEPT ![r] = v][r] = v
        /\ \A o \in Roles : o # r => [f EXCEPT ![r] = v][o] = f[o]
    OBVIOUS
  <2>3. QED
    BY <2>1, <2>2
<1>3. [s EXCEPT ![n + 1][r] = v] = [s EXCEPT ![n + 1] = e]
  BY <1>2
<1>4. n + 1 \in 1 .. Len(s) /\ \A k \in 1 .. n : k # n + 1 /\ k \in 1 .. Len(s)
  OBVIOUS
<1>5. PICK t \in Seq([Roles -> V]) :
         t = [s EXCEPT ![n + 1] = e] /\ Len(t) = n + 1 /\ t[n + 1] = e
         /\ \A k \in 1 .. n : t[k] = s[k]
  <2>1. [s EXCEPT ![n + 1] = e] \in Seq([Roles -> V])
    BY <1>4
  <2>2. Len([s EXCEPT ![n + 1] = e]) = n + 1 /\ [s EXCEPT ![n + 1] = e][n + 1] = e
    BY <1>4
  <2>3. \A k \in 1 .. n : [s EXCEPT ![n + 1] = e][k] = s[k]
    BY <1>4
  <2>4. QED
    BY <2>1, <2>2, <2>3
<1>6. QED
  BY <1>2, <1>3, <1>5 DEF Entered

(* What the parser keeps of a session. *)
SameButStates(q, s) == q.spawns = s.spawns /\ q.actions = s.actions /\ q.attempts = s.attempts /\ q.seed = s.seed

(* _record_move_request: the post is counted, and its payload is the tick's.*)
Requested(q, s, r, n, p) ==
    /\ q \in Sessions /\ SameButStates(q, s) /\ q.posts = s.posts + 1
    /\ Len(q.states) = n + 1 /\ \A k \in 1 .. n : q.states[k] = s.states[k]
    /\ q.states[n + 1][r] = p
    /\ \A o \in Roles : o # r =>
          q.states[n + 1][o] = IF Len(s.states) = n THEN NoPayload ELSE s.states[n + 1][o]
LEMMA RequestParsed ==
    ASSUME NEW s \in Sessions, NEW n \in Nat, Len(s.states) \in {n, n + 1},
           NEW r \in Roles, NEW p \in Payloads
    PROVE  LET q == ParseRequest(s, r, n, p)
           IN  /\ s.posts > CfgRetries => q = Unparsable
               /\ ~(s.posts > CfgRetries) => Requested(q, s, r, n, p)
<1>1. s # Unparsable
  BY Blanks
<1>2. s.posts > CfgRetries => ParseRequest(s, r, n, p) = Unparsable
  BY DEF ParseRequest
<1>3. ASSUME ~(s.posts > CfgRetries) PROVE Requested(ParseRequest(s, r, n, p), s, r, n, p)
  <2>1. s.states \in Seq([Roles -> Payloads]) /\ s.posts \in Nat
    BY DEF Sessions
  <2>2. NoStates \in [Roles -> Payloads] /\ \A o \in Roles : NoStates[o] = NoPayload
    BY Blanks DEF NoStates
  <2>3. PICK g \in Seq([Roles -> Payloads]) :
           g = Resized(s.states, n + 1, NoStates) /\ Grown(g, s.states, n, NoStates)
    BY <2>1, <2>2, GrownBy
  <2>4. Len(g) = n + 1
    BY <2>3 DEF Grown
  <2>5. PICK u \in Seq([Roles -> Payloads]) :
           u = [g EXCEPT ![n + 1][r] = p] /\ Entered(u, g, n, r, p)
    BY <2>4, EnteredAt
  <2>6. ParseRequest(s, r, n, p) = [s EXCEPT !.posts = s.posts + 1, !.states = u]
    BY <1>1, <1>3, <2>3, <2>5 DEF ParseRequest, Sessions
  <2>7. PICK q \in Sessions :
           /\ q = [s EXCEPT !.posts = s.posts + 1, !.states = u]
           /\ SameButStates(q, s) /\ q.posts = s.posts + 1 /\ q.states = u
    <3>1. s.posts + 1 \in Nat
      BY <2>1
    <3>2. [s EXCEPT !.posts = s.posts + 1, !.states = u] \in Sessions
      BY <3>1 DEF Sessions
    <3>3. SameButStates([s EXCEPT !.posts = s.posts + 1, !.states = u], s)
      BY DEF Sessions, SameButStates
    <3>4. /\ [s EXCEPT !.posts = s.posts + 1, !.states = u].posts = s.posts + 1
          /\ [s EXCEPT !.posts = s.posts + 1, !.states = u].states = u
      BY DEF Sessions
    <3>5. QED
      BY <3>2, <3>3, <3>4
  <2>8. QED
    BY <2>2, <2>3, <2>5, <2>6, <2>7 DEF Requested, Entered, Grown
<1>4. QED
  BY <1>2, <1>3

(* A string that is an answer: the tick's, unless it had another one.       *)
Responded(q, s, r, n, a) ==
    /\ q \in Sessions /\ q.spawns = s.spawns /\ q.states = s.states /\ q.attempts = s.attempts
    /\ q.seed = s.seed /\ q.posts = s.posts
    /\ Len(q.actions) = n + 1 /\ \A k \in 1 .. n : q.actions[k] = s.actions[k]
    /\ q.actions[n + 1][r] = a
    /\ Len(s.actions) = n + 1 =>
          \A o \in Roles : o # r => q.actions[n + 1][o] = s.actions[n + 1][o]
Contradicts(s, r, n, a) ==
    Len(s.actions) > n /\ s.actions[n + 1][r] # NoString /\ a # s.actions[n + 1][r]
LEMMA ResponseParsed ==
    ASSUME NEW s \in Sessions, NEW n \in Nat, Len(s.actions) \in {n, n + 1},
           NEW r \in Roles, NEW a \in Strings
    PROVE  LET q == ParseResponse(s, r, n, a)
           IN  /\ Contradicts(s, r, n, a) => q = Unparsable
               /\ ~Contradicts(s, r, n, a) => Responded(q, s, r, n, a)
<1>1. s # Unparsable
  BY Blanks
<1>2. s.actions \in Seq([Roles -> Strings])
  BY DEF Sessions
<1>3. NoPair \in [Roles -> Strings] /\ \A o \in Roles : NoPair[o] = NoString
  BY Blanks DEF NoPair
<1>4. PICK g \in Seq([Roles -> Strings]) :
         g = Resized(s.actions, n + 1, NoPair) /\ Grown(g, s.actions, n, NoPair)
  BY <1>2, <1>3, GrownBy
<1>5. g[n + 1][r] \notin {NoString, a} <=> Contradicts(s, r, n, a)
  <2>1. Len(s.actions) > n <=> Len(s.actions) # n
    OBVIOUS
  <2>2. QED
    BY <1>3, <1>4, <2>1 DEF Grown, Contradicts
<1>6. Contradicts(s, r, n, a) => ParseResponse(s, r, n, a) = Unparsable
  BY <1>1, <1>4, <1>5 DEF ParseResponse
<1>7. ASSUME ~Contradicts(s, r, n, a) PROVE Responded(ParseResponse(s, r, n, a), s, r, n, a)
  <2>1. Len(g) = n + 1
    BY <1>4 DEF Grown
  <2>2. PICK u \in Seq([Roles -> Strings]) :
           u = [g EXCEPT ![n + 1][r] = a] /\ Entered(u, g, n, r, a)
    BY <2>1, EnteredAt
  <2>3. ParseResponse(s, r, n, a) = [s EXCEPT !.actions = u]
    BY <1>1, <1>4, <1>5, <1>7, <2>2 DEF ParseResponse
  <2>4. PICK q \in Sessions :
           /\ q = [s EXCEPT !.actions = u] /\ q.actions = u
           /\ q.spawns = s.spawns /\ q.states = s.states /\ q.attempts = s.attempts
           /\ q.seed = s.seed /\ q.posts = s.posts
    <3>1. [s EXCEPT !.actions = u] \in Sessions
      BY DEF Sessions
    <3>2. LET q == [s EXCEPT !.actions = u]
          IN  /\ q.actions = u
              /\ q.spawns = s.spawns /\ q.states = s.states /\ q.attempts = s.attempts
              /\ q.seed = s.seed /\ q.posts = s.posts
      BY DEF Sessions
    <3>3. QED
      BY <3>1, <3>2
  <2>5. ~(n + 1 = n)
    OBVIOUS
  <2>6. QED
    BY <1>4, <2>2, <2>3, <2>4, <2>5 DEF Responded, Entered, Grown
<1>8. QED
  BY <1>6, <1>7

(* Before anything is said. *)
LEMMA NewSessionIs ==
    /\ NewSession \in Sessions /\ Waiting(NewSession) /\ NewSession.attempts = <<>>
    /\ NewSession.seed = 0 /\ NewSession.spawns = [r \in Roles |-> NoCell]
<1>1. [r \in Roles |-> NoCell] \in Spots
  BY DEF Spots
<1>2. <<>> \in Seq([Roles -> Strings]) /\ <<>> \in Seq([Roles -> Payloads]) /\ <<>> \in Seq(Attempts)
  OBVIOUS
<1>3. 0 \in Nat
  OBVIOUS
<1>4. QED
  BY <1>1, <1>2, <1>3 DEF NewSession, Sessions, Waiting

(* A spawn entered. *)
SpawnSet(q, s, r, cell) ==
    /\ q \in Sessions /\ q.spawns[r] = cell
    /\ \A o \in Roles : o # r => q.spawns[o] = s.spawns[o]
    /\ q.actions = s.actions /\ q.states = s.states /\ q.attempts = s.attempts
    /\ q.posts = s.posts /\ q.seed = s.seed
LEMMA SpawnEntered ==
    ASSUME NEW s \in Sessions, NEW r \in Roles, NEW cell \in Board
    PROVE  SpawnSet([s EXCEPT !.spawns[r] = cell], s, r, cell)
<1>1. PICK f \in Spots : f = s.spawns
  BY DEF Sessions
<1>2. PICK g \in Spots : g = [f EXCEPT ![r] = cell] /\ g[r] = cell /\ \A o \in Roles : o # r => g[o] = f[o]
  <2>1. [f EXCEPT ![r] = cell] \in Spots
    BY DEF Spots
  <2>2. [f EXCEPT ![r] = cell][r] = cell /\ \A o \in Roles : o # r => [f EXCEPT ![r] = cell][o] = f[o]
    BY DEF Spots
  <2>3. QED
    BY <2>1, <2>2
<1>3. [s EXCEPT !.spawns[r] = cell] = [s EXCEPT !.spawns = g]
  BY <1>1, <1>2
<1>4. [s EXCEPT !.spawns = g] \in Sessions
  BY DEF Sessions
<1>5. LET q == [s EXCEPT !.spawns = g]
      IN  /\ q.spawns = g /\ q.actions = s.actions /\ q.states = s.states
          /\ q.attempts = s.attempts /\ q.posts = s.posts /\ q.seed = s.seed
  BY DEF Sessions
<1>6. QED
  BY <1>1, <1>2, <1>3, <1>4, <1>5 DEF SpawnSet

(* A session begun anew. *)
Afresh(q, s, r, cell, list) ==
    /\ q \in Sessions /\ Waiting(q) /\ q.spawns[r] = cell
    /\ \A o \in Roles : o # r => q.spawns[o] = NoCell
    /\ q.attempts = list /\ q.seed = s.seed
LEMMA BegunAfresh ==
    ASSUME NEW s \in Sessions, NEW r \in Roles, NEW cell \in Board, NEW list \in Seq(Attempts)
    PROVE  Afresh([NewSession EXCEPT !.spawns[r] = cell, !.seed = s.seed, !.attempts = list],
                  s, r, cell, list)
<1>1. PICK q \in Sessions : q = [NewSession EXCEPT !.spawns[r] = cell] /\ SpawnSet(q, NewSession, r, cell)
  <2>1. SpawnSet([NewSession EXCEPT !.spawns[r] = cell], NewSession, r, cell)
    BY NewSessionIs, SpawnEntered
  <2>2. QED
    BY <2>1 DEF SpawnSet
<1>2. [NewSession EXCEPT !.spawns[r] = cell, !.seed = s.seed, !.attempts = list]
        = [q EXCEPT !.seed = s.seed, !.attempts = list]
  BY <1>1
<1>3. s.seed \in Nat
  BY DEF Sessions
<1>4. [q EXCEPT !.seed = s.seed, !.attempts = list] \in Sessions
  BY <1>3 DEF Sessions
<1>5. LET t == [q EXCEPT !.seed = s.seed, !.attempts = list]
      IN  /\ t.spawns = q.spawns /\ t.actions = q.actions /\ t.states = q.states
          /\ t.posts = q.posts /\ t.attempts = list /\ t.seed = s.seed
  BY DEF Sessions
<1>6. QED
  BY <1>1, <1>2, <1>4, <1>5, NewSessionIs DEF SpawnSet, Waiting, Afresh

(* The cop's hello: whatever was there before, the session now waits for the*)
(* thief's, and an abandoned run is among the attempts.                     *)
CopGreeted(q, s, i) ==
    /\ q \in Sessions /\ HalfGreeted(q, i)
    /\ q.attempts = IF s.states = <<>> THEN s.attempts
                    ELSE Append(s.attempts, [spawns |-> s.spawns, opening |-> s.states[1]])
LEMMA CopHelloParsed ==
    ASSUME NEW s \in Sessions, NEW i \in DOMAIN Layouts,
           \/ s = NewSession
           \/ CopTellsThief /\ BetweenRuns(s)
    PROVE  CopGreeted(ParseHello(s, "cop", Layouts[i]["cop"]), s, i)
<1> DEFINE cell == Layouts[i]["cop"]
           retry == s.spawns["cop"] = cell /\ s.actions = <<>> /\ s.states = <<>>
           again == s.spawns["cop"] # NoCell /\ ~retry
           q == ParseHello(s, "cop", cell)
<1>0. s # Unparsable /\ "cop" \in Roles /\ "thief" \in Roles /\ cell \in Board
  BY Blanks, Constants DEF Roles
<1>1. BetweenRuns(s)
  BY NewSessionIs DEF BetweenRuns
<1>2. CASE again
  <2>1. PICK list \in Seq(Attempts) :
           list = IF s.states # <<>>
                  THEN Append(s.attempts, [spawns |-> s.spawns, opening |-> Head(s.states)])
                  ELSE s.attempts
    <3>1. s.attempts \in Seq(Attempts) /\ s.states \in Seq([Roles -> Payloads]) /\ s.spawns \in Spots
      BY DEF Sessions
    <3>2. CASE s.states # <<>>
      <4>1. Head(s.states) \in [Roles -> Payloads]
        BY <3>1, <3>2
      <4>2. [spawns |-> s.spawns, opening |-> Head(s.states)] \in Attempts
        BY <3>1, <4>1 DEF Attempts
      <4>3. Append(s.attempts, [spawns |-> s.spawns, opening |-> Head(s.states)]) \in Seq(Attempts)
        BY <3>1, <4>2
      <4>4. QED
        BY <3>2, <4>3
    <3>3. QED
      BY <3>1, <3>2
  <2>2. q = [NewSession EXCEPT !.spawns["cop"] = cell, !.seed = s.seed, !.attempts = list]
    BY <1>0, <1>2, <2>1 DEF ParseHello
  <2>3. Afresh(q, s, "cop", cell, list)
    <3>1. PICK c \in Board : c = cell
      BY <1>0
    <3>2. Afresh([NewSession EXCEPT !.spawns["cop"] = c, !.seed = s.seed, !.attempts = list],
                 s, "cop", c, list)
      BY <1>0, <2>1, BegunAfresh
    <3>3. QED
      BY <2>2, <3>1, <3>2
  <2>4. s.states # <<>> => Head(s.states) = s.states[1]
    BY DEF Sessions
  <2>5. QED
    BY <1>0, <2>1, <2>3, <2>4 DEF Afresh, CopGreeted, HalfGreeted
<1>3. CASE ~again
  <2>1. q = [s EXCEPT !.spawns["cop"] = cell]
    BY <1>0, <1>3 DEF ParseHello
  <2>2. SpawnSet(q, s, "cop", cell)
    BY <1>0, <2>1, SpawnEntered
  <2> HIDE DEF q
  <2>3. Waiting(s) /\ s.spawns["thief"] \in {NoCell, Layouts[i]["thief"]}
    <3>1. CASE Waiting(s) /\ s.spawns = [r \in Roles |-> NoCell]
      BY <1>0, <3>1
    <3>2. ASSUME NEW j \in DOMAIN Layouts, HalfGreeted(s, j), ~(s = NewSession)
          PROVE  Waiting(s) /\ s.spawns["thief"] \in {NoCell, Layouts[i]["thief"]}
      <4>1. s.spawns["cop"] # NoCell
        BY <3>2, Blanks, Constants DEF HalfGreeted, Roles
      <4>2. Layouts[j]["cop"] = Layouts[i]["cop"]
        BY <1>3, <3>2, <4>1 DEF HalfGreeted
      <4>3. QED
        BY <3>2, <4>2 DEF HalfGreeted, CopTellsThief
    <3>3. CASE s.states # <<>> /\ SoundRun(s.spawns, s.states[1])
      <4>1. s.spawns["cop"] # NoCell
        BY <3>3, Blanks, Constants DEF SoundRun, Roles
      <4>2. QED
        BY <1>3, <3>3, <4>1
    <3>4. CASE s = NewSession
      BY <1>0, <3>1, <3>4, NewSessionIs
    <3>5. QED
      BY <1>1, <3>1, <3>2, <3>3, <3>4 DEF BetweenRuns
  <2>4. CopGreeted(q, s, i)
    BY <1>0, <2>2, <2>3 DEF SpawnSet, CopGreeted, HalfGreeted, Waiting
  <2>5. QED
    BY <2>4 DEF q
<1>4. QED
  BY <1>2, <1>3

(* The thief's hello completes the spawns of the seed. *)
BothGreeted(q, s, i) ==
    q \in Sessions /\ Waiting(q) /\ q.spawns = Layouts[i] /\ q.attempts = s.attempts
LEMMA ThiefHelloParsed ==
    ASSUME NEW s \in Sessions, NEW i \in DOMAIN Layouts, HalfGreeted(s, i)
    PROVE  BothGreeted(ParseHello(s, "thief", Layouts[i]["thief"]), s, i)
<1>0. s # Unparsable /\ "cop" \in Roles /\ "thief" \in Roles /\ Layouts[i]["thief"] \in Board
  BY Blanks, Constants DEF Roles
<1>1. PICK q : q = ParseHello(s, "thief", Layouts[i]["thief"])
  OBVIOUS
<1>2. q = [s EXCEPT !.spawns["thief"] = Layouts[i]["thief"]]
  BY <1>0, <1>1 DEF ParseHello, HalfGreeted, Waiting
<1>3. SpawnSet(q, s, "thief", Layouts[i]["thief"])
  BY <1>0, <1>2, SpawnEntered
<1>4. q.spawns = Layouts[i]
  <2>1. PICK f \in Spots, g \in [Roles -> Board] : f = q.spawns /\ g = Layouts[i]
    BY <1>3, Constants DEF SpawnSet, Sessions
  <2>2. f["cop"] = g["cop"] /\ f["thief"] = g["thief"]
    BY <1>0, <1>3, <2>1 DEF SpawnSet, HalfGreeted
  <2>3. f = g
    BY <2>2 DEF Spots, Roles
  <2>4. QED
    BY <2>1, <2>3
<1>5. QED
  BY <1>1, <1>3, <1>4 DEF SpawnSet, BothGreeted, Waiting, HalfGreeted
-----------------------------------------------------------------------------
(* Two logs that agree on the first n ticks tell the same run of them.      *)
LEMMA SameTicks ==
    ASSUME NEW n \in Nat, NEW run, NEW i, NEW s, NEW q,
           \A k \in 1 .. n : q.actions[k] = s.actions[k] /\ q.states[k] = s.states[k],
           Along(run, i, s.actions, n), Tells(s.states, run, n)
    PROVE  Along(run, i, q.actions, n) /\ Tells(q.states, run, n)
BY DEF Along, Tells

(* A request heard keeps a run under way, and tells the role asked.         *)
LEMMA RequestUnderWay ==
    ASSUME IInv, SameRadius, phase \in Asking, NEW s \in Sessions, UnderWay(s), NEW q,
           Requested(q, s, Asked, step, Payload(Asked, RefereeRadius))
    PROVE  UnderWay(q)
<1>1. step \in Nat /\ Asked \in Roles /\ s.posts \in Nat
  BY DEF IInv, TypeOK, Asked, Roles, Sessions
<1>2. Payload(Asked, RefereeRadius) = Told(Present, Asked)
  BY <1>1, PresentTold DEF SameRadius
<1>3. PICK b : b = Present
  OBVIOUS
<1>4. PICK n \in Nat, x \in Nat : n = step /\ x = s.posts
  BY <1>1
<1>5. /\ q \in Sessions /\ SameButStates(q, s) /\ q.posts = x + 1 /\ x + 1 # 0
      /\ Len(q.states) = n + 1 /\ \A k \in 1 .. n : q.states[k] = s.states[k]
      /\ q.states[n + 1][Asked] = Told(b, Asked)
      /\ \A o \in Roles : o # Asked =>
            q.states[n + 1][o] = IF Len(s.states) = n THEN NoPayload ELSE s.states[n + 1][o]
  BY <1>2, <1>3, <1>4 DEF Requested
<1>6. ThisTick(s, n, b)
  BY <1>3, <1>4 DEF UnderWay
<1>7. n # n + 1 /\ n + 1 # n
  OBVIOUS
<1>8. ThisTick(q, n, b)
  <2>1. CASE phase = "ask_cop"
    <3>1. Asked = "cop" /\ "thief" \in Roles
      BY <2>1 DEF Asked, Roles
    <3>2. q.states[n + 1]["cop"] = Told(b, "cop")
      BY <1>5, <3>1
    <3>3. q.states[n + 1]["thief"] = NoPayload
      <4>1. q.states[n + 1]["thief"] = IF Len(s.states) = n THEN NoPayload ELSE s.states[n + 1]["thief"]
        BY <1>5, <3>1
      <4>2. CASE x = 0
        BY <1>4, <1>6, <2>1, <4>1, <4>2 DEF ThisTick
      <4>3. CASE x # 0
        BY <1>4, <1>6, <2>1, <4>1, <4>3 DEF ThisTick
      <4>4. QED
        BY <4>2, <4>3
    <3>4. Len(q.actions) \in {n, n + 1}
      BY <1>4, <1>5, <1>6, <2>1 DEF ThisTick, SameButStates
    <3>5. phase # "ask_thief"
      BY <2>1
    <3>6. QED
      BY <1>5, <3>2, <3>3, <3>4, <3>5 DEF ThisTick
  <2>2. CASE phase = "ask_thief"
    <3>1. Asked = "thief" /\ "cop" \in Roles /\ phase # "ask_cop"
      BY <2>2 DEF Asked, Roles
    <3>2. /\ Len(s.states) = n + 1 /\ Len(s.actions) = n + 1
          /\ s.states[n + 1]["cop"] = Told(b, "cop") /\ s.actions[n + 1]["cop"] = copAct
      BY <1>6, <2>2 DEF ThisTick
    <3>3. q.states[n + 1]["thief"] = Told(b, "thief") /\ q.states[n + 1]["cop"] = Told(b, "cop")
      BY <1>5, <1>7, <3>1, <3>2
    <3>4. Len(q.actions) = n + 1 /\ q.actions[n + 1]["cop"] = copAct
      BY <1>5, <3>2 DEF SameButStates
    <3>5. QED
      BY <1>5, <3>1, <3>3, <3>4 DEF ThisTick
  <2>3. QED
    BY <2>1, <2>2 DEF Asking
<1>9. PICK run \in [Nat -> Boards] :
         Along(run, Seed, s.actions, n) /\ run[n] = b /\ Tells(s.states, run, n)
  BY <1>3, <1>4 DEF UnderWay
<1>10. Along(run, Seed, q.actions, n) /\ Tells(q.states, run, n)
  <2>1. \A k \in 1 .. n : q.actions[k] = s.actions[k] /\ q.states[k] = s.states[k]
    BY <1>5 DEF SameButStates
  <2>2. QED
    BY <1>9, <2>1, SameTicks
<1>11. q.spawns = Layouts[Seed]
  BY <1>5 DEF SameButStates, UnderWay
<1>12. QED
  BY <1>3, <1>4, <1>8, <1>9, <1>10, <1>11 DEF UnderWay

(* So does an answer to it. *)
LEMMA ResponseUnderWay ==
    ASSUME IInv, phase \in Asking, NEW s \in Sessions, UnderWay(s), s.posts # 0, NEW q, NEW a,
           Responded(q, s, Asked, step, a)
    PROVE  UnderWay(q)
<1>1. step \in Nat
  BY DEF IInv, TypeOK
<1>2. PICK n \in Nat, b \in {Present} : n = step /\ b = Present
  BY <1>1
<1>3. /\ q \in Sessions /\ q.spawns = s.spawns /\ q.states = s.states /\ q.posts = s.posts
      /\ Len(q.actions) = n + 1 /\ \A k \in 1 .. n : q.actions[k] = s.actions[k]
      /\ Len(s.actions) = n + 1 =>
            \A o \in Roles : o # Asked => q.actions[n + 1][o] = s.actions[n + 1][o]
  BY <1>2 DEF Responded
<1>4. ThisTick(s, n, b)
  BY <1>2 DEF UnderWay
<1>5. ThisTick(q, n, b)
  <2>1. CASE phase = "ask_cop"
    <3>1. phase # "ask_thief"
      BY <2>1
    <3>2. QED
      BY <1>3, <1>4, <2>1, <3>1 DEF ThisTick
  <2>2. CASE phase = "ask_thief"
    <3>1. Asked = "thief" /\ "cop" \in Roles /\ phase # "ask_cop"
      BY <2>2 DEF Asked, Roles
    <3>2. QED
      BY <1>3, <1>4, <2>2, <3>1 DEF ThisTick
  <2>3. QED
    BY <2>1, <2>2 DEF Asking
<1>6. PICK run \in [Nat -> Boards] :
         Along(run, Seed, s.actions, n) /\ run[n] = b /\ Tells(s.states, run, n)
  BY <1>2 DEF UnderWay
<1>7. Along(run, Seed, q.actions, n) /\ Tells(q.states, run, n)
  <2>1. \A k \in 1 .. n : q.actions[k] = s.actions[k] /\ q.states[k] = s.states[k]
    BY <1>3
  <2>2. QED
    BY <1>6, <2>1, SameTicks
<1>8. QED
  BY <1>2, <1>3, <1>5, <1>6, <1>7 DEF UnderWay

(* One post and its answer: what the parser makes of it, and what the       *)
(* referee knows of it.                                                     *)
Answers == CopActions \union {"NONSENSE"}
Heard(q, outcome) ==
    /\ q \in Sessions /\ UnderWay(q) /\ q.posts = session.posts + 1
    /\ q.attempts = session.attempts
    /\ outcome \in Answers => Len(q.actions) = step + 1 /\ q.actions[step + 1][Asked] = outcome
LEMMA PostParsed ==
    ASSUME IInv, SameRadius, GameTypeOK, AskInv, ParseInv, Clear, phase \in Asking,
           NEW outcome \in Answers \union {"fault", "blank"}, NEW voided
    PROVE  LET o == odd \union Oddities(outcome, voided)
           IN  /\ Logged(outcome) = Unparsable <=> o \intersect Unread # {}
               /\ Logged(outcome) # Unparsable =>
                     session # Unparsable /\ Heard(Logged(outcome), outcome)
<1> DEFINE p == Payload(Asked, RefereeRadius)
           req == ParseRequest(session, Asked, step, p)
           odds == Oddities(outcome, voided)
           surplus == round + faults > CfgRetries
           other == SaidBefore /\ outcome \notin {"fault", "blank"}
                       /\ outcome # session.actions[step + 1][Asked]
<1>0. step \in Nat /\ Asked \in Roles
  BY DEF IInv, TypeOK, Asked, Roles
<1>1. odds \intersect Unread # {} <=> surplus \/ other
  BY DEF Oddities, Unread
<1>2. Logged(outcome) = IF outcome \in {"fault", "blank"} THEN req
                        ELSE ParseResponse(req, Asked, step, outcome)
  BY DEF Logged
<1> HIDE DEF odds, surplus, other, req, p
<1>3. phase # "aborted"
  BY DEF Asking
<1>4. CASE session = Unparsable
  <2>1. req = Unparsable
    BY <1>4 DEF req, ParseRequest
  <2>2. Logged(outcome) = Unparsable
    BY <1>2, <2>1 DEF ParseResponse
  <2>3. odd \intersect Unread # {}
    BY <1>3, <1>4 DEF ParseInv
  <2>4. QED
    BY <2>2, <2>3
<1>5. CASE session # Unparsable
  <2>1. PICK s \in Sessions : s = session /\ s.posts = round + faults /\ UnderWay(s)
    BY <1>5 DEF GameTypeOK, AskInv
  <2>2. odd \intersect Unread = {}
    BY <1>3, <1>5 DEF ParseInv
  <2>3. (odd \union odds) \intersect Unread # {} <=> surplus \/ other
    BY <1>1, <2>2
  <2>4. Len(s.states) \in {step, step + 1} /\ Len(s.actions) \in {step, step + 1}
    <3>1. ThisTick(s, step, Present)
      BY <2>1 DEF UnderWay
    <3>2. QED
      BY <3>1 DEF ThisTick, Asking
  <2>5. p \in Payloads
    <3>1. p = Told(Present, Asked)
      BY <1>0, PresentTold DEF SameRadius, p
    <3>2. QED
      BY <1>0, <3>1, PresentTyped, ToldTyped
  <2>6. CASE surplus
    <3>1. req = Unparsable
      BY <1>0, <2>1, <2>4, <2>5, <2>6, RequestParsed DEF req, surplus
    <3>2. Logged(outcome) = Unparsable
      BY <1>2, <3>1 DEF ParseResponse
    <3>3. QED
      BY <2>3, <2>6, <3>2 DEF odds
  <2>7. CASE ~surplus
    <3>1. PICK q : q = req /\ Requested(q, s, Asked, step, p)
      BY <1>0, <2>1, <2>4, <2>5, <2>7, RequestParsed DEF req, surplus
    <3>2. /\ q \in Sessions /\ q # Unparsable /\ q.posts = s.posts + 1
          /\ q.attempts = s.attempts /\ q.actions = s.actions
      BY <3>1, Blanks DEF Requested, SameButStates
    <3>3. UnderWay(q)
      BY <2>1, <3>1, RequestUnderWay DEF p
    <3>4. CASE outcome \in {"fault", "blank"}
      <4>1. outcome \notin Answers
        BY <3>4 DEF Answers, CopActions, Moves
      <4>2. ~other
        BY <3>4 DEF other
      <4>3. Logged(outcome) = q
        BY <1>2, <3>1, <3>4
      <4>4. Heard(q, outcome)
        BY <2>1, <3>2, <3>3, <4>1 DEF Heard
      <4>5. QED
        BY <1>5, <2>3, <2>7, <3>2, <4>2, <4>3, <4>4 DEF odds
    <3>5. CASE outcome \notin {"fault", "blank"}
      <4>1. outcome \in Answers /\ outcome \in Strings
        BY <3>5 DEF Answers, Strings
      <4>2. Logged(outcome) = ParseResponse(q, Asked, step, outcome)
        BY <1>2, <3>1, <3>5
      <4>3. other <=> Contradicts(q, Asked, step, outcome)
        BY <1>5, <2>1, <3>2, <3>5 DEF other, SaidBefore, Contradicts
      <4>4. Len(q.actions) \in {step, step + 1}
        BY <2>4, <3>2
      <4>5. CASE other
        <5>1. Logged(outcome) = Unparsable
          BY <1>0, <3>2, <4>1, <4>2, <4>3, <4>4, <4>5, ResponseParsed
        <5>2. QED
          BY <2>3, <4>5, <5>1 DEF odds
      <4>6. CASE ~other
        <5>1. PICK t : t = Logged(outcome) /\ Responded(t, q, Asked, step, outcome)
          BY <1>0, <3>2, <4>1, <4>2, <4>3, <4>4, <4>6, ResponseParsed
        <5>2. q.posts # 0
          <6>1. s.posts \in Nat
            BY DEF Sessions
          <6>2. QED
            BY <3>2, <6>1
        <5>3. UnderWay(t)
          BY <3>2, <3>3, <5>1, <5>2, ResponseUnderWay
        <5>4. t \in Sessions /\ t # Unparsable
          BY <5>1, Blanks DEF Responded
        <5>5. Heard(t, outcome)
          BY <2>1, <3>2, <5>1, <5>3, <5>4 DEF Heard, Responded
        <5>6. QED
          BY <1>5, <2>3, <2>7, <4>6, <5>1, <5>4, <5>5 DEF odds
      <4>7. QED
        BY <4>5, <4>6
    <3>6. QED
      BY <3>4, <3>5
  <2>8. QED
    BY <2>6, <2>7
<1>6. QED
  BY <1>4, <1>5
-----------------------------------------------------------------------------
(* MaxVoids voids to a seed: how many there can have been by the time a seed*)
(* is played.                                                               *)
LEMMA SeedOfVoids ==
    ASSUME NEW v \in Nat
    PROVE  /\ SeedAfter(v) \in Nat /\ SeedAfter(v) >= 1
           /\ v <= MaxVoids * (SeedAfter(v) - 1) + (MaxVoids - 1)
           /\ v = 0 => SeedAfter(v) = 1
<1>1. PICK b \in Nat \ {0} : b = MaxVoids
  BY Constants
<1>2. v \div b \in Nat
  OBVIOUS
<1>3. PICK q \in Nat : q = v \div b
  BY <1>2
<1>4. v < b * q + b /\ (v = 0 => q = 0)
  BY <1>3
<1>5. SeedAfter(v) = q + 1 /\ (q + 1) - 1 = q
  BY <1>1, <1>3 DEF SeedAfter
<1>6. PICK m \in Nat : m = b * q
  OBVIOUS
<1>7. v <= m + (b - 1)
  BY <1>4, <1>6
<1>8. QED
  BY <1>1, <1>4, <1>5, <1>6, <1>7

(* What a void leaves: the board of the next seed, or the end of the match. *)
LEMMA VoidStep ==
    ASSUME IInv, GameTypeOK, phase \in Greeting \union Asking, Void,
           CopTellsThief =>
              /\ session' \in Sessions \union {Unparsable}
              /\ session' = Unparsable <=> odd' \intersect Unread # {}
              /\ session' # Unparsable =>
                    BetweenRuns(session') /\ Tally(session', session'.states # <<>>, started', odd')
    PROVE  GameInv'
<1>1. /\ voids' = voids + 1 /\ round' = 0 /\ try' = 0 /\ faults' = 0 /\ copAct' = "UP"
      /\ started' = (IF phase \in {"ask_cop", "ask_thief"} THEN started + 1 ELSE started)
      /\ record' = record /\ damaged' = damaged /\ verdict' = verdict
  BY DEF Void, NewCall
<1>2. voids \in Nat /\ started \in Nat /\ started <= voids /\ ~damaged /\ verdict = "pending"
  BY DEF GameTypeOK, Greeting, Asking, Auditing
<1>3. voids' \in Nat /\ voids' # 0 /\ started' \in Nat /\ started' <= voids'
  BY <1>1, <1>2
<1>4. Clear' <=> CopTellsThief
  BY <1>3 DEF Clear
<1>5. \/ /\ Seed' \in DOMAIN Layouts /\ ResetTo(Seed') /\ phase' = "greet_cop"
      \/ phase' = "aborted" /\ UNCHANGED vars
  <2>1. Seed' = SeedAfter(voids + 1)
    BY <1>1 DEF Seed, SeedAfter
  <2>2. SeedAfter(voids + 1) \in Nat /\ SeedAfter(voids + 1) >= 1
    BY <1>1, <1>3, SeedOfVoids
  <2>3. SeedAfter(voids + 1) <= Len(Layouts) => SeedAfter(voids + 1) \in DOMAIN Layouts
    BY <2>2, Constants
  <2>4. QED
    BY <2>1, <2>3 DEF Void
<1>6. IInv' /\ (phase' = "greet_cop" => Present' = Opened(Seed'))
  <2>1. CASE Seed' \in DOMAIN Layouts /\ ResetTo(Seed')
    <3>1. PICK i \in DOMAIN Layouts : i = Seed'
      BY <2>1
    <3>2. ResetTo(i)
      BY <2>1, <3>1
    <3>3. QED
      BY <3>1, <3>2, ResetOpens
  <2>2. CASE phase' = "aborted" /\ UNCHANGED vars
    BY <2>2 DEF vars, IInv, TypeOK, BudgetExact, ThiefNotWalledIn, OutcomeJustified
  <2>3. QED
    BY <1>5, <2>1, <2>2
<1>7. phase' \in {"greet_cop", "aborted"}
  BY <1>5
<1>8. GameTypeOK'
  <2>1. "UP" \in CopActions /\ 0 \in 0 .. Retries
    BY Constants DEF CopActions, Moves
  <2>2. CASE phase' = "aborted"
    BY <1>1, <1>2, <1>3, <1>4, <2>1, <2>2 DEF GameTypeOK, Auditing
  <2>3. CASE phase' = "greet_cop"
    BY <1>1, <1>2, <1>3, <1>4, <1>5, <2>1, <2>3 DEF GameTypeOK, Auditing, Greeting
  <2>4. QED
    BY <1>7, <2>2, <2>3
<1>9. GreetInv'
  BY <1>1, <1>3, <1>4, <1>6, <1>7 DEF GreetInv, Greeting
<1>10. AskInv' /\ AuditInv'
  BY <1>7 DEF AskInv, AuditInv, Asking, Auditing
<1>11. AttemptsInv' /\ ParseInv'
  BY <1>4, <1>7 DEF AttemptsInv, ParseInv
<1>12. DamageCaught' /\ HonestVerdict'
  BY <1>1, <1>2, <1>7 DEF DamageCaught, HonestVerdict
<1>13. QED
  BY <1>6, <1>8, <1>9, <1>10, <1>11, <1>12 DEF GameInv, EnvInv

(* The cop's hello, parsed: the run it supersedes is now counted among the  *)
(* attempts.                                                                *)
LEMMA CopHelloTallied ==
    ASSUME IInv, GameTypeOK, GreetInv, AttemptsInv, Clear, session # Unparsable,
           phase = "greet_cop", HelloLogged
    PROVE  /\ session' \in Sessions /\ HalfGreeted(session', Seed)
           /\ Tally(session', FALSE, started, odd)
<1>1. PICK s \in Sessions, i \in DOMAIN Layouts : s = session /\ i = Seed
  BY DEF GameTypeOK
<1>2. Cell("cop") = Layouts[i]["cop"]
  <2>1. Present = Opened(i)
    BY <1>1 DEF GreetInv, Greeting
  <2>2. Present.cop = cops[0] /\ Opened(i).cop = Layouts[i]["cop"]
    BY DEF Present, Opened
  <2>3. QED
    BY <2>1, <2>2 DEF Cell
<1>3. session' = ParseHello(s, "cop", Layouts[i]["cop"])
  BY <1>1, <1>2 DEF HelloLogged, Greeted
<1>4. s = NewSession \/ (CopTellsThief /\ BetweenRuns(s))
  BY <1>1 DEF GreetInv, Clear, Greeting
<1>5. BetweenRuns(s)
  BY <1>4, NewSessionIs DEF BetweenRuns
<1>6. PICK q : q = session' /\ CopGreeted(q, s, i)
  BY <1>3, <1>4, CopHelloParsed
<1>7. Tally(s, s.states # <<>>, started, odd)
  BY <1>1 DEF AttemptsInv
<1>8. Tally(q, FALSE, started, odd)
  <2>1. CASE s.states = <<>>
    <3>1. q.attempts = s.attempts
      BY <1>6, <2>1 DEF CopGreeted
    <3>2. QED
      BY <1>7, <2>1, <3>1 DEF Tally, ShortAttempt
  <2>2. CASE s.states # <<>>
    <3>1. SoundRun(s.spawns, s.states[1])
      BY <1>5, <2>2 DEF BetweenRuns, Waiting, HalfGreeted
    <3>2. PICK a \in Seq(Attempts), n \in Nat : a = s.attempts /\ n = Len(a)
      BY DEF Sessions
    <3>3. PICK last : last = [spawns |-> s.spawns, opening |-> s.states[1]]
      OBVIOUS
    <3>4. last.spawns = s.spawns /\ last.opening = s.states[1]
      BY <3>3
    <3>5. q.attempts = Append(a, last)
      BY <1>6, <2>2, <3>2, <3>3 DEF CopGreeted
    <3>6. Len(q.attempts) = n + 1 /\ q.attempts[n + 1] = last /\ \A m \in 1 .. n : q.attempts[m] = a[m]
      BY <3>2, <3>5
    <3>7. \A m \in 1 .. n + 1 : m \in 1 .. n \/ m = n + 1
      OBVIOUS
    <3>8. 1 .. n \subseteq 1 .. n + 1 /\ n + 1 \in 1 .. n + 1
      OBVIOUS
    <3>9. /\ n + 1 = started
          /\ \A m \in 1 .. n : SoundRun(a[m].spawns, a[m].opening)
          /\ "short_void" \in odd <=>
                (\E m \in 1 .. n : a[m].opening["thief"] = NoPayload) \/ last.opening["thief"] = NoPayload
      BY <1>7, <2>2, <3>2, <3>4 DEF Tally, ShortAttempt
    <3>10. \A m \in 1 .. n + 1 : SoundRun(q.attempts[m].spawns, q.attempts[m].opening)
      BY <3>1, <3>4, <3>6, <3>7, <3>9
    <3>11. ShortAttempt(q) <=>
              (\E m \in 1 .. n : a[m].opening["thief"] = NoPayload) \/ last.opening["thief"] = NoPayload
      BY <3>6, <3>7, <3>8 DEF ShortAttempt
    <3>12. (n + 1) + 0 = n + 1
      OBVIOUS
    <3>13. QED
      BY <3>6, <3>9, <3>10, <3>11, <3>12 DEF Tally
  <2>3. QED
    BY <2>1, <2>2
<1>9. QED
  BY <1>1, <1>6, <1>8 DEF CopGreeted

(* The thief's. *)
LEMMA ThiefHelloTallied ==
    ASSUME IInv, GameTypeOK, GreetInv, AttemptsInv, Clear, session # Unparsable,
           phase = "greet_thief", HelloLogged
    PROVE  BothGreeted(session', session, Seed) /\ Tally(session', FALSE, started, odd)
<1>1. PICK s \in Sessions, i \in DOMAIN Layouts : s = session /\ i = Seed
  BY DEF GameTypeOK
<1>2. Cell("thief") = Layouts[i]["thief"]
  <2>1. Present = Opened(i)
    BY <1>1 DEF GreetInv, Greeting
  <2>2. Present.thief = thief /\ Opened(i).thief = Layouts[i]["thief"]
    BY DEF Present, Opened
  <2>3. QED
    BY <2>1, <2>2 DEF Cell
<1>3. session' = ParseHello(s, "thief", Layouts[i]["thief"])
  BY <1>1, <1>2 DEF HelloLogged, Greeted
<1>4. HalfGreeted(s, i)
  BY <1>1 DEF GreetInv, Greeting
<1>5. PICK q : q = session' /\ BothGreeted(q, s, i)
  BY <1>3, <1>4, ThiefHelloParsed
<1>6. Tally(q, FALSE, started, odd)
  BY <1>1, <1>5 DEF AttemptsInv, Tally, ShortAttempt, BothGreeted
<1>7. QED
  BY <1>1, <1>5, <1>6
-----------------------------------------------------------------------------
(* A step that leaves the environment alone. *)
LEMMA EnvironmentKept == ASSUME IInv, UNCHANGED vars PROVE IInv' /\ Present' = Present
BY DEF vars, IInv, TypeOK, BudgetExact, ThiefNotWalledIn, OutcomeJustified, Present

(* A hello that voids the sub-game. *)
LEMMA HelloVoidStep == ASSUME GameInv, HelloVoid PROVE GameInv'
<1>1. IInv /\ GameTypeOK /\ GreetInv /\ AttemptsInv /\ ParseInv
  BY DEF GameInv, EnvInv, HelloVoid, HelloLogged
<1>2. HelloLogged /\ Void /\ phase \in {"greet_cop", "greet_thief"} /\ odd' = odd
  BY DEF HelloVoid, HelloLogged
<1>3. started' = started /\ voids \in Nat /\ phase # "aborted"
  BY <1>1, <1>2 DEF Void, GameTypeOK
<1>4. ASSUME CopTellsThief
      PROVE  /\ session' \in Sessions \union {Unparsable}
             /\ session' = Unparsable <=> odd' \intersect Unread # {}
             /\ session' # Unparsable =>
                   BetweenRuns(session') /\ Tally(session', session'.states # <<>>, started', odd')
  <2>1. Clear
    BY <1>4 DEF Clear
  <2>2. session = Unparsable <=> odd \intersect Unread # {}
    BY <1>1, <1>3, <2>1 DEF ParseInv
  <2>3. CASE session = Unparsable
    <3>1. session' = Unparsable
      BY <1>2, <2>3 DEF HelloLogged, ParseHello
    <3>2. QED
      BY <1>2, <2>2, <2>3, <3>1
  <2>4. ASSUME session # Unparsable
        PROVE  /\ session' \in Sessions /\ Waiting(session') /\ BetweenRuns(session')
               /\ Tally(session', FALSE, started, odd)
    <3>1. CASE phase = "greet_cop"
      <4>1. /\ session' \in Sessions /\ HalfGreeted(session', Seed)
            /\ Tally(session', FALSE, started, odd)
        BY <1>1, <1>2, <2>1, <2>4, <3>1, CopHelloTallied
      <4>2. Seed \in DOMAIN Layouts
        BY <1>1, <1>3 DEF GameTypeOK
      <4>3. QED
        BY <4>1, <4>2 DEF BetweenRuns, HalfGreeted
    <3>2. CASE phase = "greet_thief"
      <4>1. BothGreeted(session', session, Seed) /\ Tally(session', FALSE, started, odd)
        BY <1>1, <1>2, <2>1, <2>4, <3>2, ThiefHelloTallied
      <4>2. Seed \in DOMAIN Layouts
        BY <1>1, <1>3 DEF GameTypeOK
      <4>3. HalfGreeted(session', Seed)
        BY <4>1 DEF BothGreeted, HalfGreeted
      <4>4. QED
        BY <4>1, <4>2, <4>3 DEF BetweenRuns, BothGreeted
    <3>3. QED
      BY <1>2, <3>1, <3>2
  <2>5. CASE session # Unparsable
    <3>1. session' # Unparsable
      BY <2>4, <2>5, Blanks
    <3>2. (session'.states # <<>>) = FALSE
      BY <2>4, <2>5 DEF Waiting
    <3>3. Tally(session', session'.states # <<>>, started', odd')
      BY <1>2, <1>3, <2>4, <2>5, <3>2 DEF Tally
    <3>4. QED
      BY <1>2, <2>2, <2>4, <2>5, <3>1, <3>3
  <2>6. QED
    BY <2>3, <2>5
<1>5. phase \in Greeting \union Asking
  BY <1>2 DEF Greeting
<1>6. QED
  BY <1>1, <1>2, <1>4, <1>5, VoidStep

(* A hello that is answered. *)
LEMMA HelloOkStep == ASSUME GameInv, HelloOk PROVE GameInv'
<1>1. IInv /\ GameTypeOK /\ GreetInv /\ AttemptsInv /\ ParseInv
  BY DEF GameInv, EnvInv, HelloOk, HelloLogged
<1>2. /\ HelloLogged /\ phase \in {"greet_cop", "greet_thief"} /\ odd' = odd
      /\ phase' = (IF phase = "greet_cop" THEN "greet_thief" ELSE "ask_cop")
      /\ UNCHANGED <<vars, voids, started, round, try, faults, copAct, record, damaged, verdict>>
  BY DEF HelloOk, HelloLogged
<1>3. IInv' /\ Present' = Present
  BY <1>1, <1>2, EnvironmentKept
<1>4. /\ phase \in Greeting /\ phase # "aborted" /\ phase' # "aborted" /\ phase' # "greet_cop"
      /\ phase' \in {"greet_thief", "ask_cop"} /\ phase' \notin Auditing
  BY <1>2 DEF Greeting, Auditing
<1>5. (Clear' <=> Clear) /\ Seed' = Seed
  BY <1>2 DEF Clear, Seed
<1>6. Present = Opened(Seed) /\ round = 0 /\ faults = 0 /\ Seed \in DOMAIN Layouts
  BY <1>1, <1>4 DEF GreetInv, GameTypeOK
<1>7. ASSUME Clear
      PROVE  /\ session' = Unparsable <=> odd \intersect Unread # {}
             /\ session' # Unparsable =>
                   /\ session' \in Sessions /\ Tally(session', FALSE, started, odd)
                   /\ phase = "greet_cop" => HalfGreeted(session', Seed)
                   /\ phase = "greet_thief" => BothGreeted(session', session, Seed)
  <2>1. session = Unparsable <=> odd \intersect Unread # {}
    BY <1>1, <1>4, <1>7 DEF ParseInv
  <2>2. CASE session = Unparsable
    <3>1. session' = Unparsable
      BY <1>2, <2>2 DEF HelloLogged, ParseHello
    <3>2. QED
      BY <2>1, <2>2, <3>1
  <2>3. CASE session # Unparsable /\ phase = "greet_cop"
    <3>1. /\ session' \in Sessions /\ HalfGreeted(session', Seed)
          /\ Tally(session', FALSE, started, odd)
      BY <1>1, <1>2, <1>7, <2>3, CopHelloTallied
    <3>2. QED
      BY <2>1, <2>3, <3>1, Blanks
  <2>4. CASE session # Unparsable /\ phase = "greet_thief"
    <3>1. BothGreeted(session', session, Seed) /\ Tally(session', FALSE, started, odd)
      BY <1>1, <1>2, <1>7, <2>4, ThiefHelloTallied
    <3>2. QED
      BY <2>1, <2>4, <3>1, Blanks DEF BothGreeted
  <2>5. QED
    BY <1>2, <2>2, <2>3, <2>4
<1>8. GameTypeOK'
  <2>1. Clear => session' \in Sessions \union {Unparsable}
    BY <1>7
  <2>2. phase' \in Greeting \union Asking \union Auditing \union {"aborted"}
    BY <1>4 DEF Greeting, Asking
  <2>3. ~damaged /\ verdict = "pending"
    BY <1>1, <1>2, <1>4 DEF GameTypeOK, Auditing
  <2>4. QED
    BY <1>1, <1>2, <1>4, <1>5, <1>6, <2>1, <2>2, <2>3 DEF GameTypeOK
<1>9. GreetInv'
  BY <1>2, <1>3, <1>4, <1>5, <1>6, <1>7 DEF GreetInv, Greeting
<1>10. AskInv'
  <2>1. CASE phase = "greet_cop"
    BY <1>2, <2>1 DEF AskInv, Asking
  <2>2. CASE phase = "greet_thief"
    <3>1. phase' = "ask_cop"
      BY <1>2, <2>2
    <3>2. step = 0 /\ winner = "none"
      BY <1>6 DEF Present, Opened
    <3>3. step' = 0 /\ winner' = "none"
      BY <1>2, <3>2 DEF vars
    <3>4. ASSUME Clear, session' # Unparsable
          PROVE  session'.posts = round' + faults' /\ UnderWay(session)'
      <4>1. BothGreeted(session', session, Seed)
        BY <1>7, <2>2, <3>4
      <4>2. /\ session'.posts = 0 /\ Len(session'.states) = 0 /\ Len(session'.actions) = 0
            /\ session'.spawns = Layouts[Seed']
        BY <1>5, <4>1 DEF BothGreeted, Waiting
      <4>3. ThisTick(session, step, Present)'
        BY <3>1, <3>3, <4>2 DEF ThisTick
      <4>4. Opened(Seed) \in Boards
        BY <1>1, <1>6, PresentTyped
      <4>5. PICK run \in [Nat -> Boards] : Along(run, Seed, session'.actions, 0) /\ run[0] = Opened(Seed)
        BY <4>4, RunOpens
      <4>6. Tells(session'.states, run, 0)
        BY DEF Tells
      <4>7. /\ Along(run, Seed', session'.actions, step') /\ run[step'] = Present'
            /\ Tells(session'.states, run, step')
        BY <1>3, <1>5, <1>6, <3>3, <4>5, <4>6
      <4>8. QED
        BY <1>2, <1>6, <4>2, <4>3, <4>7 DEF UnderWay
    <3>5. QED
      BY <1>5, <3>3, <3>4 DEF AskInv
  <2>3. QED
    BY <1>2, <2>1, <2>2
<1>11. AttemptsInv'
  BY <1>2, <1>4, <1>5, <1>7 DEF AttemptsInv
<1>12. ParseInv'
  BY <1>2, <1>4, <1>5, <1>7 DEF ParseInv
<1>13. AuditInv' /\ DamageCaught' /\ HonestVerdict'
  <2>1. ~damaged' /\ phase' # "judged"
    BY <1>1, <1>2, <1>4 DEF GameTypeOK, Auditing
  <2>2. QED
    BY <1>4, <2>1 DEF AuditInv, DamageCaught, HonestVerdict
<1>14. QED
  BY <1>3, <1>8, <1>9, <1>10, <1>11, <1>12, <1>13 DEF GameInv, EnvInv
-----------------------------------------------------------------------------
(* What is left of a run when a void abandons it after a post.              *)
LEMMA AbandonedRun ==
    ASSUME IInv, GameTypeOK, phase \in Asking, NEW q \in Sessions, UnderWay(q), q.posts # 0
    PROVE  /\ q.states # <<>> /\ SoundRun(q.spawns, q.states[1])
           /\ q.states[1]["thief"] = NoPayload <=> phase = "ask_cop" /\ step = 0
<1>1. PICK n \in Nat, b \in Boards, i \in DOMAIN Layouts : n = step /\ b = Present /\ i = Seed
  <2>1. step \in Nat /\ Seed \in DOMAIN Layouts
    BY DEF IInv, TypeOK, GameTypeOK, Asking
  <2>2. QED
    BY <2>1, PresentTyped
<1>2. ThisTick(q, n, b) /\ q.spawns = Layouts[i]
  BY <1>1 DEF UnderWay
<1>3. PICK run \in [Nat -> Boards] : run[0] = Opened(i) /\ run[n] = b /\ Tells(q.states, run, n)
  BY <1>1 DEF UnderWay, Along
<1>4. "cop" \in Roles /\ "thief" \in Roles /\ run[0] \in Boards
  BY <1>3 DEF Roles
<1>5. Told(Opened(i), "thief") # NoPayload
  BY <1>3, <1>4, ToldTyped
<1>6. Len(q.states) >= 1
  <2>1. Len(q.states) = n + 1
    BY <1>2 DEF ThisTick, Asking
  <2>2. QED
    BY <2>1
<1>7. q.states # <<>>
  BY <1>6
<1>8. CASE n = 0
  <2>1. b = Opened(i) /\ n + 1 = 1
    BY <1>3, <1>8
  <2>2. CASE phase = "ask_cop"
    <3>1. q.states[1]["cop"] = Told(Opened(i), "cop") /\ q.states[1]["thief"] = NoPayload
      BY <1>2, <2>1, <2>2 DEF ThisTick
    <3>2. QED
      BY <1>1, <1>2, <1>7, <1>8, <2>2, <3>1 DEF SoundRun
  <2>3. CASE phase = "ask_thief"
    <3>1. /\ q.states[1]["cop"] = Told(Opened(i), "cop")
          /\ q.states[1]["thief"] = Told(Opened(i), "thief")
      BY <1>2, <2>1, <2>3 DEF ThisTick
    <3>2. phase # "ask_cop"
      BY <2>3
    <3>3. QED
      BY <1>1, <1>2, <1>5, <1>7, <3>1, <3>2 DEF SoundRun
  <2>4. QED
    BY <2>2, <2>3 DEF Asking
<1>9. CASE n # 0
  <2>1. 1 \in 1 .. n /\ 1 - 1 = 0
    BY <1>9
  <2>2. \A r \in Roles : q.states[1][r] = Told(run[1 - 1], r)
    BY <1>3, <2>1 DEF Tells
  <2>3. \A r \in Roles : q.states[1][r] = Told(Opened(i), r)
    BY <1>3, <2>1, <2>2
  <2>4. QED
    BY <1>1, <1>2, <1>4, <1>5, <1>7, <1>9, <2>3 DEF SoundRun
<1>10. QED
  BY <1>8, <1>9

(* A post that voids the sub-game. *)
LEMMA PostVoidStep ==
    ASSUME GameInv, SameRadius, phase \in Asking, NEW outcome \in Answers \union {"fault", "blank"},
           session' = Logged(outcome), odd' = odd \union Oddities(outcome, TRUE), Void
    PROVE  GameInv'
<1>1. IInv /\ GameTypeOK /\ AskInv /\ AttemptsInv /\ ParseInv
  BY DEF GameInv, EnvInv, Asking
<1>2. started' = started + 1
  BY DEF Void, Asking
<1>3. ASSUME CopTellsThief
      PROVE  /\ session' \in Sessions \union {Unparsable}
             /\ session' = Unparsable <=> odd' \intersect Unread # {}
             /\ session' # Unparsable =>
                   BetweenRuns(session') /\ Tally(session', session'.states # <<>>, started', odd')
  <2>1. Clear
    BY <1>3 DEF Clear
  <2>2. /\ session' = Unparsable <=> odd' \intersect Unread # {}
        /\ session' # Unparsable => session # Unparsable /\ Heard(session', outcome)
    BY <1>1, <2>1, PostParsed
  <2>3. CASE session' = Unparsable
    BY <2>2, <2>3
  <2>4. CASE session' # Unparsable
    <3>1. PICK s \in Sessions : s = session
      BY <1>1, <2>1, <2>2, <2>4 DEF GameTypeOK
    <3>2. PICK q \in Sessions : q = session' /\ UnderWay(q) /\ q.posts = s.posts + 1 /\ q.attempts = s.attempts
      BY <2>2, <2>4, <3>1 DEF Heard
    <3>3. q.posts # 0
      <4>1. s.posts \in Nat
        BY DEF Sessions
      <4>2. QED
        BY <3>2, <4>1
    <3>4. /\ q.states # <<>> /\ SoundRun(q.spawns, q.states[1])
          /\ q.states[1]["thief"] = NoPayload <=> phase = "ask_cop" /\ step = 0
      BY <1>1, <3>2, <3>3, AbandonedRun
    <3>5. Tally(s, FALSE, started, odd)
      <4>1. (phase = "greet_cop" /\ session.states # <<>>) = FALSE /\ phase # "aborted"
        BY DEF Asking
      <4>2. QED
        BY <1>1, <2>1, <2>2, <2>4, <3>1, <4>1 DEF AttemptsInv
    <3>6. "short_void" \in odd' <=> "short_void" \in odd \/ (phase = "ask_cop" /\ step = 0)
      BY DEF Oddities
    <3>7. Len(q.attempts) + 1 = started'
      <4>1. Len(s.attempts) \in Nat /\ Len(s.attempts) + 0 = started
        BY <3>5 DEF Tally, Sessions
      <4>2. QED
        BY <1>2, <3>2, <4>1
    <3>8. Tally(q, TRUE, started', odd')
      BY <3>2, <3>4, <3>5, <3>6, <3>7 DEF Tally, ShortAttempt
    <3>9. (q.states # <<>>) = TRUE
      BY <3>4
    <3>10. QED
      BY <2>2, <3>2, <3>4, <3>8, <3>9 DEF BetweenRuns
  <2>5. QED
    BY <2>3, <2>4
<1>4. QED
  BY <1>1, <1>3, VoidStep

(* A post that is asked again. *)
LEMMA PostAgainStep ==
    ASSUME GameInv, SameRadius, phase \in Asking, NEW outcome \in Answers \union {"fault", "blank"},
           session' = Logged(outcome), odd' = odd \union Oddities(outcome, FALSE), Again,
           round' \in 0 .. Retries, try' \in 0 .. Retries, faults' \in Nat,
           round' + faults' = round + faults + 1
    PROVE  GameInv'
<1>1. IInv /\ GameTypeOK /\ AskInv /\ AttemptsInv /\ ParseInv
  BY DEF GameInv, EnvInv, Asking
<1>2. UNCHANGED <<vars, phase, voids, started, copAct, record, damaged, verdict>>
  BY DEF Again
<1>3. IInv' /\ Present' = Present /\ step' = step /\ winner' = winner
  BY <1>1, <1>2, EnvironmentKept DEF vars
<1>4. (Clear' <=> Clear) /\ Seed' = Seed
  BY <1>2 DEF Clear, Seed
<1>5. phase # "aborted" /\ phase \notin Greeting /\ phase \notin Auditing /\ phase # "greet_cop" /\ phase # "judged"
  BY DEF Asking, Greeting, Auditing
<1>6. ASSUME Clear
      PROVE  /\ session' = Unparsable <=> odd' \intersect Unread # {}
             /\ session' # Unparsable => session # Unparsable /\ Heard(session', outcome)
  BY <1>1, <1>6, PostParsed
<1>7. GameTypeOK'
  <2>1. Clear => session' \in Sessions \union {Unparsable}
    BY <1>6 DEF Heard
  <2>2. ~damaged /\ verdict = "pending"
    BY <1>1, <1>5 DEF GameTypeOK
  <2>3. QED
    BY <1>1, <1>2, <1>4, <1>5, <2>1, <2>2 DEF GameTypeOK
<1>8. GreetInv'
  BY <1>2, <1>5 DEF GreetInv, Greeting
<1>9. AskInv'
  <2>1. ASSUME Clear, session' # Unparsable
        PROVE  session'.posts = round' + faults' /\ UnderWay(session)'
    <3>1. session # Unparsable /\ Heard(session', outcome)
      BY <1>6, <2>1
    <3>2. session.posts = round + faults
      BY <1>1, <2>1, <3>1 DEF AskInv
    <3>3. session'.posts = round' + faults'
      BY <3>1, <3>2 DEF Heard
    <3>4. UnderWay(session')
      BY <3>1 DEF Heard
    <3>5. UnderWay(session)'
      BY <1>2, <1>3, <1>4, <3>4 DEF UnderWay, ThisTick
    <3>6. QED
      BY <3>3, <3>5
  <2>2. winner' = "none"
    BY <1>1, <1>3 DEF AskInv
  <2>3. QED
    BY <1>4, <2>1, <2>2 DEF AskInv
<1>10. AttemptsInv' /\ ParseInv'
  <2>1. "short_void" \in odd' <=> "short_void" \in odd
    BY DEF Oddities
  <2>2. ASSUME Clear, session' # Unparsable PROVE Tally(session', FALSE, started, odd')
    <3>1. session # Unparsable /\ session'.attempts = session.attempts
      BY <1>6, <2>2 DEF Heard
    <3>2. (phase = "greet_cop" /\ session.states # <<>>) = FALSE
      BY <1>5
    <3>3. Tally(session, FALSE, started, odd)
      BY <1>1, <1>5, <2>2, <3>1, <3>2 DEF AttemptsInv
    <3>4. QED
      BY <2>1, <3>1, <3>3 DEF Tally, ShortAttempt
  <2>3. (phase' = "greet_cop" /\ session'.states # <<>>) = FALSE
    BY <1>2, <1>5
  <2>4. AttemptsInv'
    BY <1>2, <1>4, <2>2, <2>3 DEF AttemptsInv
  <2>5. ParseInv'
    BY <1>4, <1>6 DEF ParseInv
  <2>6. QED
    BY <2>4, <2>5
<1>11. AuditInv' /\ DamageCaught' /\ HonestVerdict'
  <2>1. ~damaged' /\ phase' # "judged" /\ phase' \notin Auditing
    BY <1>1, <1>2, <1>5 DEF GameTypeOK
  <2>2. QED
    BY <2>1 DEF AuditInv, DamageCaught, HonestVerdict
<1>12. QED
  BY <1>3, <1>7, <1>8, <1>9, <1>10, <1>11 DEF GameInv, EnvInv

(* A post that faults, again or for good. *)
LEMMA FaultStep == ASSUME GameInv, SameRadius, PostFaults PROVE GameInv'
<1>1. "fault" \in Answers \union {"fault", "blank"} /\ phase \in Asking
  BY DEF PostFaults, Asking
<1>2. session' = Logged("fault") /\ odd' = odd \union Oddities("fault", try = Retries)
  BY DEF PostFaults
<1>3. round \in 0 .. Retries /\ try \in 0 .. Retries /\ faults \in Nat /\ Retries \in Nat
  BY Constants DEF GameInv, GameTypeOK
<1>4. CASE try < Retries
  <2>1. Again /\ try' = try + 1 /\ faults' = faults + 1 /\ round' = round
    BY <1>4 DEF PostFaults
  <2>2. (try = Retries) = FALSE
    BY <1>3, <1>4
  <2>3. odd' = odd \union Oddities("fault", FALSE)
    BY <1>2, <2>2
  <2>4. /\ round' \in 0 .. Retries /\ try' \in 0 .. Retries /\ faults' \in Nat
        /\ round' + faults' = round + faults + 1
    BY <1>3, <1>4, <2>1
  <2>5. QED
    BY <1>1, <1>2, <2>1, <2>3, <2>4, PostAgainStep
<1>5. CASE ~(try < Retries)
  <2>1. Void
    BY <1>5 DEF PostFaults
  <2>2. (try = Retries) = TRUE
    BY <1>3, <1>5
  <2>3. odd' = odd \union Oddities("fault", TRUE)
    BY <1>2, <2>2
  <2>4. QED
    BY <1>1, <1>2, <2>1, <2>3, PostVoidStep
<1>6. QED
  BY <1>4, <1>5

(* A reply that is no answer, asked again or for good. *)
LEMMA MalformedStep ==
    ASSUME GameInv, SameRadius, NEW outcome, PostMalformed(outcome)
    PROVE  GameInv'
<1>1. phase \in Asking
  BY DEF PostMalformed, Asking
<1>2. outcome \in Answers \union {"fault", "blank"}
  BY DEF PostMalformed, OddStrings, Answers
<1>3. session' = Logged(outcome) /\ odd' = odd \union Oddities(outcome, round = Retries)
  BY DEF PostMalformed
<1>4. round \in 0 .. Retries /\ try \in 0 .. Retries /\ faults \in Nat /\ Retries \in Nat
  BY Constants DEF GameInv, GameTypeOK
<1>5. CASE round < Retries
  <2>1. Again /\ round' = round + 1 /\ try' = 0 /\ faults' = faults
    BY <1>5 DEF PostMalformed
  <2>2. (round = Retries) = FALSE
    BY <1>4, <1>5
  <2>3. odd' = odd \union Oddities(outcome, FALSE)
    BY <1>3, <2>2
  <2>4. /\ round' \in 0 .. Retries /\ try' \in 0 .. Retries /\ faults' \in Nat
        /\ round' + faults' = round + faults + 1
    BY <1>4, <1>5, <2>1
  <2>5. QED
    BY <1>1, <1>2, <1>3, <2>1, <2>3, <2>4, PostAgainStep
<1>6. CASE ~(round < Retries)
  <2>1. Void
    BY <1>6 DEF PostMalformed
  <2>2. (round = Retries) = TRUE
    BY <1>4, <1>6
  <2>3. odd' = odd \union Oddities(outcome, TRUE)
    BY <1>3, <2>2
  <2>4. QED
    BY <1>1, <1>2, <1>3, <2>1, <2>3, PostVoidStep
<1>7. QED
  BY <1>5, <1>6
-----------------------------------------------------------------------------
(* The log of a move that was answered. *)
SameLog(q, s) ==
    /\ q.spawns = s.spawns /\ q.actions = s.actions /\ q.states = s.states
    /\ q.attempts = s.attempts
LEMMA AnsweredIs ==
    ASSUME NEW s \in Sessions
    PROVE  /\ Answered(s) \in Sessions /\ Answered(s).posts = 0 /\ SameLog(Answered(s), s)
           /\ \A i \in Nat :
                 /\ ParseResult(s, i) \in Sessions /\ ParseResult(s, i).seed = i
                 /\ SameLog(ParseResult(s, i), s)
<1>1. s # Unparsable
  BY Blanks
<1>2. Answered(s) \in Sessions /\ Answered(s).posts = 0 /\ SameLog(Answered(s), s)
  <2>1. Answered(s) = [s EXCEPT !.posts = 0] /\ 0 \in Nat
    BY <1>1 DEF Answered
  <2>2. [s EXCEPT !.posts = 0] \in Sessions
    BY <2>1 DEF Sessions
  <2>3. [s EXCEPT !.posts = 0].posts = 0 /\ SameLog([s EXCEPT !.posts = 0], s)
    BY DEF Sessions, SameLog
  <2>4. QED
    BY <2>1, <2>2, <2>3
<1>3. ASSUME NEW i \in Nat
      PROVE  /\ ParseResult(s, i) \in Sessions /\ ParseResult(s, i).seed = i
             /\ SameLog(ParseResult(s, i), s)
  <2>1. ParseResult(s, i) = [s EXCEPT !.seed = i]
    BY <1>1 DEF ParseResult
  <2>2. [s EXCEPT !.seed = i] \in Sessions
    BY DEF Sessions
  <2>3. [s EXCEPT !.seed = i].seed = i /\ SameLog([s EXCEPT !.seed = i], s)
    BY DEF Sessions, SameLog
  <2>4. QED
    BY <2>1, <2>2, <2>3
<1>4. QED
  BY <1>2, <1>3

(* A move answered, parsed. *)
Concluded(q, a) ==
    \E t \in Sessions :
        /\ q \in Sessions /\ q.posts = 0 /\ SameLog(q, t)
        /\ UnderWay(t) /\ t.posts # 0
        /\ Len(t.actions) = step + 1 /\ t.actions[step + 1][Asked] = a
LEMMA AnswerParsed ==
    ASSUME IInv, SameRadius, GameTypeOK, AskInv, AttemptsInv, ParseInv, Clear, phase \in Asking,
           NEW a \in CopActions
    PROVE  LET o == odd \union Oddities(a, FALSE)
               q == Answered(Logged(a))
           IN  /\ q = Unparsable <=> o \intersect Unread # {}
               /\ q # Unparsable => Concluded(q, a) /\ Tally(q, FALSE, started, o)
<1> DEFINE o == odd \union Oddities(a, FALSE)
<1>1. a \in Answers \union {"fault", "blank"} /\ a \in Answers
  BY DEF Answers
<1>2. /\ Logged(a) = Unparsable <=> o \intersect Unread # {}
      /\ Logged(a) # Unparsable => session # Unparsable /\ Heard(Logged(a), a)
  BY <1>1, PostParsed
<1>3. "short_void" \in o <=> "short_void" \in odd
  BY DEF Oddities
<1> HIDE DEF o
<1>4. CASE Logged(a) = Unparsable
  <2>1. Answered(Logged(a)) = Unparsable
    BY <1>4 DEF Answered
  <2>2. QED
    BY <1>2, <1>4, <2>1 DEF o
<1>5. CASE Logged(a) # Unparsable
  <2>1. PICK t \in Sessions, s \in Sessions :
           /\ t = Logged(a) /\ s = session /\ UnderWay(t) /\ t.posts = s.posts + 1
           /\ t.attempts = s.attempts /\ Len(t.actions) = step + 1
           /\ t.actions[step + 1][Asked] = a
    BY <1>1, <1>2, <1>5 DEF Heard, GameTypeOK
  <2>2. t.posts # 0
    <3>1. s.posts \in Nat
      BY DEF Sessions
    <3>2. QED
      BY <2>1, <3>1
  <2>3. PICK q \in Sessions : q = Answered(t) /\ q.posts = 0 /\ SameLog(q, t)
    BY AnsweredIs
  <2>4. q # Unparsable
    BY Blanks
  <2>5. Tally(q, FALSE, started, o)
    <3>1. (phase = "greet_cop" /\ session.states # <<>>) = FALSE /\ phase # "aborted"
      BY DEF Asking
    <3>2. Tally(s, FALSE, started, odd)
      BY <1>2, <1>5, <2>1, <3>1 DEF AttemptsInv
    <3>3. q.attempts = s.attempts
      BY <2>1, <2>3 DEF SameLog
    <3>4. QED
      BY <1>3, <3>2, <3>3 DEF Tally, ShortAttempt
  <2>6. Concluded(q, a)
    BY <2>1, <2>2, <2>3 DEF Concluded
  <2>7. QED
    BY <1>2, <1>5, <2>1, <2>3, <2>4, <2>5, <2>6 DEF o
<1>6. QED
  BY <1>4, <1>5

(* The cop's answer, after which the thief is asked. *)
LEMMA CopAnswersStep ==
    ASSUME GameInv, SameRadius, NEW a, CopAnswers(a)
    PROVE  GameInv'
<1>1. IInv /\ GameTypeOK /\ AskInv /\ AttemptsInv /\ ParseInv
  BY DEF GameInv, EnvInv, CopAnswers
<1>2. /\ phase = "ask_cop" /\ phase' = "ask_thief" /\ a \in CopActions /\ copAct' = a
      /\ session' = Answered(Logged(a)) /\ odd' = odd \union Oddities(a, FALSE)
      /\ round' = 0 /\ try' = 0 /\ faults' = 0
      /\ UNCHANGED <<vars, voids, started, record, damaged, verdict>>
  BY DEF CopAnswers, Alphabet, NewCall
<1>3. IInv' /\ Present' = Present /\ step' = step /\ winner' = winner
  BY <1>1, <1>2, EnvironmentKept DEF vars
<1>4. (Clear' <=> Clear) /\ Seed' = Seed
  BY <1>2 DEF Clear, Seed
<1>5. /\ phase \in Asking /\ phase' \in Asking /\ phase # "aborted" /\ phase' # "aborted"
      /\ phase \notin Auditing /\ phase' \notin Auditing /\ phase' \notin Greeting
      /\ phase' # "greet_cop" /\ phase' # "judged"
  BY <1>2 DEF Asking, Greeting, Auditing
<1>6. ASSUME Clear
      PROVE  /\ session' = Unparsable <=> odd' \intersect Unread # {}
             /\ session' # Unparsable =>
                   Concluded(session', a) /\ Tally(session', FALSE, started, odd')
  BY <1>1, <1>2, <1>5, <1>6, AnswerParsed
<1>7. GameTypeOK'
  <2>1. Clear => session' \in Sessions \union {Unparsable}
    BY <1>6 DEF Concluded
  <2>2. ~damaged /\ verdict = "pending" /\ 0 \in 0 .. Retries
    BY <1>1, <1>2, <1>5, Constants DEF GameTypeOK, Auditing
  <2>3. QED
    BY <1>1, <1>2, <1>4, <1>5, <2>1, <2>2 DEF GameTypeOK
<1>8. GreetInv'
  BY <1>5 DEF GreetInv, Greeting
<1>9. AskInv'
  <2>1. ASSUME Clear, session' # Unparsable
        PROVE  session'.posts = round' + faults' /\ UnderWay(session)'
    <3>1. PICK q, t \in Sessions :
             /\ q = session' /\ q.posts = 0 /\ SameLog(q, t) /\ UnderWay(t) /\ t.posts # 0
             /\ Len(t.actions) = step + 1 /\ t.actions[step + 1]["cop"] = a
      BY <1>2, <1>6, <2>1 DEF Concluded, Asked
    <3>2. ThisTick(t, step, Present)
      BY <3>1 DEF UnderWay
    <3>3. ThisTick(session, step, Present)'
      BY <1>2, <1>3, <3>1, <3>2 DEF ThisTick, SameLog
    <3>4. UnderWay(session)'
      BY <1>3, <1>4, <3>1, <3>3 DEF UnderWay, SameLog
    <3>5. QED
      BY <1>2, <3>1, <3>4
  <2>2. winner' = "none"
    BY <1>1, <1>3, <1>5 DEF AskInv
  <2>3. QED
    BY <1>4, <2>1, <2>2 DEF AskInv
<1>10. AttemptsInv' /\ ParseInv'
  <2>1. (phase' = "greet_cop" /\ session'.states # <<>>) = FALSE
    BY <1>5
  <2>2. AttemptsInv'
    BY <1>2, <1>4, <1>6, <2>1 DEF AttemptsInv
  <2>3. ParseInv'
    BY <1>4, <1>6 DEF ParseInv
  <2>4. QED
    BY <2>2, <2>3
<1>11. AuditInv' /\ DamageCaught' /\ HonestVerdict'
  <2>1. ~damaged'
    BY <1>1, <1>2, <1>5 DEF GameTypeOK
  <2>2. QED
    BY <1>5, <2>1 DEF AuditInv, DamageCaught, HonestVerdict
<1>12. QED
  BY <1>3, <1>7, <1>8, <1>9, <1>10, <1>11 DEF GameInv, EnvInv

(* The thief's answer, and the tick: the run is a tick longer, and so is the*)
(* log of it.                                                               *)
Completed(q) ==
    /\ q.spawns = Layouts[Seed] /\ Len(q.states) = step + 1 /\ Len(q.actions) = step + 1
    /\ \E run \in [Nat -> Boards] :
          /\ Along(run, Seed, q.actions, step + 1) /\ run[step + 1] = Present'
          /\ Tells(q.states, run, step + 1)
LEMMA TickCompleted ==
    ASSUME IInv, GameTypeOK, phase = "ask_thief", NEW a \in Moves,
           Step([c \in Cops |-> copAct], a), NEW q, Concluded(q, a)
    PROVE  Completed(q)
<1>1. PICK n \in Nat, b \in Boards, m \in CopActions : n = step /\ b = Present /\ m = copAct
  <2>1. step \in Nat /\ copAct \in CopActions
    BY DEF IInv, TypeOK, GameTypeOK
  <2>2. QED
    BY <2>1, PresentTyped
<1>2. IInv' /\ Present' = After(b, m, a) /\ winner = "none"
  <2>1. Step([c \in Cops |-> m], a)
    BY <1>1
  <2>2. QED
    BY <1>1, <2>1, StepIsAfter
<1>3. PICK d \in Boards : d = Present' /\ d = After(b, m, a)
  <2>1. Present' \in Boards
    BY <1>2, Constants DEF IInv, TypeOK, Present, Boards
  <2>2. QED
    BY <1>2, <2>1
<1>4. PICK t \in Sessions :
         /\ q.posts = 0 /\ SameLog(q, t) /\ UnderWay(t) /\ t.posts # 0
         /\ Len(t.actions) = n + 1 /\ t.actions[n + 1]["thief"] = a
  <2>1. Asked = "thief"
    BY DEF Asked
  <2>2. QED
    BY <1>1, <2>1 DEF Concluded
<1>5. /\ Len(t.states) = n + 1 /\ t.actions[n + 1]["cop"] = m
      /\ t.states[n + 1]["cop"] = Told(b, "cop") /\ t.states[n + 1]["thief"] = Told(b, "thief")
  <2>1. ThisTick(t, n, b)
    BY <1>1, <1>4 DEF UnderWay
  <2>2. QED
    BY <1>1, <1>4, <2>1 DEF ThisTick
<1>6. PICK run \in [Nat -> Boards] :
         Along(run, Seed, t.actions, n) /\ run[n] = b /\ Tells(t.states, run, n)
  BY <1>1, <1>4 DEF UnderWay
<1>7. b.winner = "none"
  BY <1>1, <1>2 DEF Present
<1>8. \A r \in Roles : t.actions[n + 1][r] \in Alphabet(r)
  BY <1>4, <1>5 DEF Roles, Alphabet
<1>9. PICK longer \in [Nat -> Boards] :
         /\ Along(longer, Seed, t.actions, n + 1) /\ longer[n + 1] = d
         /\ \A k \in 0 .. n : longer[k] = run[k]
  <2>1. d = After(run[n], t.actions[n + 1]["cop"], t.actions[n + 1]["thief"])
    BY <1>3, <1>4, <1>5, <1>6
  <2>2. \A k \in 1 .. n : t.actions[k] = t.actions[k]
    OBVIOUS
  <2>3. QED
    BY <1>6, <1>7, <1>8, <2>1, <2>2, RunExtended
<1>10. Tells(t.states, longer, n + 1)
  <2>1. ASSUME NEW k \in 1 .. n + 1, NEW r \in Roles
        PROVE  t.states[k][r] = Told(longer[k - 1], r)
    <3>1. CASE k = n + 1
      <4>1. k - 1 = n /\ n \in 0 .. n
        BY <3>1
      <4>2. longer[k - 1] = b
        BY <1>6, <1>9, <4>1
      <4>3. QED
        BY <1>5, <3>1, <4>2 DEF Roles
    <3>2. CASE k \in 1 .. n
      <4>1. k - 1 \in 0 .. n
        BY <3>2
      <4>2. longer[k - 1] = run[k - 1]
        BY <1>9, <4>1
      <4>3. QED
        BY <1>6, <3>2, <4>2 DEF Tells
    <3>3. QED
      BY <3>1, <3>2
  <2>2. QED
    BY <2>1 DEF Tells
<1>11. q.spawns = Layouts[Seed]
  BY <1>4 DEF UnderWay, SameLog
<1>12. QED
  BY <1>1, <1>3, <1>4, <1>5, <1>9, <1>10, <1>11 DEF Completed, SameLog

(* The tick goes on to the next one. *)
LEMMA TickOnStep ==
    ASSUME GameInv, SameRadius, NEW a, ThiefAnswers(a), winner' = "none"
    PROVE  GameInv'
<1>1. IInv /\ GameTypeOK /\ AskInv /\ AttemptsInv /\ ParseInv
  BY DEF GameInv, EnvInv, ThiefAnswers
<1>2. /\ phase = "ask_thief" /\ phase' = "ask_cop" /\ a \in Moves /\ copAct' = "UP"
      /\ session' = Answered(Logged(a)) /\ odd' = odd \union Oddities(a, FALSE)
      /\ Step([c \in Cops |-> copAct], a) /\ round' = 0 /\ try' = 0 /\ faults' = 0
      /\ UNCHANGED <<voids, started, record, damaged, verdict>>
  BY DEF ThiefAnswers, Alphabet, NewCall
<1>3. IInv' /\ step \in Nat /\ step' = step + 1
  <2>1. copAct \in CopActions
    BY <1>1 DEF GameTypeOK
  <2>2. IInv'
    BY <1>1, <1>2, <2>1, StepIsAfter
  <2>3. QED
    BY <1>1, <1>2, <2>2 DEF Step, IInv, TypeOK
<1>4. (Clear' <=> Clear) /\ Seed' = Seed
  BY <1>2 DEF Clear, Seed
<1>5. /\ phase \in Asking /\ phase' \in Asking /\ phase # "aborted" /\ phase' # "aborted"
      /\ phase \notin Auditing /\ phase' \notin Auditing /\ phase' \notin Greeting
      /\ phase' # "greet_cop" /\ phase' # "judged" /\ phase' # "ask_thief"
  BY <1>2 DEF Asking, Greeting, Auditing
<1>6. a \in CopActions /\ "UP" \in CopActions
  BY <1>2 DEF CopActions, Moves
<1>7. ASSUME Clear
      PROVE  /\ session' = Unparsable <=> odd' \intersect Unread # {}
             /\ session' # Unparsable =>
                   Concluded(session', a) /\ Tally(session', FALSE, started, odd')
  BY <1>1, <1>2, <1>5, <1>6, <1>7, AnswerParsed
<1>8. GameTypeOK'
  <2>1. Clear => session' \in Sessions \union {Unparsable}
    BY <1>7 DEF Concluded
  <2>2. ~damaged /\ verdict = "pending" /\ 0 \in 0 .. Retries
    BY <1>1, <1>2, <1>5, Constants DEF GameTypeOK, Auditing
  <2>3. QED
    BY <1>1, <1>2, <1>4, <1>5, <1>6, <2>1, <2>2 DEF GameTypeOK
<1>9. GreetInv'
  BY <1>5 DEF GreetInv, Greeting
<1>10. AskInv'
  <2>1. ASSUME Clear, session' # Unparsable
        PROVE  session'.posts = round' + faults' /\ UnderWay(session)'
    <3>1. Concluded(session', a)
      BY <1>7, <2>1
    <3>2. Completed(session')
      BY <1>1, <1>2, <3>1, TickCompleted
    <3>3. session'.posts = 0
      BY <3>1 DEF Concluded
    <3>4. Len(session'.states) = step' /\ Len(session'.actions) = step'
      BY <1>3, <3>2 DEF Completed
    <3>5. ThisTick(session, step, Present)'
      BY <1>5, <3>3, <3>4 DEF ThisTick
    <3>6. UnderWay(session)'
      BY <1>3, <1>4, <3>2, <3>5 DEF UnderWay, Completed
    <3>7. QED
      BY <1>2, <3>3, <3>6
  <2>2. QED
    BY <1>4, <2>1 DEF AskInv
<1>11. AttemptsInv' /\ ParseInv'
  <2>1. (phase' = "greet_cop" /\ session'.states # <<>>) = FALSE
    BY <1>5
  <2>2. AttemptsInv'
    BY <1>2, <1>4, <1>7, <2>1 DEF AttemptsInv
  <2>3. ParseInv'
    BY <1>4, <1>7 DEF ParseInv
  <2>4. QED
    BY <2>2, <2>3
<1>12. AuditInv' /\ DamageCaught' /\ HonestVerdict'
  <2>1. ~damaged'
    BY <1>1, <1>2, <1>5 DEF GameTypeOK
  <2>2. QED
    BY <1>5, <2>1 DEF AuditInv, DamageCaught, HonestVerdict
<1>13. QED
  BY <1>3, <1>8, <1>9, <1>10, <1>11, <1>12 DEF GameInv, EnvInv

(* The last tick writes the record. *)
LEMMA LastTickStep ==
    ASSUME GameInv, SameRadius, NEW a, ThiefAnswers(a), winner' # "none"
    PROVE  GameInv'
<1>1. IInv /\ GameTypeOK /\ AskInv /\ AttemptsInv /\ ParseInv
  BY DEF GameInv, EnvInv, ThiefAnswers
<1>2. /\ phase = "ask_thief" /\ phase' = "recorded" /\ a \in Moves /\ copAct' = "UP"
      /\ session' = ParseResult(Answered(Logged(a)), Seed)
      /\ record' = [seed |-> Seed, winner |-> winner', moves |-> step + 1,
                    scores |-> Scores(winner')]
      /\ odd' = odd \union Oddities(a, FALSE)
      /\ Step([c \in Cops |-> copAct], a) /\ round' = 0 /\ try' = 0 /\ faults' = 0
      /\ UNCHANGED <<voids, started, damaged, verdict>>
  BY DEF ThiefAnswers, Alphabet, NewCall
<1>3. IInv' /\ step \in Nat /\ step' = step + 1 /\ winner' \in Roles
  <2>1. copAct \in CopActions
    BY <1>1 DEF GameTypeOK
  <2>2. IInv'
    BY <1>1, <1>2, <2>1, StepIsAfter
  <2>3. QED
    BY <1>1, <1>2, <2>2 DEF Step, IInv, TypeOK, Roles
<1>4. (Clear' <=> Clear) /\ Seed' = Seed
  BY <1>2 DEF Clear, Seed
<1>5. /\ phase \in Asking /\ phase' \notin Asking /\ phase # "aborted" /\ phase' # "aborted"
      /\ phase \notin Auditing /\ phase' \in Auditing /\ phase' \notin Greeting
      /\ phase' # "greet_cop" /\ phase' # "judged" /\ phase' # "replay"
  BY <1>2 DEF Asking, Greeting, Auditing
<1>6. a \in CopActions /\ "UP" \in CopActions
  BY <1>2 DEF CopActions, Moves
<1>7. Seed \in DOMAIN Layouts /\ Seed \in Nat
  BY <1>1, <1>5, Constants DEF GameTypeOK
<1>8. ASSUME Clear
      PROVE  /\ session' = Unparsable <=> odd' \intersect Unread # {}
             /\ session' # Unparsable =>
                   /\ session' \in Sessions /\ session'.seed = Seed
                   /\ Completed(session') /\ Tally(session', FALSE, started, odd')
  <2>1. PICK q : q = Answered(Logged(a))
    OBVIOUS
  <2>2. /\ q = Unparsable <=> odd' \intersect Unread # {}
        /\ q # Unparsable => Concluded(q, a) /\ Tally(q, FALSE, started, odd')
    BY <1>1, <1>2, <1>5, <1>6, <1>8, <2>1, AnswerParsed
  <2>3. CASE q = Unparsable
    <3>1. session' = Unparsable
      BY <1>2, <2>1, <2>3 DEF ParseResult
    <3>2. QED
      BY <2>2, <2>3, <3>1
  <2>4. CASE q # Unparsable
    <3>1. Completed(q) /\ q \in Sessions
      BY <1>1, <1>2, <2>2, <2>4, TickCompleted DEF Concluded
    <3>2. session' \in Sessions /\ session'.seed = Seed /\ SameLog(session', q)
      BY <1>2, <1>7, <2>1, <3>1, AnsweredIs
    <3>3. Completed(session')
      BY <3>1, <3>2 DEF Completed, SameLog
    <3>4. Tally(session', FALSE, started, odd')
      BY <2>2, <2>4, <3>2 DEF Tally, SameLog, ShortAttempt
    <3>5. session' # Unparsable
      BY <3>2, Blanks
    <3>6. QED
      BY <2>2, <2>4, <3>2, <3>3, <3>4, <3>5
  <2>5. QED
    BY <2>3, <2>4
<1>9. record'.seed = Seed /\ record'.winner = winner' /\ record'.moves = step + 1
      /\ record'.scores = Points[winner'] /\ record' \in Records
  <2>1. step + 1 \in Nat /\ Points[winner'] \in [Roles -> Nat]
    BY <1>3, GameAssumption
  <2>2. QED
    BY <1>2, <1>3, <1>7, <2>1 DEF Records, Scores
<1>10. ~damaged /\ verdict = "pending"
  BY <1>1, <1>2, <1>5 DEF GameTypeOK
<1>11. GameTypeOK'
  <2>1. Clear => session' \in Sessions \union {Unparsable}
    BY <1>8
  <2>2. 0 \in 0 .. Retries
    BY Constants
  <2>3. QED
    BY <1>1, <1>2, <1>4, <1>5, <1>6, <1>7, <1>9, <1>10, <2>1, <2>2 DEF GameTypeOK
<1>12. GreetInv' /\ AskInv'
  BY <1>5 DEF GreetInv, Greeting, AskInv
<1>13. AttemptsInv' /\ ParseInv'
  <2>1. (phase' = "greet_cop" /\ session'.states # <<>>) = FALSE
    BY <1>5
  <2>2. AttemptsInv'
    BY <1>2, <1>4, <1>8, <2>1 DEF AttemptsInv
  <2>3. ParseInv'
    BY <1>4, <1>8 DEF ParseInv
  <2>4. QED
    BY <2>2, <2>3
<1>14. AuditInv'
  <2>1. ASSUME Clear, session' # Unparsable
        PROVE  /\ session'.spawns = Layouts[Seed] /\ session'.seed = Seed
               /\ Len(session'.states) = Len(session'.actions) /\ Audited(Len(session.actions))'
    <3>1. Completed(session') /\ session'.seed = Seed
      BY <1>8, <2>1
    <3>2. PICK run \in [Nat -> Boards] :
             /\ Along(run, Seed, session'.actions, step + 1) /\ run[step + 1] = Present'
             /\ Tells(session'.states, run, step + 1)
      BY <3>1 DEF Completed
    <3>3. run[step + 1].winner = winner'
      BY <3>2 DEF Present
    <3>4. Len(session'.actions) = step + 1
      BY <3>1 DEF Completed
    <3>5. Audited(Len(session.actions))'
      BY <1>2, <1>4, <1>5, <1>9, <1>10, <3>2, <3>3, <3>4 DEF Audited
    <3>6. QED
      BY <3>1, <3>5 DEF Completed
  <2>2. QED
    BY <1>2, <1>4, <1>5, <1>9, <2>1 DEF AuditInv
<1>15. DamageCaught' /\ HonestVerdict'
  BY <1>2, <1>5, <1>10 DEF DamageCaught, HonestVerdict
<1>16. QED
  BY <1>3, <1>11, <1>12, <1>13, <1>14, <1>15 DEF GameInv, EnvInv

(* The thief's answer. *)
LEMMA ThiefAnswersStep ==
    ASSUME GameInv, SameRadius, NEW a, ThiefAnswers(a)
    PROVE  GameInv'
BY TickOnStep, LastTickStep
-----------------------------------------------------------------------------
(* A step of the audit leaves what was known of the match.                  *)
LEMMA AuditKeeps ==
    ASSUME GameInv, phase \in Auditing, phase' \in Auditing, Fixed,
           phase' # "judged" => verdict' = verdict /\ phase # "judged"
    PROVE  GameTypeOK' /\ GreetInv' /\ AskInv' /\ AttemptsInv' /\ ParseInv'
<1>1. GameTypeOK /\ AttemptsInv /\ ParseInv
  BY DEF GameInv
<1>2. UNCHANGED <<voids, started, round, try, faults, copAct, session, record, odd, damaged>>
  BY DEF Fixed
<1>3. (Clear' <=> Clear) /\ Seed' = Seed
  BY <1>2 DEF Clear, Seed
<1>4. /\ phase # "aborted" /\ phase' # "aborted" /\ phase' \notin Greeting
      /\ phase' \notin Asking /\ phase # "greet_cop" /\ phase' # "greet_cop"
  BY DEF Auditing, Greeting, Asking
<1>5. GameTypeOK'
  BY <1>1, <1>2, <1>3, <1>4 DEF GameTypeOK
<1>6. GreetInv' /\ AskInv'
  BY <1>4 DEF GreetInv, Greeting, AskInv
<1>7. AttemptsInv'
  BY <1>1, <1>2, <1>3, <1>4 DEF AttemptsInv, Tally, ShortAttempt
<1>8. ParseInv'
  BY <1>1, <1>2, <1>3, <1>4 DEF ParseInv
<1>9. QED
  BY <1>5, <1>6, <1>7, <1>8

(* What verify_void_attempts makes of sound attempts: it refuses a short one*)
LEMMA AttemptsJudged ==
    ASSUME NEW s \in Sessions,
           \A m \in 1 .. Len(s.attempts) : SoundRun(s.attempts[m].spawns, s.attempts[m].opening)
    PROVE  VoidsVerified(s) <=> ~ShortAttempt(s)
<1>1. DOMAIN s.attempts = 1 .. Len(s.attempts)
  BY DEF Sessions
<1>2. "cop" \in Roles /\ "thief" \in Roles
  BY DEF Roles
<1>3. ASSUME NEW i \in DOMAIN Layouts PROVE Told(Opened(i), "thief") # NoPayload
  <2>1. Opened(i) \in Boards
    BY Constants DEF Opened, Boards, Roles
  <2>2. QED
    BY <1>2, <2>1, ToldTyped
<1>4. ASSUME VoidsVerified(s), NEW m \in 1 .. Len(s.attempts)
      PROVE  s.attempts[m].opening["thief"] # NoPayload
  <2>1. PICK v : v = s.attempts[m]
    OBVIOUS
  <2>2. PICK i \in DOMAIN Layouts :
           /\ v.spawns = Layouts[i]
           /\ \A r \in Roles : v.opening[r] = OpeningPayload(v.spawns, r, Radius)
    BY <1>1, <1>4, <2>1 DEF VoidsVerified, SpawnsOf
  <2>3. v.opening["thief"] = Told(Opened(i), "thief")
    BY <1>2, <2>2, PresentTold
  <2>4. QED
    BY <1>3, <2>1, <2>3
<1>5. ASSUME ~ShortAttempt(s), NEW m \in 1 .. Len(s.attempts)
      PROVE  \E i \in DOMAIN Layouts :
                /\ s.attempts[m].spawns = SpawnsOf(i)
                /\ \A r \in Roles :
                      s.attempts[m].opening[r] = OpeningPayload(s.attempts[m].spawns, r, Radius)
  <2>1. PICK v : v = s.attempts[m]
    OBVIOUS
  <2>2. v.opening["thief"] # NoPayload /\ SoundRun(v.spawns, v.opening)
    BY <1>5, <2>1 DEF ShortAttempt
  <2>3. PICK i \in DOMAIN Layouts :
           /\ v.spawns = Layouts[i] /\ v.opening["cop"] = Told(Opened(i), "cop")
           /\ v.opening["thief"] = Told(Opened(i), "thief")
    BY <2>2 DEF SoundRun
  <2>4. \A r \in Roles : v.opening[r] = Told(Opened(i), r)
    BY <2>3 DEF Roles
  <2>5. \A r \in Roles : v.opening[r] = OpeningPayload(v.spawns, r, Radius)
    BY <2>3, <2>4, PresentTold
  <2>6. QED
    BY <2>1, <2>3, <2>5 DEF SpawnsOf
<1>6. QED
  BY <1>1, <1>4, <1>5 DEF VoidsVerified, ShortAttempt

(* What the checks before the first tick make of an undamaged log.          *)
LEMMA HonestComplaint ==
    ASSUME GameInv, CopTellsThief, ~damaged, phase = "recorded"
    PROVE  Complaint(session) = IF odd \intersect Unread # {} THEN "parse"
                                ELSE IF "short_void" \in odd THEN "voids" ELSE "none"
<1>1. Clear /\ phase \in Auditing /\ phase # "aborted"
  BY DEF Clear, Auditing
<1>2. session = Unparsable <=> odd \intersect Unread # {}
  BY <1>1 DEF GameInv, ParseInv
<1>3. CASE session = Unparsable
  BY <1>2, <1>3 DEF Complaint
<1>4. CASE session # Unparsable
  <2>1. PICK s \in Sessions : s = session
    BY <1>1, <1>4 DEF GameInv, GameTypeOK
  <2>2. /\ ScoresVerified /\ s.spawns = SpawnsOf(s.seed) /\ s.seed = Seed
        /\ Audited(Len(s.actions))
    BY <1>1, <1>4, <2>1 DEF GameInv, AuditInv, ScoresVerified, SpawnsOf
  <2>3. Tally(s, FALSE, started, odd)
    <3>1. (phase = "greet_cop" /\ session.states # <<>>) = FALSE
      OBVIOUS
    <3>2. QED
      BY <1>1, <1>4, <2>1, <3>1 DEF GameInv, AttemptsInv
  <2>4. VoidsVerified(s) <=> "short_void" \notin odd
    BY <2>3, AttemptsJudged DEF Tally
  <2>5. VoidsWithinCap(s)
    <3>1. Len(s.attempts) \in Nat /\ Len(s.attempts) = started /\ started <= voids /\ voids \in Nat
      <4>1. Len(s.attempts) + 0 = started /\ Len(s.attempts) \in Nat
        BY <2>3 DEF Tally, Sessions
      <4>2. QED
        BY <4>1 DEF GameInv, GameTypeOK
    <3>2. voids <= MaxVoids * (Seed - 1) + (MaxVoids - 1)
      BY <3>1, SeedOfVoids DEF Seed
    <3>3. PICK m : m = MaxVoids * (Seed - 1) + (MaxVoids - 1)
      OBVIOUS
    <3>4. m \in Int
      <4>1. Seed - 1 \in Nat /\ MaxVoids \in Nat
        <5>1. PICK i : i = Seed
          OBVIOUS
        <5>2. i \in Nat /\ i >= 1
          BY <3>1, <5>1, SeedOfVoids DEF Seed
        <5>3. i - 1 \in Nat
          BY <5>2
        <5>4. QED
          BY <5>1, <5>3, Constants
      <4>2. PICK a, b \in Nat : a = MaxVoids /\ b = Seed - 1
        BY <4>1
      <4>3. a * b + (a - 1) \in Int
        OBVIOUS
      <4>4. QED
        BY <3>3, <4>2, <4>3
    <3>5. Len(s.attempts) <= m
      BY <3>1, <3>2, <3>3, <3>4
    <3>6. QED
      BY <2>2, <3>3, <3>5 DEF VoidsWithinCap
  <2>6. ActionsComplete(s)
    <3>1. DOMAIN s.actions = 1 .. Len(s.actions)
      BY DEF Sessions
    <3>2. \A k \in 1 .. Len(s.actions) : \A r \in Roles : s.actions[k][r] \in Alphabet(r)
      BY <2>1, <2>2 DEF Audited, Along
    <3>3. \A r \in Roles : Alphabet(r) \subseteq CopActions
      BY DEF Alphabet, CopActions
    <3>4. QED
      BY <3>1, <3>2, <3>3, Blanks DEF ActionsComplete
  <2>7. odd \intersect Unread = {}
    BY <1>2, <1>4
  <2>8. CASE "short_void" \in odd
    BY <1>4, <2>1, <2>2, <2>4, <2>7, <2>8 DEF Complaint
  <2>9. CASE "short_void" \notin odd
    BY <1>4, <2>1, <2>2, <2>4, <2>5, <2>6, <2>7, <2>9 DEF Complaint
  <2>10. QED
    BY <2>8, <2>9
<1>5. QED
  BY <1>3, <1>4

(* The artefacts damaged: a log or a record that differs from the run.      *)
LEMMA DamageStep == ASSUME GameInv, Damage PROVE GameInv'
<1>1. EnvInv /\ GameTypeOK /\ AttemptsInv /\ ParseInv /\ AuditInv
  BY DEF GameInv
<1>2. /\ phase = "recorded" /\ phase' = phase /\ ~damaged /\ damaged' = TRUE /\ odd = {}
      /\ voids = 0
      /\ DamageRecord \/ \E t \in 1 .. record.moves, r \in Roles : DamagePayload(t, r)
      /\ UNCHANGED <<vars, voids, started, round, try, faults, copAct, odd, verdict>>
  BY DEF Damage
<1>3. Clear /\ Clear' /\ Seed' = Seed
  BY <1>2 DEF Clear, Seed
<1>4. /\ phase \in Auditing /\ phase' \in Auditing /\ phase # "aborted" /\ phase' # "aborted"
      /\ phase' \notin Greeting /\ phase' \notin Asking /\ phase' # "replay"
      /\ phase' # "greet_cop" /\ phase' # "judged"
  BY <1>2 DEF Auditing, Greeting, Asking
<1>5. EnvInv'
  BY <1>1, <1>2, EnvironmentKept DEF EnvInv
<1>6. session \in Sessions
  <2>1. session # Unparsable
    BY <1>1, <1>2, <1>3, <1>4 DEF ParseInv
  <2>2. QED
    BY <1>1, <1>3, <2>1 DEF GameTypeOK
<1>7. PICK s \in Sessions, n \in Nat, run \in [Nat -> Boards] :
         /\ s = session /\ s.spawns = Layouts[Seed] /\ s.seed = Seed
         /\ n = Len(s.actions) /\ Len(s.states) = n
         /\ Along(run, Seed, s.actions, n) /\ run[n].winner # "none"
         /\ Tells(s.states, run, n) /\ record.winner = run[n].winner /\ record.moves = n
  <2>1. session # Unparsable /\ Len(session.actions) \in Nat
    BY <1>6, Blanks DEF Sessions
  <2>2. Audited(Len(session.actions))
    BY <1>1, <1>3, <1>4, <2>1 DEF AuditInv
  <2>3. QED
    BY <1>1, <1>2, <1>3, <1>4, <1>6, <2>1, <2>2 DEF AuditInv, Audited
<1>8. PICK q \in Sessions :
         /\ q = session' /\ q.spawns = s.spawns /\ q.seed = s.seed /\ q.actions = s.actions
         /\ q.attempts = s.attempts /\ Len(q.states) = n
         /\ record' \in Records /\ record'.seed = record.seed
         /\ \/ record'.winner # record.winner
            \/ record'.moves # record.moves
            \/ \E k \in 1 .. n : \E r \in Roles : q.states[k][r] # s.states[k][r]
  <2>1. PICK d \in Records : d = record
    BY <1>1, <1>4 DEF GameTypeOK
  <2>2. CASE DamageRecord
    <3>1. PICK e : e = record'
      OBVIOUS
    <3>2. /\ session' = session
          /\ \/ e = [d EXCEPT !.winner = Other(d.winner)]
             \/ e = [d EXCEPT !.moves = d.moves + 1]
             \/ e = [d EXCEPT !.winner = Other(d.winner), !.scores = Scores(Other(d.winner))]
      BY <2>1, <2>2, <3>1 DEF DamageRecord, Records
    <3>3. /\ Other(d.winner) \in Roles /\ Other(d.winner) # d.winner /\ d.moves + 1 \in Nat
          /\ d.moves + 1 # d.moves
      BY DEF Records, Roles, Other
    <3>4. Scores(Other(d.winner)) \in [Roles -> Nat]
      BY <3>3, GameAssumption DEF Scores
    <3>5. /\ e \in Records /\ e.seed = d.seed
          /\ e.winner # d.winner \/ e.moves # d.moves
      BY <3>2, <3>3, <3>4 DEF Records
    <3>6. QED
      BY <1>7, <2>1, <3>1, <3>2, <3>5
  <2>3. ASSUME NEW t \in 1 .. record.moves, NEW r \in Roles, DamagePayload(t, r)
        PROVE  /\ session' \in Sessions /\ record' = record
               /\ session'.spawns = s.spawns /\ session'.seed = s.seed
               /\ session'.actions = s.actions /\ session'.attempts = s.attempts
               /\ Len(session'.states) = n /\ session'.states[t][r] # s.states[t][r]
    <3>1. t \in 1 .. n
      BY <1>7
    <3>2. PICK p : p = s.states[t][r]
      OBVIOUS
    <3>3. PICK b \in Boards : p = Told(b, r) /\ b = run[t - 1]
      <4>1. t - 1 \in Nat /\ p = Told(run[t - 1], r)
        BY <1>7, <3>1, <3>2 DEF Tells
      <4>2. QED
        BY <1>7, <4>1
    <3>4. PICK o \in OtherPayloads(p) : session' = [s EXCEPT !.states[t][r] = o]
      BY <1>7, <2>3, <3>2 DEF DamagePayload
    <3>5. o \in Payloads
      <4>1. p \in Payloads /\ p # NoPayload
        BY <3>3, ToldTyped
      <4>2. p.barriers \in SUBSET Board /\ p.your_pos \in Board /\ p.barriers_left \in Int
        BY <4>1 DEF Payloads
      <4>3. o \in [your_pos : Board, opponent_pos : Board \union {NoCell},
                   barriers : {p.barriers, p.barriers \union {p.your_pos}},
                   barriers_left : {p.barriers_left, p.barriers_left + 1}]
        BY DEF OtherPayloads
      <4>4. p.barriers_left + 1 \in Int /\ p.barriers \union {p.your_pos} \in SUBSET Board
        BY <4>2
      <4>5. o \in [your_pos : Board, opponent_pos : Board \union {NoCell},
                   barriers : SUBSET Board, barriers_left : Int]
        BY <4>2, <4>3, <4>4
      <4>6. QED
        BY <4>5 DEF Payloads
    <3>6. o # p
      <4>1. ASSUME o = p PROVE FALSE
        <5>1. {f \in DOMAIN p : p[f] # o[f]} = {}
          BY <4>1
        <5>2. Cardinality({f \in DOMAIN p : p[f] # o[f]}) = 0
          BY <5>1, FS_EmptySet
        <5>3. Cardinality({f \in DOMAIN p : p[f] # o[f]}) = 1
          BY DEF OtherPayloads
        <5>4. QED
          BY <5>2, <5>3
      <4>2. QED
        BY <4>1
    <3>7. PICK l \in Seq([Roles -> Payloads]) :
             l = [s.states EXCEPT ![t][r] = o] /\ Len(l) = n /\ l[t][r] = o
      <4>1. PICK old \in Seq([Roles -> Payloads]) : old = s.states /\ Len(old) = n
        BY <1>7 DEF Sessions
      <4>2. t \in 1 .. Len(old) /\ old[t] \in [Roles -> Payloads]
        BY <3>1, <4>1
      <4>3. PICK e \in [Roles -> Payloads] : e = [old[t] EXCEPT ![r] = o] /\ e[r] = o
        <5>1. PICK f \in [Roles -> Payloads] : f = old[t]
          BY <4>2
        <5>2. [f EXCEPT ![r] = o] \in [Roles -> Payloads] /\ [f EXCEPT ![r] = o][r] = o
          BY <3>5
        <5>3. QED
          BY <5>1, <5>2
      <4>4. [old EXCEPT ![t][r] = o] = [old EXCEPT ![t] = e]
        BY <4>3
      <4>5. /\ [old EXCEPT ![t] = e] \in Seq([Roles -> Payloads])
            /\ Len([old EXCEPT ![t] = e]) = n /\ [old EXCEPT ![t] = e][t] = e
        BY <4>1, <4>2
      <4>6. QED
        BY <4>1, <4>3, <4>4, <4>5
    <3>8. session' = [s EXCEPT !.states = l]
      BY <3>4, <3>7
    <3>9. [s EXCEPT !.states = l] \in Sessions
      BY DEF Sessions
    <3>10. LET x == [s EXCEPT !.states = l]
           IN  /\ x.spawns = s.spawns /\ x.seed = s.seed /\ x.actions = s.actions
               /\ x.attempts = s.attempts /\ x.states = l
      BY DEF Sessions
    <3>11. record' = record
      BY <2>3 DEF DamagePayload
    <3>12. QED
      BY <3>2, <3>6, <3>7, <3>8, <3>9, <3>10, <3>11
  <2>4. CASE \E t \in 1 .. record.moves, r \in Roles : DamagePayload(t, r)
    <3>1. PICK t \in 1 .. record.moves, r \in Roles : DamagePayload(t, r)
      BY <2>4
    <3>2. t \in 1 .. n
      BY <1>7
    <3>3. QED
      BY <2>1, <2>3, <3>1, <3>2
  <2>5. QED
    BY <1>2, <2>2, <2>4
<1>9. session' # Unparsable /\ session # Unparsable
  BY <1>7, <1>8, Blanks
<1>10. GameTypeOK'
  <2>1. verdict = "pending"
    BY <1>1, <1>2 DEF GameTypeOK
  <2>2. QED
    BY <1>1, <1>2, <1>3, <1>4, <1>8, <2>1 DEF GameTypeOK
<1>11. GreetInv' /\ AskInv'
  BY <1>4 DEF GreetInv, AskInv
<1>12. AttemptsInv' /\ ParseInv'
  <2>1. Tally(session, FALSE, started, odd)
    <3>1. (phase = "greet_cop" /\ session.states # <<>>) = FALSE
      BY <1>2
    <3>2. QED
      BY <1>1, <1>3, <1>4, <1>9, <3>1 DEF AttemptsInv
  <2>2. Tally(session', FALSE, started, odd)
    BY <1>7, <1>8, <2>1 DEF Tally, ShortAttempt
  <2>3. (phase' = "greet_cop" /\ session'.states # <<>>) = FALSE
    BY <1>4
  <2>4. AttemptsInv'
    BY <1>2, <2>2, <2>3 DEF AttemptsInv
  <2>5. ParseInv'
    BY <1>1, <1>2, <1>3, <1>4, <1>9 DEF ParseInv
  <2>6. QED
    BY <2>4, <2>5
<1>13. AuditInv'
  <2>1. Differs(run, n)'
    <3>1. CASE record'.winner # record.winner \/ record'.moves # record.moves
      BY <1>7, <3>1 DEF Differs
    <3>2. CASE \E k \in 1 .. n : \E r \in Roles : q.states[k][r] # s.states[k][r]
      <4>1. PICK k \in 1 .. n, r \in Roles : q.states[k][r] # s.states[k][r]
        BY <3>2
      <4>2. session'.states[k][r] # Told(run[k - 1], r)
        BY <1>7, <1>8, <4>1 DEF Tells
      <4>3. QED
        BY <4>2 DEF Differs
    <3>3. QED
      BY <1>8, <3>1, <3>2
  <2>2. Along(run, Seed, session'.actions, n)
    BY <1>7, <1>8
  <2>3. Len(session'.actions) = n /\ Len(session'.states) = n
    BY <1>7, <1>8
  <2>4. Audited(n)'
    BY <1>2, <1>3, <1>4, <1>7, <2>1, <2>2 DEF Audited
  <2>5. QED
    BY <1>2, <1>3, <1>4, <1>7, <1>8, <2>3, <2>4 DEF AuditInv
<1>14. DamageCaught' /\ HonestVerdict'
  <2>1. verdict = "pending"
    BY <1>1, <1>2 DEF GameTypeOK
  <2>2. QED
    BY <1>2, <1>4, <2>1 DEF DamageCaught, HonestVerdict
<1>15. QED
  BY <1>5, <1>10, <1>11, <1>12, <1>13, <1>14 DEF GameInv

(* The checks before the first tick, and the environment reset to the seed. *)
LEMMA OpenReplayStep == ASSUME GameInv, OpenReplay PROVE GameInv'
<1>1. EnvInv /\ GameTypeOK /\ AuditInv
  BY DEF GameInv
<1>2. phase = "recorded" /\ Fixed /\ phase \in Auditing /\ phase # "judged"
  BY DEF OpenReplay, Auditing
<1>3. UNCHANGED <<voids, started, round, try, faults, copAct, session, record, odd, damaged>>
  BY <1>2 DEF Fixed
<1>4. \/ /\ Complaint(session) = "none" /\ phase' = "replay" /\ ResetTo(session.seed)
         /\ verdict' = verdict
      \/ /\ Complaint(session) # "none" /\ phase' = "judged" /\ verdict' = Complaint(session)
         /\ UNCHANGED vars
  BY DEF OpenReplay
<1>5. (Clear' <=> Clear) /\ Seed' = Seed /\ phase' \in Auditing
  BY <1>3, <1>4 DEF Clear, Seed, Auditing
<1>6. GameTypeOK' /\ GreetInv' /\ AskInv' /\ AttemptsInv' /\ ParseInv'
  BY <1>2, <1>4, <1>5, AuditKeeps
<1>7. (CopTellsThief /\ ~damaged) =>
         Complaint(session) = IF odd \intersect Unread # {} THEN "parse"
                              ELSE IF "short_void" \in odd THEN "voids" ELSE "none"
  BY <1>2, HonestComplaint
<1>8. session # Unparsable \/ Complaint(session) = "parse"
  BY DEF Complaint
<1>9. CASE Complaint(session) = "none"
  <2>1. phase' = "replay" /\ ResetTo(session.seed) /\ verdict' = verdict /\ session # Unparsable
    BY <1>4, <1>8, <1>9
  <2>2. ASSUME Clear
        PROVE  /\ session.spawns = Layouts[Seed] /\ session.seed = Seed
               /\ Len(session.states) = Len(session.actions) /\ Audited(Len(session.actions))
               /\ Seed \in DOMAIN Layouts /\ Len(session.actions) \in Nat
    BY <1>1, <1>2, <2>1, <2>2 DEF AuditInv, GameTypeOK, Sessions, Auditing
  <2>3. ASSUME Clear PROVE IInv' /\ Present' = Opened(Seed) /\ step' = 0
    <3>1. PICK i \in DOMAIN Layouts : i = Seed
      BY <2>2, <2>3
    <3>2. IInv /\ ResetTo(i)
      BY <1>1, <1>2, <2>1, <2>2, <2>3, <3>1 DEF EnvInv
    <3>3. IInv' /\ Present' = Opened(i)
      BY <3>2, ResetOpens
    <3>4. QED
      BY <3>1, <3>2, <3>3 DEF ResetTo, Reset
  <2>4. EnvInv'
    BY <1>5, <2>1, <2>3 DEF EnvInv
  <2>5. ASSUME Clear PROVE Audited(Len(session.actions))'
    <3>1. PICK n \in Nat : n = Len(session.actions)
      BY <2>2, <2>5
    <3>2. PICK run \in [Nat -> Boards] :
             /\ Along(run, Seed, session.actions, n) /\ run[n].winner # "none"
             /\ ~damaged =>
                   Tells(session.states, run, n) /\ record.winner = run[n].winner /\ record.moves = n
             /\ damaged => Differs(run, n)
      BY <2>2, <2>5, <3>1 DEF Audited
    <3>3. step' <= n /\ Present' = run[step'] /\ Tells(session.states, run, step')
      BY <2>3, <2>5, <3>2 DEF Along, Tells
    <3>4. Differs(run, n)' <=> Differs(run, n)
      BY <1>3 DEF Differs
    <3>5. Audited(n)'
      BY <1>3, <1>5, <3>2, <3>3, <3>4 DEF Audited
    <3>6. QED
      BY <1>3, <3>1, <3>5
  <2>6. CopTellsThief /\ ~damaged => "short_void" \notin odd
    BY <1>7, <1>9
  <2>7. AuditInv'
    BY <1>1, <1>2, <1>3, <1>5, <2>1, <2>2, <2>5, <2>6 DEF AuditInv
  <2>8. DamageCaught' /\ HonestVerdict'
    <3>1. verdict' = "pending"
      BY <1>1, <1>2, <2>1 DEF GameTypeOK
    <3>2. QED
      BY <2>1, <3>1 DEF DamageCaught, HonestVerdict
  <2>9. QED
    BY <1>6, <2>4, <2>7, <2>8 DEF GameInv
<1>10. CASE Complaint(session) # "none"
  <2>1. phase' = "judged" /\ verdict' = Complaint(session) /\ UNCHANGED vars
    BY <1>4, <1>10
  <2>2. EnvInv'
    BY <1>1, <1>2, <2>1, EnvironmentKept DEF EnvInv
  <2>3. AuditInv'
    <3>1. ASSUME Clear, session # Unparsable PROVE Audited(Len(session.actions))'
      <4>1. PICK n : n = Len(session.actions)
        OBVIOUS
      <4>2. PICK run \in [Nat -> Boards] :
               /\ Along(run, Seed, session.actions, n) /\ run[n].winner # "none"
               /\ ~damaged =>
                     Tells(session.states, run, n) /\ record.winner = run[n].winner /\ record.moves = n
               /\ damaged => Differs(run, n)
        BY <1>1, <1>2, <3>1, <4>1 DEF AuditInv, Audited
      <4>3. Differs(run, n)' <=> Differs(run, n)
        BY <1>3 DEF Differs
      <4>4. phase' # "replay"
        BY <2>1
      <4>5. Audited(n)'
        BY <1>3, <1>5, <4>2, <4>3, <4>4 DEF Audited
      <4>6. QED
        BY <1>3, <4>1, <4>5
    <3>2. QED
      BY <1>1, <1>2, <1>3, <1>5, <2>1, <3>1 DEF AuditInv
  <2>4. Complaint(session) # "verified"
    BY DEF Complaint
  <2>5. DamageCaught'
    BY <2>1, <2>4 DEF DamageCaught
  <2>6. ASSUME CopTellsThief PROVE HonestVerdict'
    BY <1>3, <1>7, <1>10, <2>1, <2>6 DEF HonestVerdict, Unread
  <2>7. QED
    BY <1>6, <2>2, <2>3, <2>5, <2>6 DEF GameInv
<1>11. QED
  BY <1>9, <1>10

(* One tick of the replay: the environment is where the run was. *)
LEMMA ReplayTickStep == ASSUME GameInv, ReplayTick PROVE GameInv'
<1>1. EnvInv /\ GameTypeOK /\ AuditInv
  BY DEF GameInv
<1>2. phase = "replay" /\ Fixed /\ phase \in Auditing /\ phase # "judged" /\ step < Len(session.actions)
  BY DEF ReplayTick, Auditing
<1>3. UNCHANGED <<voids, started, round, try, faults, copAct, session, record, odd, damaged>>
  BY <1>2 DEF Fixed
<1> DEFINE pair == session.actions[step + 1]
           raised == IF winner # "none" THEN "past_terminal"
                     ELSE IF \E r \in Roles : pair[r] \notin Alphabet(r) THEN "illegal"
                     ELSE IF ~TickVerified THEN "tick" ELSE "none"
<1>4. \/ /\ raised = "none" /\ Step([c \in Cops |-> pair["cop"]], pair["thief"])
         /\ phase' = phase /\ verdict' = verdict
      \/ /\ raised # "none" /\ phase' = "judged" /\ verdict' = raised /\ UNCHANGED vars
  BY DEF ReplayTick
<1>5. raised # "verified" /\ (raised = "none" => TickVerified)
  OBVIOUS
<1>6. (Clear' <=> Clear) /\ Seed' = Seed /\ phase' \in Auditing
  BY <1>2, <1>3, <1>4 DEF Clear, Seed, Auditing
<1>7. GameTypeOK' /\ GreetInv' /\ AskInv' /\ AttemptsInv' /\ ParseInv'
  BY <1>2, <1>4, <1>6, AuditKeeps
<1>8. session # Unparsable /\ verdict = "pending"
  BY <1>1, <1>2 DEF AuditInv, GameTypeOK
<1>9. ASSUME Clear
      PROVE  \E n \in Nat, run \in [Nat -> Boards] :
                /\ IInv /\ step < n /\ step \in Nat /\ n = Len(session.actions)
                /\ Along(run, Seed, session.actions, n) /\ run[n].winner # "none"
                /\ ~damaged =>
                      Tells(session.states, run, n) /\ record.winner = run[n].winner /\ record.moves = n
                /\ damaged => Differs(run, n)
                /\ Present = run[step] /\ Tells(session.states, run, step)
  <2>1. session \in Sessions /\ Audited(Len(session.actions))
    BY <1>1, <1>2, <1>8, <1>9 DEF GameTypeOK, AuditInv
  <2>2. Len(session.actions) \in Nat
    BY <2>1 DEF Sessions
  <2>3. IInv /\ step \in Nat
    BY <1>1, <1>9 DEF EnvInv, IInv, TypeOK
  <2>4. QED
    BY <1>2, <2>1, <2>2, <2>3 DEF Audited
<1> HIDE DEF raised
<1>10. CASE raised = "none"
  <2>1. /\ Step([c \in Cops |-> pair["cop"]], pair["thief"]) /\ TickVerified
        /\ phase' = "replay" /\ verdict' = verdict
    BY <1>2, <1>4, <1>5, <1>10
  <2>2. ASSUME Clear PROVE IInv' /\ Audited(Len(session.actions))'
    <3>1. PICK n \in Nat, run \in [Nat -> Boards] :
             /\ IInv /\ step < n /\ step \in Nat /\ n = Len(session.actions)
             /\ Along(run, Seed, session.actions, n) /\ run[n].winner # "none"
             /\ ~damaged =>
                   Tells(session.states, run, n) /\ record.winner = run[n].winner /\ record.moves = n
             /\ damaged => Differs(run, n)
             /\ Present = run[step] /\ Tells(session.states, run, step)
      BY <1>9, <2>2
    <3>2. PICK k \in Nat : k = step /\ k + 1 \in 1 .. n /\ (k + 1) - 1 = k /\ k + 1 <= n
      BY <3>1
    <3>3. /\ run[k + 1] = After(run[k], pair["cop"], pair["thief"])
          /\ pair["cop"] \in CopActions /\ pair["thief"] \in Moves
      BY <3>1, <3>2 DEF Along, Roles, Alphabet
    <3>4. PICK a \in CopActions, m \in Moves : a = pair["cop"] /\ m = pair["thief"]
      BY <3>3
    <3>5. Step([c \in Cops |-> a], m)
      BY <2>1, <3>4
    <3>6. IInv' /\ Present' = After(Present, a, m) /\ step' = step + 1
      <4>1. IInv' /\ Present' = After(Present, a, m)
        BY <3>1, <3>5, StepIsAfter
      <4>2. QED
        BY <3>5, <4>1 DEF Step
    <3>7. Present' = run[k + 1] /\ step' = k + 1
      BY <3>1, <3>2, <3>3, <3>4, <3>6
    <3>8. Tells(session.states, run, k + 1)
      <4>1. \A r \in Roles : session.states[k + 1][r] = Told(run[k], r)
        BY <2>1, <3>1, <3>2, PresentTold DEF TickVerified
      <4>2. \A j \in 1 .. k : \A r \in Roles : session.states[j][r] = Told(run[j - 1], r)
        BY <3>1, <3>2 DEF Tells
      <4>3. \A j \in 1 .. k + 1 : j \in 1 .. k \/ j = k + 1
        OBVIOUS
      <4>4. \A j \in 1 .. k + 1 : \A r \in Roles : session.states[j][r] = Told(run[j - 1], r)
        BY <3>2, <4>1, <4>2, <4>3
      <4>5. QED
        BY <4>4 DEF Tells
    <3>9. Differs(run, n)' <=> Differs(run, n)
      BY <1>3 DEF Differs
    <3>10. Audited(n)'
      BY <1>3, <1>6, <3>1, <3>2, <3>7, <3>8, <3>9 DEF Audited
    <3>11. QED
      BY <1>3, <3>1, <3>6, <3>10
  <2>3. EnvInv'
    BY <1>6, <2>1, <2>2 DEF EnvInv
  <2>4. AuditInv'
    BY <1>1, <1>2, <1>3, <1>6, <2>1, <2>2 DEF AuditInv
  <2>5. DamageCaught' /\ HonestVerdict'
    BY <1>8, <2>1 DEF DamageCaught, HonestVerdict
  <2>6. QED
    BY <1>7, <2>3, <2>4, <2>5 DEF GameInv
<1>11. CASE raised # "none"
  <2>1. phase' = "judged" /\ verdict' = raised /\ UNCHANGED vars
    BY <1>4, <1>11
  <2>2. EnvInv'
    BY <1>1, <1>6, <2>1, EnvironmentKept DEF EnvInv
  <2>3. AuditInv'
    <3>1. ASSUME Clear PROVE Audited(Len(session.actions))'
      <4>1. PICK n \in Nat, run \in [Nat -> Boards] :
               /\ n = Len(session.actions)
               /\ Along(run, Seed, session.actions, n) /\ run[n].winner # "none"
               /\ ~damaged =>
                     Tells(session.states, run, n) /\ record.winner = run[n].winner /\ record.moves = n
               /\ damaged => Differs(run, n)
        BY <1>9, <3>1
      <4>2. Differs(run, n)' <=> Differs(run, n)
        BY <1>3 DEF Differs
      <4>3. phase' # "replay"
        BY <2>1
      <4>4. Audited(n)'
        BY <1>3, <1>6, <4>1, <4>2, <4>3 DEF Audited
      <4>5. QED
        BY <1>3, <4>1, <4>4
    <3>2. QED
      BY <1>1, <1>2, <1>3, <1>6, <2>1, <3>1 DEF AuditInv
  <2>4. DamageCaught'
    BY <1>5, <2>1 DEF DamageCaught
  <2>5. ASSUME CopTellsThief PROVE HonestVerdict'
    <3>1. ASSUME ~damaged PROVE FALSE
      <4>1. Clear
        BY <2>5 DEF Clear
      <4>2. PICK n \in Nat, run \in [Nat -> Boards] :
               /\ step < n /\ step \in Nat
               /\ Along(run, Seed, session.actions, n) /\ Tells(session.states, run, n)
               /\ Present = run[step]
        BY <1>9, <3>1, <4>1
      <4>3. PICK k \in Nat : k = step /\ k + 1 \in 1 .. n /\ (k + 1) - 1 = k
        BY <4>2
      <4>4. run[k].winner = "none" /\ \A r \in Roles : pair[r] \in Alphabet(r)
        BY <4>2, <4>3 DEF Along
      <4>5. winner = "none"
        BY <4>2, <4>3, <4>4 DEF Present
      <4>6. \A r \in Roles : session.states[k + 1][r] = Told(run[k], r)
        BY <4>2, <4>3 DEF Tells
      <4>7. TickVerified
        BY <4>2, <4>3, <4>6, PresentTold DEF TickVerified
      <4>8. QED
        BY <1>11, <4>4, <4>5, <4>7 DEF raised
    <3>2. QED
      BY <1>3, <3>1 DEF HonestVerdict
  <2>6. QED
    BY <1>7, <2>2, <2>3, <2>4, <2>5 DEF GameInv
<1>12. QED
  BY <1>10, <1>11

(* After the last tick: the outcome against the record, then the spares.    *)
LEMMA CloseReplayStep == ASSUME GameInv, CloseReplay PROVE GameInv'
<1>1. EnvInv /\ GameTypeOK /\ AuditInv
  BY DEF GameInv
<1>2. /\ phase = "replay" /\ step = Len(session.actions) /\ phase' = "judged"
      /\ Fixed /\ UNCHANGED vars /\ phase \in Auditing /\ phase' \in Auditing
  BY DEF CloseReplay, Auditing
<1>3. UNCHANGED <<voids, started, round, try, faults, copAct, session, record, odd, damaged>>
  BY <1>2 DEF Fixed
<1> DEFINE off == \/ winner = "none" \/ winner # record.winner \/ step # record.moves
                  \/ Scores(winner) # record.scores
<1>4. verdict' = IF off THEN "outcome" ELSE IF EscalationPaid(session) THEN "verified" ELSE "budget"
  BY DEF CloseReplay
<1> HIDE DEF off
<1>5. (Clear' <=> Clear) /\ Seed' = Seed
  BY <1>2, <1>3 DEF Clear, Seed
<1>6. GameTypeOK' /\ GreetInv' /\ AskInv' /\ AttemptsInv' /\ ParseInv'
  BY <1>2, AuditKeeps
<1>7. EnvInv'
  BY <1>1, <1>2, <1>5, EnvironmentKept DEF EnvInv
<1>8. session # Unparsable
  BY <1>1, <1>2 DEF AuditInv
<1>9. ASSUME Clear
      PROVE  \E run \in [Nat -> Boards] : LET n == Len(session.actions) IN
                /\ session \in Sessions /\ n \in Nat
                /\ session.spawns = Layouts[Seed] /\ session.seed = Seed
                /\ Along(run, Seed, session.actions, n) /\ run[n].winner # "none"
                /\ ~damaged =>
                      Tells(session.states, run, n) /\ record.winner = run[n].winner /\ record.moves = n
                /\ damaged => Differs(run, n)
                /\ Present = run[n] /\ Tells(session.states, run, n)
  <2>1. session \in Sessions /\ Audited(Len(session.actions))
    BY <1>1, <1>2, <1>8, <1>9 DEF GameTypeOK, AuditInv
  <2>2. Len(session.actions) \in Nat
    BY <2>1 DEF Sessions
  <2>3. session.spawns = Layouts[Seed] /\ session.seed = Seed
    BY <1>1, <1>2, <1>8, <1>9 DEF AuditInv
  <2>4. QED
    BY <1>2, <2>1, <2>2, <2>3 DEF Audited
<1>10. AuditInv'
  <2>1. ASSUME Clear PROVE Audited(Len(session.actions))'
    <3>1. PICK n \in Nat, run \in [Nat -> Boards] :
             /\ n = Len(session.actions)
             /\ Along(run, Seed, session.actions, n) /\ run[n].winner # "none"
             /\ ~damaged =>
                   Tells(session.states, run, n) /\ record.winner = run[n].winner /\ record.moves = n
             /\ damaged => Differs(run, n)
      BY <1>9, <2>1
    <3>2. Differs(run, n)' <=> Differs(run, n)
      BY <1>3 DEF Differs
    <3>3. phase' # "replay"
      BY <1>2
    <3>4. Audited(n)'
      BY <1>3, <1>5, <3>1, <3>2, <3>3 DEF Audited
    <3>5. QED
      BY <1>3, <3>1, <3>4
  <2>2. QED
    BY <1>1, <1>2, <1>3, <1>5, <2>1 DEF AuditInv
<1>11. DamageCaught'
  <2>1. ASSUME damaged PROVE off
    <3>1. Clear
      BY <1>1, <2>1 DEF GameTypeOK, Clear
    <3>2. PICK n \in Nat, run \in [Nat -> Boards] :
             /\ n = step /\ Differs(run, n) /\ Present = run[n] /\ Tells(session.states, run, n)
      BY <1>2, <1>9, <2>1, <3>1
    <3>3. record.winner # run[n].winner \/ record.moves # n
      BY <3>2 DEF Differs, Tells
    <3>4. winner = run[n].winner
      BY <3>2 DEF Present
    <3>5. QED
      BY <3>2, <3>3, <3>4 DEF off
  <2>2. QED
    BY <1>3, <1>4, <2>1 DEF DamageCaught
<1>12. ASSUME CopTellsThief PROVE HonestVerdict'
  <2>1. CASE damaged
    BY <1>3, <2>1 DEF HonestVerdict
  <2>2. CASE ~damaged
    <3>1. Clear
      BY <1>12 DEF Clear
    <3>2. PICK n \in Nat, run \in [Nat -> Boards], s \in Sessions :
             /\ n = step /\ s = session /\ s.seed = Seed /\ run[n].winner # "none"
             /\ record.winner = run[n].winner /\ record.moves = n /\ Present = run[n]
      BY <1>2, <1>9, <2>2, <3>1
    <3>3. record.scores = Points[record.winner] /\ record.seed = Seed
      BY <1>1, <1>2, <2>2 DEF AuditInv, GameTypeOK
    <3>4. ~off
      <4>1. winner = run[n].winner
        BY <3>2 DEF Present
      <4>2. QED
        BY <3>2, <3>3, <4>1 DEF off, Scores
    <3>5. odd \intersect {"surplus_post", "other_string"} = {}
      BY <1>2, <1>8, <3>1 DEF GameInv, ParseInv, Unread
    <3>6. "short_void" \notin odd
      BY <1>1, <1>2, <1>12, <2>2 DEF AuditInv
    <3>7. EscalationPaid(session) <=> ~(started < MaxVoids * (record.seed - 1))
      <4>1. Tally(s, FALSE, started, odd)
        <5>1. (phase = "greet_cop" /\ session.states # <<>>) = FALSE /\ phase # "aborted"
          BY <1>2
        <5>2. QED
          BY <1>8, <3>1, <3>2, <5>1 DEF GameInv, AttemptsInv
      <4>2. PICK l \in Nat : l = Len(s.attempts) /\ l = started
        <5>1. Len(s.attempts) \in Nat /\ Len(s.attempts) + 0 = started
          BY <4>1 DEF Tally, Sessions
        <5>2. QED
          BY <5>1
      <4>3. PICK m \in Int : m = MaxVoids * (Seed - 1)
        <5>1. Seed \in Nat /\ MaxVoids \in Nat
          BY <1>1, <1>2, Constants DEF GameTypeOK
        <5>2. PICK a, b \in Nat : a = MaxVoids /\ b = Seed
          BY <5>1
        <5>3. a * (b - 1) \in Int
          OBVIOUS
        <5>4. QED
          BY <5>2, <5>3
      <4>4. l >= m <=> ~(l < m)
        OBVIOUS
      <4>5. QED
        BY <3>2, <3>3, <4>2, <4>3, <4>4 DEF EscalationPaid
    <3>8. QED
      BY <1>3, <1>4, <2>2, <3>4, <3>5, <3>6, <3>7 DEF HonestVerdict
  <2>3. QED
    BY <2>1, <2>2
<1>13. QED
  BY <1>6, <1>7, <1>10, <1>11, <1>12 DEF GameInv
-----------------------------------------------------------------------------
(* A step that changes nothing. *)
LEMMA GameUnchanged == ASSUME GameInv, UNCHANGED allVars PROVE GameInv'
<1>1. /\ EnvInv /\ GameTypeOK /\ GreetInv /\ AskInv /\ AttemptsInv /\ ParseInv /\ AuditInv
      /\ DamageCaught /\ (CopTellsThief => HonestVerdict)
  BY DEF GameInv
<1>2. /\ UNCHANGED <<vars, phase, voids, started, round, try, faults, copAct>>
      /\ UNCHANGED <<session, record, odd, damaged, verdict>>
  BY DEF allVars, gameVars
<1>3. (Clear' <=> Clear) /\ Seed' = Seed /\ step' = step /\ winner' = winner
  BY <1>2 DEF Clear, Seed, vars
<1>4. EnvInv' /\ Present' = Present
  BY <1>1, <1>2, <1>3, EnvironmentKept DEF EnvInv, Present, vars
<1>5. GameTypeOK'
  BY <1>1, <1>2, <1>3 DEF GameTypeOK
<1>6. GreetInv'
  BY <1>1, <1>2, <1>3, <1>4 DEF GreetInv
<1>7. AskInv'
  BY <1>1, <1>2, <1>3, <1>4 DEF AskInv, UnderWay, ThisTick
<1>8. AttemptsInv' /\ ParseInv'
  BY <1>1, <1>2, <1>3 DEF AttemptsInv, ParseInv, Tally, ShortAttempt
<1>9. AuditInv'
  BY <1>1, <1>2, <1>3, <1>4 DEF AuditInv, Audited, Differs
<1>10. DamageCaught' /\ (CopTellsThief => HonestVerdict')
  BY <1>1, <1>2 DEF DamageCaught, HonestVerdict
<1>11. QED
  BY <1>4, <1>5, <1>6, <1>7, <1>8, <1>9, <1>10 DEF GameInv

(* The match begins with it. *)
LEMMA GameStart == GameInit => GameInv
<1> SUFFICES ASSUME GameInit PROVE GameInv
  OBVIOUS
<1>1. /\ Init /\ cops = [c \in Cops |-> Layouts[1]["cop"]] /\ thief = Layouts[1]["thief"]
      /\ phase = "greet_cop" /\ voids = 0 /\ started = 0 /\ round = 0 /\ try = 0 /\ faults = 0
      /\ copAct = "UP" /\ session = NewSession /\ odd = {} /\ damaged = FALSE
      /\ verdict = "pending"
  BY DEF GameInit
<1>2. IInv
  BY <1>1, StartSound
<1>3. Seed = 1 /\ 1 \in DOMAIN Layouts
  <2>1. SeedAfter(0) = 1
    BY SeedOfVoids
  <2>2. QED
    BY <1>1, <2>1, Constants DEF Seed
<1>4. Present = Opened(1)
  <2>1. cops[0] = Layouts[1]["cop"]
    BY <1>1, Constants
  <2>2. QED
    BY <1>1, <2>1 DEF Present, Opened, Init
<1>5. session \in Sessions /\ session # Unparsable /\ session.states = <<>>
      /\ session.attempts = <<>> /\ BetweenRuns(session)
  BY <1>1, NewSessionIs, Blanks DEF BetweenRuns, Waiting
<1>6. GameTypeOK
  <2>1. "UP" \in CopActions /\ 0 \in 0 .. Retries
    BY Constants DEF CopActions, Moves
  <2>2. 0 \in Nat /\ 0 <= 0 /\ FALSE \in BOOLEAN
    OBVIOUS
  <2>3. phase \in Greeting /\ phase \notin Auditing /\ phase # "judged"
    BY <1>1 DEF Greeting, Auditing
  <2>4. QED
    BY <1>1, <1>3, <1>5, <2>1, <2>2, <2>3 DEF GameTypeOK
<1>7. GreetInv
  BY <1>1, <1>3, <1>4, <1>5 DEF GreetInv
<1>8. AskInv /\ AuditInv /\ DamageCaught /\ HonestVerdict
  BY <1>1 DEF AskInv, Asking, AuditInv, Auditing, DamageCaught, HonestVerdict
<1>9. AttemptsInv
  <2>1. (phase = "greet_cop" /\ session.states # <<>>) = FALSE
    BY <1>5
  <2>2. Len(session.attempts) = 0 /\ \A m \in 1 .. 0 : FALSE
    BY <1>5
  <2>3. Tally(session, FALSE, started, odd)
    BY <1>1, <2>2 DEF Tally, ShortAttempt
  <2>4. QED
    BY <2>1, <2>3 DEF AttemptsInv
<1>10. ParseInv
  BY <1>1, <1>5 DEF ParseInv
<1>11. QED
  BY <1>2, <1>6, <1>7, <1>8, <1>9, <1>10 DEF GameInv, EnvInv

(* The log and the verifier keep to the run that was played, whatever the   *)
(* partners do and however often the sub-game is voided.                    *)
THEOREM GameInvariance == ASSUME SameRadius PROVE GameSpec => []GameInv
<1>1. GameInv /\ [GameNext]_allVars => GameInv'
  <2> SUFFICES ASSUME GameInv, [GameNext]_allVars PROVE GameInv'
    OBVIOUS
  <2>1. CASE HelloOk
    BY <2>1, HelloOkStep
  <2>2. CASE HelloVoid
    BY <2>2, HelloVoidStep
  <2>3. CASE PostFaults
    BY <2>3, FaultStep
  <2>4. CASE \E outcome \in {"blank", "NONSENSE", "PLACE_BARRIER"} : PostMalformed(outcome)
    BY <2>4, MalformedStep
  <2>5. CASE \E a \in CopActions : CopAnswers(a)
    BY <2>5, CopAnswersStep
  <2>6. CASE \E a \in Moves : ThiefAnswers(a)
    BY <2>6, ThiefAnswersStep
  <2>7. CASE Damage
    BY <2>7, DamageStep
  <2>8. CASE OpenReplay
    BY <2>8, OpenReplayStep
  <2>9. CASE ReplayTick
    BY <2>9, ReplayTickStep
  <2>10. CASE CloseReplay
    BY <2>10, CloseReplayStep
  <2>11. CASE Stopped \/ UNCHANGED allVars
    BY <2>11, GameUnchanged DEF Stopped
  <2>12. QED
    BY <2>1, <2>2, <2>3, <2>4, <2>5, <2>6, <2>7, <2>8, <2>9, <2>10, <2>11
       DEF GameNext, Referee, Verifier
<1>2. QED
  BY <1>1, GameStart, PTL DEF GameSpec

(* No altered position, mask, budget or outcome survives the audit, at any  *)
(* tick of a sub-game played without a void.                                *)
THEOREM DamageIsCaught == ASSUME SameRadius PROVE GameSpec => []DamageCaught
<1>1. GameInv => DamageCaught
  BY DEF GameInv
<1>2. QED
  BY <1>1, GameInvariance, PTL

(* The log of an undamaged sub-game is verified, except in the cases the    *)
(* referee can name, and then the check that refuses it is the one named.   *)
THEOREM HonestIsVerified ==
    ASSUME SameRadius, CopTellsThief PROVE GameSpec => []HonestVerdict
<1>1. GameInv => HonestVerdict
  BY DEF GameInv
<1>2. QED
  BY <1>1, GameInvariance, PTL
=============================================================================
