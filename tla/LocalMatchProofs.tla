-------------------------- MODULE LocalMatchProofs --------------------------
(***************************************************************************)
(* Theorems about LocalMatch for every number of sub-games, seeds, moves,  *)
(* retries and delayed requests.                                           *)
(***************************************************************************)
EXTENDS LocalMatch, TLAPS

Streams == Seq(Int)
Caches == UNION {[ticks -> Streams] : ticks \in SUBSET Int}
Started == [started : {TRUE}, stream : Streams, cache : Caches, last : Int, cell : Int]

SubGames == [offset : Int, moves : Nat]

Requests == [kind : {"hello", "move", "report"}, role : Roles, id : Ids,
             offset : Int, tick : Nat, copy : Int]

(* A session has cached exactly the ticks up to its last one; the answer to *)
(* a tick was chosen from a hidden state that advanced once a tick.         *)
SessionOK(s) ==
    s # NoSession =>
        /\ s \in Started /\ s.last >= -1
        /\ Len(s.stream) = s.last + 1
        /\ DOMAIN s.cache = 0 .. s.last
        /\ \A t \in 0 .. s.last : Len(s.cache[t]) = t + 1

SessionsOK ==
    /\ session \in [Roles -> [Ids -> Started \union {NoSession}]]
    /\ \A r \in Roles, k \in Ids : SessionOK(session[r][k])

(* It has absorbed observations of attempt a and of no other. *)
Pure(s, a) ==
    /\ s.started
    /\ \A k \in 1 .. Len(s.stream) : s.stream[k] = a
    /\ \A t \in 0 .. s.last : \A k \in 1 .. t + 1 : s.cache[t][k] = a

Playing == phase \in {"hello_cop", "hello_thief", "move_cop", "move_thief"}

RefereeTypeOK ==
    /\ games \in Seq(SubGames)
    /\ offset \in Nat /\ offset <= MaxOffsets /\ tick \in Nat /\ try \in Int
    /\ phase \in Turns \union {"asleep", "between", "short", "sent", "failed"}
    /\ late \subseteq Requests
    /\ chosen \in [Roles -> Seq(Streams)]

(* Both servers have answered each tick of the attempt, the cop first.      *)
Lockstep ==
    /\ phase \in {"hello_cop", "hello_thief"} => tick = 0 /\ chosen = Nothing
    /\ phase = "move_cop" => Len(chosen["cop"]) = tick /\ Len(chosen["thief"]) = tick
    /\ phase = "move_thief" => Len(chosen["cop"]) = tick + 1 /\ Len(chosen["thief"]) = tick

(* The sub-games counted so far are of earlier attempts, but for one that   *)
(* has just ended, which has as many moves as were accepted in it.          *)
GamesCounted ==
    /\ Playing => Len(games) < NumGames
    /\ Len(games) <= NumGames
    /\ \A i \in 1 .. Len(games) :
          /\ games[i].offset <= Attempt
          /\ Playing => games[i].offset < Attempt
          /\ games[i].offset = Attempt => \A r \in Roles : games[i].moves = Len(chosen[r])

(* Unless an older observation got in, a greeted session is this attempt's. *)
GreetedPure == \A r \in Roles : Greeted(r) /\ ~spoilt => Pure(session[r][Id], Attempt)

IInv ==
    /\ SessionsOK /\ RefereeTypeOK /\ Lockstep /\ GamesCounted /\ GreetedPure
    /\ OwnStream /\ ExactlyNumGames
-----------------------------------------------------------------------------
(* new_session: nothing absorbed, nothing cached. *)
LEMMA FreshIsOK ==
    ASSUME NEW a \in Int
    PROVE  /\ FreshSession(a) \in Started /\ SessionOK(FreshSession(a))
           /\ \A b : Pure(FreshSession(a), b)
<1> DEFINE f == FreshSession(a)
<1>1. /\ f = [started |-> TRUE, stream |-> <<>>, cache |-> <<>>, last |-> -1, cell |-> a]
  BY DEF FreshSession, ZeroHidden
<1> HIDE DEF f
<1>2. <<>> \in [{} -> Streams] /\ DOMAIN <<>> = {}
  OBVIOUS
<1>3. <<>> \in Caches
  BY <1>2 DEF Caches
<1>4. f \in Started
  BY <1>1, <1>3 DEF Started, Streams
<1>5. f.stream = <<>> /\ f.cache = <<>> /\ f.last = -1 /\ f.started
  BY <1>1
<1>6. 0 .. f.last = {} /\ Len(f.stream) = f.last + 1 /\ f.last >= -1 /\ 1 .. Len(f.stream) = {}
  BY <1>5
<1>7. QED
  BY <1>2, <1>4, <1>5, <1>6 DEF f, SessionOK, Pure

(* act on a tick in sequence: one observation more, cached under its tick.  *)
LEMMA ActAdvances ==
    ASSUME NEW s \in Started, SessionOK(s), s # NoSession, NEW req \in Requests,
           ~Cached(s, req), InSequence(s, req)
    PROVE  LET n == Act(s, req) IN
           /\ n.stream = Append(s.stream, req.offset)
           /\ n.cache \in Caches /\ DOMAIN n.cache = 0 .. req.tick
           /\ n.cache[req.tick] = n.stream
           /\ \A t \in 0 .. s.last : n.cache[t] = s.cache[t]
           /\ n.last = req.tick /\ req.tick = s.last + 1
           /\ n \in Started
<1> DEFINE z == Append(s.stream, req.offset)
           c == [t \in DOMAIN s.cache \union {req.tick} |-> IF t = req.tick THEN z ELSE s.cache[t]]
           n == [s EXCEPT !.stream = z, !.cache = c, !.last = req.tick]
<1>1. s.started /\ req.tick = s.last + 1 /\ s.last \in Int /\ s.last >= -1
      /\ s.cache \in Caches /\ DOMAIN s.cache = 0 .. s.last
      /\ s.stream \in Streams /\ req.offset \in Int /\ req.tick \in Nat
  BY DEF SessionOK, InSequence, Started, Requests
<1>2. z \in Streams
  BY <1>1 DEF Streams
<1>3. c = [t \in DOMAIN s.cache \union {req.tick} |-> IF t = req.tick THEN z ELSE s.cache[t]]
  OBVIOUS
<1>4. {req.tick} \union DOMAIN s.cache = 0 .. req.tick
  BY <1>1
<1>5. \A t \in 0 .. s.last : s.cache[t] \in Streams
  BY <1>1 DEF Caches
<1>6. c \in [0 .. req.tick -> Streams]
  BY <1>1, <1>2, <1>3, <1>4, <1>5
<1>7. c \in Caches
  <2>1. 0 .. req.tick \in SUBSET Int
    BY <1>1
  <2>2. QED
    BY <1>6, <2>1 DEF Caches
<1>8. c[req.tick] = z /\ \A t \in 0 .. s.last : c[t] = s.cache[t]
  BY <1>1, <1>3, <1>4
<1>9. Act(s, req) = n
  BY DEF Act, Absorbed
<1> HIDE DEF c
<1>10. n.stream = z /\ n.cache = c /\ n.last = req.tick /\ n \in Started
  <2> HIDE DEF z
  <2>1. [s EXCEPT !.stream = z] \in Started
    BY <1>2 DEF Started
  <2>2. [[s EXCEPT !.stream = z] EXCEPT !.cache = c] \in Started
    BY <1>7, <2>1 DEF Started
  <2>3. n \in Started
    <3>1. [[[s EXCEPT !.stream = z] EXCEPT !.cache = c] EXCEPT !.last = req.tick] \in Started
      <4> DEFINE m == [[s EXCEPT !.stream = z] EXCEPT !.cache = c]
      <4>1. m \in Started /\ req.tick \in Int
        BY <1>1, <2>2
      <4> HIDE DEF m
      <4>2. [m EXCEPT !.last = req.tick] \in Started
        BY <4>1 DEF Started
      <4>3. QED
        BY <4>2 DEF m
    <3>2. QED
      BY <3>1
  <2>4. QED
    BY <2>3 DEF Started
<1>11. QED
  BY <1>1, <1>6, <1>7, <1>8, <1>9, <1>10

(* act keeps a session's shape, keeps it pure when the observation is of    *)
(* its attempt, and what it answers is as old as its tick.                  *)
LEMMA ActIsOK ==
    ASSUME NEW s \in Started \union {NoSession}, SessionOK(s), NEW req \in Requests
    PROVE  /\ Act(s, req) \in Started \union {NoSession} /\ SessionOK(Act(s, req))
           /\ Pure(s, req.offset) => Pure(Act(s, req), req.offset)
           /\ Cached(s, req) \/ InSequence(s, req) =>
                /\ Act(s, req) # NoSession /\ req.tick \in 0 .. Act(s, req).last
                /\ Act(s, req).cache[req.tick] \in Streams
                /\ Len(Act(s, req).cache[req.tick]) = req.tick + 1
<1>1. CASE ~Cached(s, req) /\ InSequence(s, req)
  <2>1. s # NoSession /\ s \in Started
    BY <1>1 DEF InSequence, NoSession
  <2> DEFINE n == Act(s, req)
  <2>2. /\ n.stream = Append(s.stream, req.offset)
        /\ n.cache \in Caches /\ DOMAIN n.cache = 0 .. req.tick
        /\ n.cache[req.tick] = n.stream
        /\ \A t \in 0 .. s.last : n.cache[t] = s.cache[t]
        /\ n.last = req.tick /\ req.tick = s.last + 1
        /\ n \in Started
    BY <1>1, <2>1, ActAdvances
  <2> HIDE DEF n
  <2>3. /\ s.stream \in Streams /\ req.offset \in Int /\ req.tick \in Nat /\ s.last \in Int /\ s.last >= -1
        /\ Len(s.stream) = s.last + 1
        /\ \A t \in 0 .. s.last : Len(s.cache[t]) = t + 1
    BY <2>1 DEF SessionOK, Started, Requests
  <2>4. /\ n.stream \in Streams /\ Len(n.stream) = req.tick + 1
        /\ \A k \in 1 .. Len(s.stream) : n.stream[k] = s.stream[k]
        /\ n.stream[req.tick + 1] = req.offset
    BY <2>2, <2>3 DEF Streams
  <2>5. \A t \in 0 .. n.last : t = req.tick \/ t \in 0 .. s.last
    BY <2>2, <2>3
  <2>6. \A t \in 0 .. n.last : Len(n.cache[t]) = t + 1
    BY <2>2, <2>3, <2>4, <2>5
  <2>7. SessionOK(n)
    BY <2>2, <2>3, <2>4, <2>6 DEF SessionOK
  <2>8. n # NoSession /\ n.started
    <3>1. n.started = TRUE
      BY <2>2 DEF Started
    <3>2. NoSession.started = FALSE
      BY DEF NoSession
    <3>3. QED
      BY <3>1, <3>2
  <2>9. ASSUME Pure(s, req.offset)
        PROVE  Pure(n, req.offset)
    <3>1. \A k \in 1 .. Len(n.stream) : n.stream[k] = req.offset
      <4>1. TAKE k \in 1 .. Len(n.stream)
      <4>2. k \in 1 .. Len(s.stream) \/ k = req.tick + 1
        BY <2>2, <2>3, <2>4
      <4>3. QED
        BY <2>4, <2>9, <4>2 DEF Pure
    <3>2. \A t \in 0 .. n.last : \A k \in 1 .. t + 1 : n.cache[t][k] = req.offset
      <4>1. TAKE t \in 0 .. n.last
      <4>2. CASE t = req.tick
        BY <2>2, <2>4, <3>1, <4>2
      <4>3. CASE t \in 0 .. s.last
        BY <2>2, <2>9, <4>3 DEF Pure
      <4>4. QED
        BY <2>5, <4>2, <4>3
    <3>3. QED
      BY <2>8, <3>1, <3>2 DEF Pure
  <2>10. req.tick \in 0 .. n.last
    BY <2>2, <2>3
  <2>11. QED
    BY <2>2, <2>4, <2>7, <2>8, <2>9, <2>10 DEF n
<1>2. CASE ~(~Cached(s, req) /\ InSequence(s, req))
  <2>1. Act(s, req) = s
    BY <1>2 DEF Act
  <2>2. ASSUME Cached(s, req) \/ InSequence(s, req)
        PROVE  /\ s # NoSession /\ req.tick \in 0 .. s.last
               /\ s.cache[req.tick] \in Streams /\ Len(s.cache[req.tick]) = req.tick + 1
    <3>1. s.started /\ req.tick \in DOMAIN s.cache
      BY <1>2, <2>2 DEF Cached
    <3>2. s # NoSession /\ s \in Started
      BY <3>1 DEF NoSession
    <3>3. s.cache \in Caches /\ DOMAIN s.cache = 0 .. s.last
      BY <3>2 DEF SessionOK, Started
    <3>4. s.cache[req.tick] \in Streams
      BY <3>1, <3>3 DEF Caches
    <3>5. QED
      BY <3>1, <3>2, <3>3, <3>4 DEF SessionOK
  <2>3. QED
    BY <2>1, <2>2
<1>3. QED
  BY <1>1, <1>2

(* A request handled changes its own session at most, to a fresh one or by  *)
(* one act.                                                                 *)
LEMMA HandleEffect ==
    ASSUME SessionsOK, NEW req \in Requests, Handle(req)
    PROVE  /\ SessionsOK'
           /\ \A r \in Roles, k \in Ids :
                 r # req.role \/ k # req.id => session'[r][k] = session[r][k]
           /\ LET old == session[req.role][req.id]
                  new == session'[req.role][req.id]
              IN /\ req.kind = "hello" => new = FreshSession(req.offset)
                 /\ req.kind = "move" => new = Act(old, req)
                 /\ req.kind = "report" => new = old
<1> DEFINE old == session[req.role][req.id]
           new == session'[req.role][req.id]
<1>1. req.role \in Roles /\ req.id \in Ids /\ req.offset \in Int
      /\ req.kind \in {"hello", "move", "report"}
  BY DEF Requests
<1>2. /\ session \in [Roles -> [Ids -> Started \union {NoSession}]]
      /\ old \in Started \union {NoSession} /\ SessionOK(old)
  BY <1>1 DEF SessionsOK
<1>3. \E v \in Started \union {NoSession} :
         /\ SessionOK(v)
         /\ session' = [session EXCEPT ![req.role][req.id] = v]
         /\ req.kind = "hello" => v = FreshSession(req.offset)
         /\ req.kind = "move" => v = Act(old, req)
         /\ req.kind = "report" => v = old
  <2>1. CASE req.kind = "hello"
    <3>1. session' = [session EXCEPT ![req.role][req.id] = FreshSession(req.offset)]
      BY <2>1 DEF Handle, NewSession
    <3>2. FreshSession(req.offset) \in Started /\ SessionOK(FreshSession(req.offset))
      BY <1>1, FreshIsOK
    <3>3. QED
      BY <2>1, <3>1, <3>2
  <2>2. CASE req.kind = "move"
    <3>1. session' = [session EXCEPT ![req.role][req.id] = Act(old, req)]
      BY <2>2 DEF Handle
    <3>2. Act(old, req) \in Started \union {NoSession} /\ SessionOK(Act(old, req))
      BY <1>2, ActIsOK
    <3>3. QED
      BY <2>2, <3>1, <3>2
  <2>3. CASE req.kind = "report"
    <3>1. session' = session
      BY <2>3 DEF Handle
    <3>2. session = [session EXCEPT ![req.role][req.id] = old]
      BY <1>1, <1>2
    <3>3. QED
      BY <1>2, <2>3, <3>1, <3>2
  <2>4. QED
    BY <1>1, <2>1, <2>2, <2>3
<1>4. PICK v \in Started \union {NoSession} :
         /\ SessionOK(v)
         /\ session' = [session EXCEPT ![req.role][req.id] = v]
         /\ req.kind = "hello" => v = FreshSession(req.offset)
         /\ req.kind = "move" => v = Act(old, req)
         /\ req.kind = "report" => v = old
  BY <1>3
<1>5. /\ session' \in [Roles -> [Ids -> Started \union {NoSession}]]
      /\ new = v
      /\ \A r \in Roles, k \in Ids : r # req.role \/ k # req.id => session'[r][k] = session[r][k]
  BY <1>1, <1>2, <1>4
<1>6. \A r \in Roles, k \in Ids : session'[r][k] = v \/ session'[r][k] = session[r][k]
  BY <1>5
<1>7. \A r \in Roles, k \in Ids : SessionOK(session'[r][k])
  BY <1>4, <1>6 DEF SessionsOK
<1>8. SessionsOK'
  BY <1>5, <1>7 DEF SessionsOK, SessionOK, NoSession, Started, Caches, Streams
<1>9. QED
  BY <1>4, <1>5, <1>8

(* No request but a move of another attempt makes a session of one attempt  *)
(* impure.                                                                  *)
LEMMA PurityKept ==
    ASSUME SessionsOK, NEW req \in Requests, Handle(req), NEW r \in Roles, NEW k \in Ids,
           NEW a \in Int, Pure(session[r][k], a),
           req.kind = "move" /\ req.role = r /\ req.id = k /\ req.offset # a
              => session'[r][k] = session[r][k]
    PROVE  Pure(session'[r][k], a)
<1>1. CASE r # req.role \/ k # req.id \/ req.kind = "report"
  <2>1. session'[r][k] = session[r][k]
    BY <1>1, HandleEffect
  <2>2. QED
    BY <2>1
<1>2. CASE r = req.role /\ k = req.id /\ req.kind = "hello"
  <2>1. session'[r][k] = FreshSession(req.offset) /\ req.offset \in Int
    BY <1>2, HandleEffect DEF Requests
  <2>2. QED
    BY <2>1, FreshIsOK
<1>3. CASE r = req.role /\ k = req.id /\ req.kind = "move"
  <2>1. CASE req.offset # a
    BY <1>3, <2>1
  <2>2. CASE req.offset = a
    <3>1. session'[r][k] = Act(session[r][k], req)
      BY <1>3, HandleEffect
    <3>2. session[r][k] \in Started \union {NoSession} /\ SessionOK(session[r][k])
      BY DEF SessionsOK
    <3>3. Pure(Act(session[r][k], req), a)
      BY <2>2, <3>2, ActIsOK
    <3>4. QED
      BY <3>1, <3>3
  <2>3. QED
    BY <2>1, <2>2
<1>4. QED
  BY <1>1, <1>2, <1>3 DEF Requests
-----------------------------------------------------------------------------
(* The call under way is a request of the servers' type. *)
LEMMA RequestTyped ==
    ASSUME RefereeTypeOK, GamesCounted, phase \in Turns
    PROVE  /\ Request \in Requests /\ Callee \in Roles /\ Kind \in {"hello", "move", "report"}
           /\ Request.kind = Kind /\ Request.role = Callee
           /\ Request.offset = Attempt /\ Request.tick = tick
           /\ Attempt \in Int
           /\ Playing => Id \in Ids /\ Request.id = Id
           /\ phase \in {"hello_cop", "hello_thief"} => Kind = "hello"
           /\ phase \in {"move_cop", "move_thief"} => Kind = "move"
           /\ phase = "report" => Kind = "report"
<1>1. Callee \in Roles
  BY DEF Callee, Roles
<1>2. /\ phase \in {"hello_cop", "hello_thief"} => Kind = "hello"
      /\ phase \in {"move_cop", "move_thief"} => Kind = "move"
      /\ phase = "report" => Kind = "report"
  BY DEF Kind
<1>3. Kind \in {"hello", "move", "report"} /\ (phase = "report" \/ Playing)
  BY <1>2 DEF Turns, Playing
<1>4. Attempt \in Int /\ tick \in Nat /\ try \in Int
  BY DEF RefereeTypeOK, Attempt
<1>5. Playing => Id \in Ids
  BY ServerAssumption DEF GamesCounted, RefereeTypeOK, Id, Ids
<1>6. 0 \in Ids
  BY ServerAssumption DEF Ids
<1>7. Playing => phase # "report"
  BY DEF Playing
<1>8. (IF phase = "report" THEN 0 ELSE Id) \in Ids
  BY <1>3, <1>5, <1>6
<1>9. QED
  BY <1>1, <1>2, <1>3, <1>4, <1>5, <1>7, <1>8 DEF Request, Requests

(* A call that failed or whose answer never came, handled or not. *)
LEMMA FaultStep ==
    ASSUME IInv, phase \in Turns, Fault, Handle(Request) \/ UNCHANGED session,
           late' \subseteq Requests, UNCHANGED <<offset, tick, chosen, spoilt>>
    PROVE  IInv'
<1>1. /\ games' = games /\ try' \in Int
      /\ phase' = phase \/ phase' = "between" \/ (phase = "report" /\ phase' = "failed")
  BY DEF Fault, IInv, RefereeTypeOK
<1>2. Request \in Requests /\ Request.offset = Attempt /\ Attempt \in Int
      /\ (Playing => Id \in Ids /\ Request.id = Id)
  BY RequestTyped DEF IInv
<1>3. SessionsOK'
  <2>1. CASE Handle(Request)
    <3>1. PICK req \in Requests : req = Request
      BY <1>2
    <3>2. Handle(req)
      BY <2>1, <3>1
    <3>3. QED
      BY <3>2, HandleEffect DEF IInv
  <2>2. CASE UNCHANGED session
    BY <2>2 DEF IInv, SessionsOK
  <2>3. QED
    BY <2>1, <2>2
<1>4. RefereeTypeOK'
  BY <1>1 DEF IInv, RefereeTypeOK, Turns
<1>5. Lockstep'
  BY <1>1 DEF IInv, Lockstep
<1>6. Attempt' = Attempt /\ Id' = Id /\ (Playing' => Playing) /\ (~spoilt' => ~spoilt)
  <2>1. Playing' => Playing
    BY <1>1 DEF Playing
  <2>2. Attempt' = Attempt /\ Id' = Id
    BY <1>1 DEF Attempt, Id
  <2>3. ~spoilt' => ~spoilt
    BY Zenon
  <2>4. QED
    BY <2>1, <2>2, <2>3
<1>7. GamesCounted'
  BY <1>1, <1>6 DEF IInv, GamesCounted
<1>8. GreetedPure'
  <2>1. SUFFICES ASSUME NEW r \in Roles, Greeted(r)', ~spoilt'
                 PROVE  Pure(session'[r][Id], Attempt)
    BY <1>6 DEF GreetedPure, Pure
  <2>2. Greeted(r) /\ Playing
    BY <1>1, <2>1 DEF Greeted, Playing, Turns
  <2>3. Pure(session[r][Id], Attempt)
    BY <1>6, <2>1, <2>2 DEF IInv, GreetedPure
  <2>4. CASE Handle(Request)
    <3>1. PICK req \in Requests : req = Request
      BY <1>2
    <3>2. PICK k \in Ids : k = Id
      BY <1>2, <2>2
    <3>3. PICK a \in Int : a = Attempt
      BY <1>2
    <3>4. Handle(req) /\ req.offset = a /\ Pure(session[r][k], a)
      BY <1>2, <2>3, <2>4, <3>1, <3>2, <3>3
    <3>5. Pure(session'[r][k], a)
      BY <3>4, PurityKept DEF IInv
    <3>6. QED
      BY <3>2, <3>3, <3>5
  <2>5. CASE UNCHANGED session
    BY <2>3, <2>5
  <2>6. QED
    BY <2>4, <2>5
<1>9. OwnStream'
  BY <1>6 DEF IInv, OwnStream
<1>10. ExactlyNumGames'
  BY <1>1, <1>6 DEF IInv, ExactlyNumGames, Report, Turns
<1>11. QED
  BY <1>3, <1>4, <1>5, <1>7, <1>8, <1>9, <1>10 DEF IInv

(* An answer that was accepted: of a move, it was chosen from a hidden      *)
(* state as old as its tick, this attempt's unless an older observation got *)
(* into the session.                                                        *)
LEMMA AnswerOfTick ==
    ASSUME IInv, phase \in {"move_cop", "move_thief"}, Handle(Request), Returns(Request),
           ~spoilt' => ~spoilt
    PROVE  /\ Answer(Request) \in Streams /\ Len(Answer(Request)) = tick + 1
           /\ ~spoilt' => Answer(Request) = [k \in 1 .. tick + 1 |-> Attempt]
<1>1. PICK req \in Requests : req = Request
  BY RequestTyped DEF IInv, Turns
<1>2. /\ req.kind = "move" /\ req.role = Callee /\ req.offset = Attempt /\ req.tick = tick
      /\ req.id = Id /\ Id \in Ids /\ Callee \in Roles /\ Attempt \in Int /\ tick \in Nat
  BY <1>1, RequestTyped DEF IInv, Turns, Playing, RefereeTypeOK
<1>3. PICK s \in Started \union {NoSession} : s = session[Callee][Id]
  BY <1>2 DEF IInv, SessionsOK
<1>4. PICK n : n = Act(s, req)
  OBVIOUS
<1>5. Handle(req)
  BY <1>1
<1>6. session'[Callee][Id] = n /\ Answer(Request) = n.cache[tick]
  BY <1>1, <1>2, <1>3, <1>4, <1>5, HandleEffect DEF IInv, Answer
<1>7. SessionOK(s)
  BY <1>2, <1>3 DEF IInv, SessionsOK
<1>8. Cached(s, req) \/ InSequence(s, req)
  BY <1>1, <1>2, <1>3 DEF Returns
<1>9. /\ tick \in 0 .. n.last /\ n.cache[tick] \in Streams /\ Len(n.cache[tick]) = tick + 1
      /\ Pure(s, req.offset) => Pure(n, req.offset)
  BY <1>2, <1>4, <1>7, <1>8, ActIsOK
<1>10. ASSUME ~spoilt'
       PROVE  n.cache[tick] = [k \in 1 .. tick + 1 |-> Attempt]
  <2>1. Greeted(Callee) /\ ~spoilt
    BY <1>10 DEF Greeted
  <2>2. Pure(s, Attempt)
    BY <1>2, <1>3, <2>1 DEF IInv, GreetedPure
  <2>3. \A k \in 1 .. tick + 1 : n.cache[tick][k] = Attempt
    BY <1>2, <1>9, <2>2 DEF Pure
  <2>4. QED
    BY <1>2, <1>9, <2>3 DEF Streams
<1>11. QED
  BY <1>6, <1>9, <1>10

(* Greeted sessions stay this attempt's when the call under way is handled, *)
(* and the one a greeting reached becomes this attempt's.                   *)
LEMMA GreetedKept ==
    ASSUME IInv, phase \in Turns, Handle(Request), NEW r \in Roles, ~spoilt, Playing,
           Greeted(r) \/ (Kind = "hello" /\ Callee = r)
    PROVE  Pure(session'[r][Id], Attempt)
<1>1. PICK req \in Requests : req = Request
  BY RequestTyped DEF IInv
<1>2. PICK k \in Ids : k = Id
  BY RequestTyped DEF IInv
<1>3. PICK a \in Int : a = Attempt
  BY RequestTyped DEF IInv
<1>4. Handle(req) /\ req.offset = a /\ req.kind = Kind /\ req.role = Callee /\ req.id = k
  BY <1>1, <1>2, <1>3, RequestTyped DEF IInv
<1>5. CASE Greeted(r)
  <2>1. Pure(session[r][k], a)
    BY <1>2, <1>3, <1>5 DEF IInv, GreetedPure
  <2>2. Pure(session'[r][k], a)
    BY <1>4, <2>1, PurityKept DEF IInv
  <2>3. QED
    BY <1>2, <1>3, <2>2
<1>6. CASE Kind = "hello" /\ Callee = r
  <2>1. session'[r][k] = FreshSession(a)
    BY <1>4, <1>6, HandleEffect DEF IInv
  <2>2. QED
    BY <1>2, <1>3, <2>1, FreshIsOK
<1>7. QED
  BY <1>5, <1>6

(* The servers' sessions keep their shape when the call is handled. *)
LEMMA SessionsKept ==
    ASSUME IInv, phase \in Turns, Handle(Request)
    PROVE  SessionsOK'
<1>1. PICK req \in Requests : req = Request
  BY RequestTyped DEF IInv
<1>2. Handle(req)
  BY <1>1
<1>3. QED
  BY <1>2, HandleEffect DEF IInv

(* A greeting was answered, or the report was sent. *)
LEMMA HelloOrReportStep ==
    ASSUME IInv, phase \in {"hello_cop", "hello_thief", "report"}, Reply, Returns(Request)
    PROVE  IInv'
<1>1. /\ phase = "hello_cop" => phase' = "hello_thief"
      /\ phase = "hello_thief" => phase' = "move_cop"
      /\ phase = "report" => phase' = "sent"
      /\ Handle(Request) /\ games' = games /\ tick' = tick /\ try' = 0 /\ chosen' = chosen
      /\ offset' = offset /\ late' = late /\ Kind # "move"
  BY DEF Reply, Proceed, Kind
<1>2. SessionsOK'
  BY <1>1, SessionsKept DEF Turns
<1>3. RefereeTypeOK'
  BY <1>1 DEF IInv, RefereeTypeOK, Turns
<1>4. Lockstep'
  <2>1. chosen = Nothing /\ tick = 0 => Len(chosen["cop"]) = tick /\ Len(chosen["thief"]) = tick
    BY DEF Nothing, Roles
  <2>2. QED
    BY <1>1, <2>1 DEF IInv, Lockstep
<1>5. Attempt' = Attempt /\ Id' = Id /\ (Playing' => Playing) /\ (~spoilt' => ~spoilt)
  <2>1. Playing' => Playing
    BY <1>1 DEF Playing
  <2>2. Attempt' = Attempt /\ Id' = Id
    BY <1>1 DEF Attempt, Id
  <2>3. ~spoilt' => ~spoilt
    BY Zenon DEF Reply
  <2>4. QED
    BY <2>1, <2>2, <2>3
<1>6. GamesCounted'
  BY <1>1, <1>5 DEF IInv, GamesCounted
<1>7. GreetedPure'
  <2>1. SUFFICES ASSUME NEW r \in Roles, Greeted(r)', ~spoilt'
                 PROVE  Pure(session'[r][Id], Attempt)
    BY <1>5 DEF GreetedPure, Pure
  <2>2. Playing
    BY <1>1, <2>1 DEF Greeted, Playing
  <2>3. Greeted(r) \/ (Kind = "hello" /\ Callee = r)
    BY <1>1, <2>1 DEF Greeted, Kind, Callee, Roles
  <2>4. QED
    BY <1>1, <1>5, <2>1, <2>2, <2>3, GreetedKept DEF Turns
<1>8. OwnStream'
  BY <1>1, <1>5 DEF IInv, OwnStream
<1>9. ExactlyNumGames'
  BY <1>1, <1>5 DEF IInv, ExactlyNumGames, Report, Turns
<1>10. QED
  BY <1>2, <1>3, <1>4, <1>6, <1>7, <1>8, <1>9 DEF IInv

(* A move was accepted: the cop's, or the thief's, which ends the tick and  *)
(* perhaps the sub-game.                                                    *)
LEMMA MoveStep ==
    ASSUME IInv, phase \in {"move_cop", "move_thief"}, Reply, Returns(Request)
    PROVE  IInv'
<1> DEFINE z == Answer(Request)
<1>1. /\ Handle(Request) /\ try' = 0 /\ Kind = "move"
      /\ chosen' = [chosen EXCEPT ![Callee] = Append(@, z)]
      /\ offset' = offset /\ late' = late
      /\ Attempt' = Attempt /\ Attempt \in Int /\ tick \in Nat
      /\ (~spoilt' => ~spoilt)
  <2>1. /\ Handle(Request) /\ try' = 0 /\ Kind = "move"
        /\ chosen' = [chosen EXCEPT ![Callee] = Append(@, z)]
        /\ offset' = offset /\ late' = late
    BY DEF Reply, Kind
  <2>2. Attempt' = Attempt /\ Attempt \in Int /\ tick \in Nat
    BY <2>1 DEF Attempt, IInv, RefereeTypeOK
  <2>3. ~spoilt' => ~spoilt
    BY Zenon DEF Reply
  <2>4. QED
    BY <2>1, <2>2, <2>3
<1>2. z \in Streams /\ Len(z) = tick + 1 /\ (~spoilt' => z = [k \in 1 .. tick + 1 |-> Attempt])
  BY <1>1, AnswerOfTick
<1> HIDE DEF z
<1>3. \/ /\ phase = "move_cop" /\ Callee = "cop"
         /\ phase' = "move_thief" /\ games' = games /\ tick' = tick
      \/ /\ phase = "move_thief" /\ Callee = "thief" /\ tick' = tick + 1
         /\ phase' = "between" /\ games' = Append(games, [offset |-> Attempt, moves |-> tick + 1])
      \/ /\ phase = "move_thief" /\ Callee = "thief" /\ tick' = tick + 1
         /\ phase' = "move_cop" /\ games' = games
  BY DEF Reply, Proceed, EndTick, Callee
<1>4. /\ chosen \in [Roles -> Seq(Streams)] /\ Callee \in Roles
      /\ chosen[Callee] \in Seq(Streams) /\ Len(chosen[Callee]) = tick
  BY <1>3 DEF IInv, RefereeTypeOK, Lockstep, Roles
<1>5. /\ chosen' \in [Roles -> Seq(Streams)]
      /\ chosen'[Callee] = Append(chosen[Callee], z) /\ Len(chosen'[Callee]) = tick + 1
      /\ \A r \in Roles : r # Callee => chosen'[r] = chosen[r]
  BY <1>1, <1>2, <1>4
<1>6. SessionsOK'
  BY <1>1, SessionsKept DEF Turns
<1>7. RefereeTypeOK'
  <2>1. [offset |-> Attempt, moves |-> tick + 1] \in SubGames
    BY <1>1 DEF SubGames
  <2>2. games' \in Seq(SubGames)
    BY <1>3, <2>1 DEF IInv, RefereeTypeOK
  <2>3. QED
    BY <1>1, <1>3, <1>5, <2>2 DEF IInv, RefereeTypeOK, Turns
<1>8. Lockstep'
  BY <1>1, <1>3, <1>4, <1>5 DEF IInv, Lockstep, Roles
<1>9. OwnStream'
  <2>1. SUFFICES ASSUME NEW r \in Roles, NEW t \in 1 .. Len(chosen'[r])
                 PROVE  /\ Len(chosen'[r][t]) = t
                        /\ ~spoilt' => chosen'[r][t] = [k \in 1 .. t |-> Attempt]
    BY <1>1 DEF OwnStream
  <2>2. CASE r = Callee /\ t = tick + 1
    <3>1. chosen'[r][t] = z
      BY <1>1, <1>4, <1>5, <2>2
    <3>2. QED
      BY <1>2, <2>2, <3>1
  <2>3. CASE ~(r = Callee /\ t = tick + 1)
    <3>1. t \in 1 .. Len(chosen[r]) /\ chosen'[r][t] = chosen[r][t]
      BY <1>1, <1>2, <1>4, <1>5, <2>3
    <3>2. QED
      BY <1>1, <3>1 DEF IInv, OwnStream
  <2>4. QED
    BY <2>2, <2>3
<1>10. /\ \A i \in 1 .. Len(games) : games[i].offset \in Int /\ games[i].offset < Attempt
       /\ Len(games) < NumGames /\ Len(games) \in Nat /\ NumGames \in Nat
       /\ games \in Seq(SubGames)
  <2>1. games \in Seq(SubGames) /\ NumGames \in Nat
    BY ServerAssumption DEF IInv, RefereeTypeOK
  <2>2. \A i \in 1 .. Len(games) : games[i] \in SubGames
    BY <2>1
  <2>3. \A i \in 1 .. Len(games) : games[i].offset \in Int
    BY <2>2 DEF SubGames
  <2>4. Playing
    BY DEF Playing
  <2>5. Len(games) < NumGames /\ \A i \in 1 .. Len(games) : games[i].offset < Attempt
    BY <2>4 DEF IInv, GamesCounted
  <2>6. QED
    BY <2>1, <2>3, <2>5
<1>11. GamesCounted'
  <2>1. CASE games' = games
    BY <1>1, <1>10, <2>1 DEF GamesCounted
  <2>2. CASE /\ phase = "move_thief" /\ phase' = "between"
             /\ games' = Append(games, [offset |-> Attempt, moves |-> tick + 1])
    <3>1. /\ Len(games') = Len(games) + 1
          /\ games'[Len(games) + 1] = [offset |-> Attempt, moves |-> tick + 1]
          /\ \A i \in 1 .. Len(games) : games'[i] = games[i]
      BY <1>10, <2>2
    <3>2. \A r \in Roles : Len(chosen'[r]) = tick + 1
      BY <1>3, <1>5, <2>2 DEF IInv, Lockstep, Roles
    <3>3. ~Playing'
      BY <2>2 DEF Playing
    <3>4. \A i \in 1 .. Len(games') :
            /\ games'[i].offset <= Attempt
            /\ games'[i].offset = Attempt => \A r \in Roles : games'[i].moves = Len(chosen'[r])
      <4>1. TAKE i \in 1 .. Len(games')
      <4>2. CASE i = Len(games) + 1
        BY <1>1, <3>1, <3>2, <4>2
      <4>3. CASE i \in 1 .. Len(games)
        BY <1>1, <1>10, <3>1, <4>3
      <4>4. QED
        BY <1>10, <3>1, <4>2, <4>3
    <3>5. QED
      BY <1>1, <1>10, <3>1, <3>3, <3>4 DEF GamesCounted
  <2>3. QED
    BY <1>3, <2>1, <2>2
<1>12. GreetedPure'
  <2>1. SUFFICES ASSUME NEW r \in Roles, Greeted(r)', ~spoilt'
                 PROVE  Pure(session'[r][Id'], Attempt)
    BY <1>1 DEF GreetedPure, Pure
  <2>2. games' = games /\ Id' = Id /\ Playing /\ Greeted(r)
    BY <1>3, <2>1 DEF Greeted, Playing, Id
  <2>3. Pure(session'[r][Id], Attempt)
    BY <1>1, <2>1, <2>2, GreetedKept DEF Turns
  <2>4. QED
    BY <2>2, <2>3
<1>13. ExactlyNumGames'
  <2>1. \A i, j \in 1 .. Len(games') : i < j => games'[i].offset < games'[j].offset
    <3>1. CASE games' = games
      BY <3>1 DEF IInv, ExactlyNumGames
    <3>2. CASE games' = Append(games, [offset |-> Attempt, moves |-> tick + 1])
      <4>1. /\ Len(games') = Len(games) + 1
            /\ games'[Len(games) + 1].offset = Attempt
            /\ \A i \in 1 .. Len(games) : games'[i] = games[i]
        BY <1>10, <3>2
      <4>2. \A i, j \in 1 .. Len(games) : i < j => games[i].offset < games[j].offset
        BY DEF IInv, ExactlyNumGames
      <4>3. QED
        BY <1>10, <4>1, <4>2
    <3>3. QED
      BY <1>3, <3>1, <3>2
  <2>2. \A i \in DOMAIN Report' : i \in 1 .. Len(games') /\ Report'[i].moves = games'[i].moves
    BY DEF Report
  <2>3. phase' \notin {"report", "sent", "failed", "short"}
    BY <1>3
  <2>4. \A i \in DOMAIN Report' : \A r \in Roles :
           games'[i].offset = Attempt' => Report'[i].moves = Len(chosen'[r])
    BY <1>11, <2>2 DEF GamesCounted
  <2>5. QED
    BY <2>1, <2>3, <2>4 DEF ExactlyNumGames
<1>14. QED
  BY <1>6, <1>7, <1>8, <1>9, <1>11, <1>12, <1>13 DEF IInv

(* prewarm, and the next seed or the end of the match. *)
LEMMA BetweenGamesStep ==
    ASSUME IInv, Prewarm \/ NextSubGame
    PROVE  IInv'
<1>1. session' = session /\ games' = games /\ late' = late
  BY DEF Prewarm, NextSubGame
<1>2. SessionsOK'
  BY <1>1 DEF IInv, SessionsOK
<1>3. /\ games \in Seq(SubGames) /\ Len(games) \in Nat /\ offset \in Nat /\ NumGames \in Nat
      /\ MaxOffsets \in Nat
      /\ offset <= MaxOffsets /\ Len(games) <= NumGames
      /\ \A i \in 1 .. Len(games) : games[i].offset \in Int
  <2>1. games \in Seq(SubGames) /\ NumGames \in Nat /\ offset \in Nat /\ MaxOffsets \in Nat
        /\ offset <= MaxOffsets
    BY ServerAssumption DEF IInv, RefereeTypeOK
  <2>2. \A i \in 1 .. Len(games) : games[i] \in SubGames
    BY <2>1
  <2>3. \A i \in 1 .. Len(games) : games[i].offset \in Int
    BY <2>2 DEF SubGames
  <2>4. QED
    BY <2>1, <2>3 DEF IInv, GamesCounted
<1>4. CASE /\ phase = "between" /\ phase' = "hello_cop" /\ offset' = offset + 1
           /\ Len(games) < NumGames /\ offset < MaxOffsets
           /\ chosen' = Nothing /\ tick' = 0 /\ try' = 0
  <2>1. RefereeTypeOK'
    <3>1. chosen' \in [Roles -> Seq(Streams)]
      BY <1>4 DEF Nothing
    <3>2. QED
      BY <1>1, <1>3, <1>4, <3>1 DEF IInv, RefereeTypeOK, Turns
  <2>2. Lockstep'
    BY <1>4 DEF Lockstep, Nothing
  <2>3. Attempt' = offset /\ Attempt = offset - 1
    BY <1>3, <1>4 DEF Attempt
  <2>4. \A i \in 1 .. Len(games) : games[i].offset < Attempt'
    BY <1>3, <2>3 DEF IInv, GamesCounted
  <2>5. GamesCounted'
    BY <1>1, <1>3, <1>4, <2>3, <2>4 DEF GamesCounted
  <2>6. GreetedPure'
    BY <1>4 DEF GreetedPure, Greeted
  <2>7. OwnStream'
    <3>1. \A r \in Roles : chosen'[r] = <<>>
      BY <1>4 DEF Nothing
    <3>2. QED
      BY <3>1 DEF OwnStream
  <2>8. ExactlyNumGames'
    <3>1. \A i \in DOMAIN Report' : i \in 1 .. Len(games) /\ games'[i].offset # Attempt'
      BY <1>1, <1>3, <2>3, <2>4 DEF Report
    <3>2. QED
      BY <1>1, <1>4, <3>1 DEF IInv, ExactlyNumGames
  <2>9. QED
    BY <1>2, <2>1, <2>2, <2>5, <2>6, <2>7, <2>8 DEF IInv
<1>5. CASE /\ offset' = offset /\ chosen' = chosen /\ (~spoilt' => ~spoilt)
           /\ tick' \in Nat /\ try' \in Int
           /\ \/ phase' = "between"
              \/ phase' = "report" /\ Len(games) = NumGames
              \/ phase' = "short" /\ Len(games) < NumGames /\ offset = MaxOffsets
  <2>1. RefereeTypeOK'
    BY <1>1, <1>5 DEF IInv, RefereeTypeOK, Turns
  <2>2. Lockstep'
    BY <1>5 DEF Lockstep
  <2>3. Attempt' = Attempt /\ ~Playing' /\ \A r \in Roles : ~Greeted(r)'
    BY <1>5 DEF Attempt, Playing, Greeted
  <2>4. GamesCounted'
    BY <1>1, <1>5, <2>3 DEF IInv, GamesCounted
  <2>5. GreetedPure'
    BY <2>3 DEF GreetedPure
  <2>6. OwnStream'
    BY <1>5, <2>3 DEF IInv, OwnStream
  <2>7. ExactlyNumGames'
    BY <1>1, <1>5, <2>3 DEF IInv, ExactlyNumGames, Report
  <2>8. QED
    BY <1>2, <2>1, <2>2, <2>4, <2>5, <2>6, <2>7 DEF IInv
<1>6. CASE Prewarm
  <2>1. ~spoilt' => ~spoilt
    BY <1>6, Zenon DEF Prewarm
  <2>2. offset' = offset /\ chosen' = chosen /\ tick' \in Nat /\ try' \in Int /\ phase' = "between"
    BY <1>6 DEF Prewarm, IInv, RefereeTypeOK
  <2>3. QED
    BY <1>5, <2>1, <2>2
<1>7. CASE NextSubGame /\ Len(games) < NumGames /\ offset < MaxOffsets
  BY <1>4, <1>7 DEF NextSubGame
<1>8. CASE NextSubGame /\ ~(Len(games) < NumGames /\ offset < MaxOffsets)
  <2>1. ~spoilt' => ~spoilt
    BY <1>8, Zenon DEF NextSubGame
  <2>2. offset' = offset /\ chosen' = chosen /\ tick' = 0 /\ try' = 0
        /\ phase' = IF Len(games) = NumGames THEN "report" ELSE "short"
    BY <1>8 DEF NextSubGame, CloseMatch
  <2>3. Len(games) # NumGames => Len(games) < NumGames /\ offset = MaxOffsets
    BY <1>3, <1>8
  <2>4. QED
    BY <1>5, <2>1, <2>2, <2>3
<1>9. QED
  BY <1>6, <1>7, <1>8

(* A delayed request is handled after all. *)
LEMMA LateStep ==
    ASSUME IInv, NEW l \in late, HandleLate(l)
    PROVE  IInv'
<1>1. PICK req \in Requests : req = l
  BY DEF IInv, RefereeTypeOK
<1>2. /\ Handle(req) /\ late' \subseteq late
      /\ games' = games /\ offset' = offset /\ phase' = phase /\ tick' = tick /\ try' = try
      /\ chosen' = chosen
  BY <1>1 DEF HandleLate, refVars
<1>3. ~spoilt' => /\ ~spoilt
                  /\ ~(/\ req.kind = "move" /\ req.id = Id /\ req.offset # Attempt
                       /\ Greeted(req.role)
                       /\ session'[req.role][req.id] # session[req.role][req.id])
  BY <1>1, Zenon DEF HandleLate
<1>4. SessionsOK'
  BY <1>2, HandleEffect DEF IInv
<1>5. RefereeTypeOK'
  BY <1>2 DEF IInv, RefereeTypeOK
<1>6. Lockstep'
  BY <1>2 DEF IInv, Lockstep
<1>7. Attempt' = Attempt /\ Id' = Id /\ Playing' = Playing
  BY <1>2 DEF Attempt, Id, Playing
<1>8. GamesCounted'
  BY <1>2, <1>7 DEF IInv, GamesCounted
<1>9. GreetedPure'
  <2>1. SUFFICES ASSUME NEW r \in Roles, Greeted(r), ~spoilt'
                 PROVE  Pure(session'[r][Id], Attempt)
    BY <1>2, <1>7 DEF GreetedPure, Pure, Greeted
  <2>2. Playing /\ Pure(session[r][Id], Attempt)
    BY <1>3, <2>1 DEF IInv, GreetedPure, Greeted, Playing
  <2>3. Id \in Ids /\ Attempt \in Int
    BY <2>2, RequestTyped DEF IInv, Playing, Turns
  <2>4. PICK k \in Ids : k = Id
    BY <2>3
  <2>5. PICK a \in Int : a = Attempt
    BY <2>3
  <2>6. Pure(session[r][k], a)
    BY <2>2, <2>4, <2>5
  <2>7. req.kind = "move" /\ req.role = r /\ req.id = k /\ req.offset # a
          => session'[r][k] = session[r][k]
    BY <1>3, <2>1, <2>4, <2>5
  <2>8. Pure(session'[r][k], a)
    BY <1>2, <2>6, <2>7, PurityKept DEF IInv
  <2>9. QED
    BY <2>4, <2>5, <2>8
<1>10. OwnStream'
  BY <1>2, <1>3, <1>7 DEF IInv, OwnStream
<1>11. ExactlyNumGames'
  BY <1>2, <1>7 DEF IInv, ExactlyNumGames, Report
<1>12. QED
  BY <1>4, <1>5, <1>6, <1>8, <1>9, <1>10, <1>11 DEF IInv

(* The invariant is inductive. *)
LEMMA IInvStep ==
    ASSUME IInv, [Next]_vars
    PROVE  IInv'
<1>1. CASE Prewarm \/ NextSubGame
  BY <1>1, BetweenGamesStep
<1>2. CASE Reply
  <2>1. CASE Returns(Request)
    <3>1. CASE phase \in {"move_cop", "move_thief"}
      BY <1>2, <2>1, <3>1, MoveStep
    <3>2. CASE phase \in {"hello_cop", "hello_thief", "report"}
      BY <1>2, <2>1, <3>2, HelloOrReportStep
    <3>3. QED
      BY <1>2, <3>1, <3>2 DEF Reply, Turns
  <2>2. CASE ~Returns(Request)
    <3>1. /\ phase \in Turns /\ Handle(Request) /\ Fault
          /\ UNCHANGED <<offset, tick, chosen, spoilt>>
      BY <1>2, <2>2 DEF Reply
    <3>2. late' \subseteq Requests
      BY <1>2 DEF Reply, IInv, RefereeTypeOK
    <3>3. QED
      BY <3>1, <3>2, FaultStep
  <2>3. QED
    BY <2>1, <2>2
<1>3. CASE ReplyLost
  <2>1. /\ phase \in Turns /\ (Handle(Request) \/ UNCHANGED session) /\ Fault
        /\ UNCHANGED <<offset, tick, chosen, spoilt>>
    BY <1>3 DEF ReplyLost
  <2>2. late' \subseteq Requests
    BY <1>3 DEF ReplyLost, IInv, RefereeTypeOK
  <2>3. QED
    BY <2>1, <2>2, FaultStep
<1>4. CASE Delayed
  <2>1. /\ phase \in Turns /\ UNCHANGED session /\ Fault
        /\ UNCHANGED <<offset, tick, chosen, spoilt>>
    BY <1>4 DEF Delayed
  <2>2. Request \in Requests
    BY <2>1, RequestTyped DEF IInv
  <2>3. late' \subseteq Requests
    BY <1>4, <2>2 DEF Delayed, IInv, RefereeTypeOK
  <2>4. QED
    BY <2>1, <2>3, FaultStep
<1>5. ASSUME NEW l \in late, HandleLate(l)
      PROVE  IInv'
  BY <1>5, LateStep
<1>6. CASE UNCHANGED vars
  <2>1. /\ session' = session /\ games' = games /\ offset' = offset /\ phase' = phase
        /\ tick' = tick /\ try' = try /\ late' = late /\ chosen' = chosen
    BY <1>6 DEF vars, refVars
  <2>2. ~spoilt' => ~spoilt
    BY <1>6, Zenon DEF vars
  <2>3. SessionsOK' /\ RefereeTypeOK' /\ Lockstep'
    BY <2>1 DEF IInv, SessionsOK, RefereeTypeOK, Lockstep
  <2>4. Attempt' = Attempt /\ Id' = Id /\ Playing' = Playing
    BY <2>1 DEF Attempt, Id, Playing
  <2>5. GamesCounted' /\ ExactlyNumGames'
    BY <2>1, <2>4 DEF IInv, GamesCounted, ExactlyNumGames, Report
  <2>6. OwnStream'
    BY <2>1, <2>2, <2>4 DEF IInv, OwnStream
  <2>7. GreetedPure'
    <3>1. SUFFICES ASSUME NEW r \in Roles, Greeted(r), ~spoilt'
                   PROVE  Pure(session[r][Id], Attempt)
      BY <2>1, <2>4 DEF GreetedPure, Pure, Greeted
    <3>2. QED
      BY <2>2, <3>1 DEF IInv, GreetedPure
  <2>8. QED
    BY <2>3, <2>5, <2>6, <2>7 DEF IInv
<1>7. QED
  BY <1>1, <1>2, <1>3, <1>4, <1>5, <1>6 DEF Next, RefereeStep, Over

(* Nothing has been asked of the servers at first. *)
LEMMA IInvInit == Init => IInv
<1> SUFFICES ASSUME Init
             PROVE  IInv
  OBVIOUS
<1>1. SessionsOK
  BY DEF Init, SessionsOK, SessionOK
<1>2. RefereeTypeOK
  <2>1. Nothing \in [Roles -> Seq(Streams)]
    BY DEF Nothing
  <2>2. QED
    BY <2>1, ServerAssumption DEF Init, RefereeTypeOK
<1>3. Lockstep /\ (\A r \in Roles : ~Greeted(r))
  BY DEF Init, Lockstep, Greeted
<1>4. GamesCounted
  BY ServerAssumption DEF Init, GamesCounted, Playing
<1>5. GreetedPure
  BY <1>3 DEF GreetedPure
<1>6. OwnStream
  <2>1. \A r \in Roles : chosen[r] = <<>>
    BY DEF Init, Nothing
  <2>2. QED
    BY <2>1 DEF OwnStream
<1>7. ExactlyNumGames
  BY DEF Init, ExactlyNumGames, Report
<1>8. QED
  BY <1>1, <1>2, <1>3, <1>4, <1>5, <1>6, <1>7 DEF IInv

(* The invariant holds of every behaviour. *)
THEOREM MatchInvariance == Spec => []IInv
<1>1. Init => IInv
  BY IInvInit
<1>2. IInv /\ [Next]_vars => IInv'
  BY IInvStep
<1>3. QED
  BY <1>1, <1>2, PTL DEF Spec

(* The action accepted for a tick was chosen from a hidden state that       *)
(* advanced once a tick since its reset and, unless an older attempt's move *)
(* got into the session, on this attempt's observations alone: whatever of  *)
(* _call was lost, retried, delayed or handled late.                        *)
THEOREM StreamIsOwn == Spec => []OwnStream
<1>1. IInv => OwnStream
  BY DEF IInv
<1>2. QED
  BY <1>1, MatchInvariance, PTL

(* What play_match reports: exactly num_games sub-games in the order of     *)
(* their seeds, each with the moves both servers answered.                  *)
THEOREM ReportsExactlyNumGames == Spec => []ExactlyNumGames
<1>1. IInv => ExactlyNumGames
  BY DEF IInv
<1>2. QED
  BY <1>1, MatchInvariance, PTL
=============================================================================
