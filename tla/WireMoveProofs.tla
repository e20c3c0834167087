--------------------------- MODULE WireMoveProofs ---------------------------
(***************************************************************************)
(* Theorems about WireMove for every retry budget, worker cap, length of a *)
(* sub-game and number of late requests.                                   *)
(***************************************************************************)
EXTENDS WireMove, TLAPS

Policies == [seen : Seq(Views), switched : BOOLEAN]
Hellos == [kind : {"hello"}, sid : Sessions, attempt : Nat]
Moves == [kind : {"move"}, sid : Sessions, attempt : Nat, tick : Nat, view : Views]

AgentTypeOK ==
    /\ active \in Sessions \union {NoSession}
    /\ policy \in Policies
    /\ cache \in [Sessions -> Seq(Policies)]
    /\ snap \in [Sessions -> Policies]

RefereeTypeOK ==
    /\ sid \in Sessions /\ attempt \in Nat
    /\ phase \in {"hello", "play", "over"}
    /\ sent \in Seq(Views)
    /\ call \in {Idle} \union Hellos \union Moves
    /\ post \in {"none", "waiting", "answered"}
    /\ answer \in [ok : BOOLEAN, seen : Seq(Views)]
    /\ \A r \in late : r.body \in Hellos \union Moves
    /\ disturbed \in BOOLEAN

TypeOK == AgentTypeOK /\ RefereeTypeOK

(* What the policy had seen after tick t of session s. *)
Seen(s, t) == IF t = 0 THEN <<>> ELSE cache[s][t].seen

(* The agent alone: the cached answers of a session extend one another, one *)
(* view a tick; the newest is the state of the policy, if the session is    *)
(* active, and the snapshot is the one before it.                           *)
AgentInv ==
    /\ active # NoSession => policy.seen = Seen(active, Len(cache[active]))
    /\ \A s \in Sessions :
          /\ cache[s] # <<>> => snap[s].seen = Seen(s, Len(cache[s]) - 1)
          /\ \A t \in 1 .. Len(cache[s]) :
                /\ Len(Seen(s, t)) = t
                /\ \E v \in Views : Seen(s, t) = Append(Seen(s, t - 1), v)

(* The call under way belongs to the present attempt and the next tick.     *)
CallOfAttempt ==
    /\ post # "none" => call # Idle
    /\ call # Idle => call.sid = sid /\ call.attempt = attempt
    /\ call.kind = "hello" => phase = "hello"
    /\ call.kind = "move" => phase = "play" /\ call.tick = Len(sent)
    /\ phase = "hello" => sent = <<>>
    /\ phase = "over" => call = Idle

(* A late move of the present attempt is the call under way, or one whose   *)
(* answer was accepted.                                                     *)
LateOfAttempt ==
    phase # "over" => \A r \in late :
        /\ r.body.attempt <= attempt
        /\ r.body.kind = "move" /\ r.body.attempt = attempt =>
              /\ phase = "play" /\ r.body.sid = sid
              /\ \/ r.body = call
                 \/ r.body.tick < Len(sent) /\ r.body.view = sent[r.body.tick + 1]

(* As long as nothing stale was handled too late, the agent knows this      *)
(* attempt and has seen the accepted views, perhaps more.                   *)
Synchronous ==
    (phase = "play" \/ post = "answered") /\ ~disturbed =>
        /\ active = sid /\ Len(sent) <= Len(cache[sid])
        /\ Seen(sid, Len(sent)) = sent
        /\ Answered => Len(sent) < Len(cache[sid]) /\ Seen(sid, Len(sent) + 1) = answer.seen

IInv == TypeOK /\ AgentInv /\ CallOfAttempt /\ LateOfAttempt /\ Synchronous /\ InStep
-----------------------------------------------------------------------------
(* Acting on one more view appends it to what the policy has seen.          *)
LEMMA ActSees ==
    ASSUME NEW p \in Policies, NEW v \in Views
    PROVE  Act(p, v) \in Policies /\ Act(p, v).seen = Append(p.seen, v)
           /\ (p.switched => Act(p, v).switched)
BY DEF Act, Policies

(* A function on 1 .. n is a sequence of length n. *)
LEMMA SeqOfFunction ==
    ASSUME NEW S, NEW n \in Nat, NEW f \in [1 .. n -> S]
    PROVE  f \in Seq(S) /\ Len(f) = n
OBVIOUS

(* What a policy has seen is a sequence of views, one a tick. *)
LEMMA SeenTypes ==
    ASSUME AgentTypeOK, AgentInv, NEW s \in Sessions, NEW t \in 0 .. Len(cache[s])
    PROVE  Seen(s, t) \in Seq(Views) /\ Len(Seen(s, t)) = t
<1>1. CASE t = 0
  BY <1>1 DEF Seen
<1>2. CASE t # 0
  <2>1. Len(cache[s]) \in Nat /\ t \in 1 .. Len(cache[s])
    BY <1>2 DEF AgentTypeOK
  <2>2. cache[s][t] \in Policies
    BY <2>1 DEF AgentTypeOK
  <2>3. QED
    BY <1>2, <2>1, <2>2 DEF AgentInv, Seen, Policies
<1>3. QED
  BY <1>1, <1>2

(* What an advance starts from: the state before its tick, on a recompute   *)
(* as well; a switch that fired is kept.                                    *)
LEMMA BaseSees ==
    ASSUME AgentTypeOK, AgentInv, NEW b \in Moves, Advances(b)
    PROVE  /\ Base(b) \in Policies
           /\ b.tick <= Len(cache[b.sid]) /\ Len(cache[b.sid]) <= b.tick + 1
           /\ Base(b).seen = Seen(b.sid, b.tick)
           /\ policy.switched => Base(b).switched
<1>1. /\ b.sid \in Sessions /\ b.tick \in Nat /\ Len(cache[b.sid]) \in Nat
      /\ snap[b.sid] \in Policies /\ policy \in Policies
      /\ cache[b.sid] \in Seq(Policies)
  BY DEF Moves, AgentTypeOK
<1>2. b.sid = active /\ active # NoSession
  BY <1>1 DEF Advances, Sessions, NoSession
<1>3. CASE b.tick = Len(cache[b.sid])
  <2>1. Base(b) = policy
    BY <1>1, <1>3 DEF Base, Cached
  <2>2. QED
    BY <1>1, <1>2, <1>3, <2>1 DEF AgentInv
<1>4. CASE b.tick = Len(cache[b.sid]) - 1
  <2>1. cache[b.sid] # <<>>
    BY <1>1, <1>4
  <2>2. Base(b) = [snap[b.sid] EXCEPT !.switched = @ \/ policy.switched]
    BY <1>1, <1>4 DEF Base, Cached
  <2>3. Base(b) \in Policies /\ Base(b).seen = snap[b.sid].seen
        /\ (policy.switched => Base(b).switched)
    BY <1>1, <2>2 DEF Policies
  <2>4. QED
    BY <1>1, <1>4, <2>1, <2>3 DEF AgentInv
<1>5. QED
  BY <1>3, <1>4 DEF Advances, Newest

(* What request_move does to the agent: nothing, or the answer for its tick *)
(* is decided from the state before it, and what came before it stays.      *)
LEMMA ServeMoveEffect ==
    ASSUME AgentTypeOK, AgentInv, NEW b \in Moves, ServeMove(b)
    PROVE  /\ AgentTypeOK' /\ AgentInv' /\ active' = active
           /\ policy.switched => policy'.switched
           /\ ~Advances(b) => UNCHANGED <<policy, cache, snap>>
           /\ Advances(b) =>
                /\ Len(cache'[b.sid]) = b.tick + 1
                /\ \A t \in 0 .. b.tick : Seen(b.sid, t)' = Seen(b.sid, t)
                /\ Seen(b.sid, b.tick + 1)' = Append(Seen(b.sid, b.tick), b.view)
<1>1. /\ b.sid \in Sessions /\ b.tick \in Nat /\ b.view \in Views
      /\ Len(cache[b.sid]) \in Nat /\ cache[b.sid] \in Seq(Policies)
  BY DEF Moves, AgentTypeOK
<1>2. CASE ~Advances(b)
  <2>1. UNCHANGED agentVars
    BY <1>2 DEF ServeMove, agentVars
  <2>2. QED
    BY <1>2, <2>1 DEF agentVars, AgentTypeOK, AgentInv, Seen
<1>3. CASE Advances(b)
  <2> DEFINE old == cache[b.sid]
             new == [t \in 1 .. Len(old) \union {b.tick + 1} |-> IF t = b.tick + 1 THEN policy' ELSE old[t]]
  <2>1. /\ active' = active /\ policy' = Act(Base(b), b.view)
        /\ snap' = [snap EXCEPT ![b.sid] = Base(b)]
        /\ cache' = [cache EXCEPT ![b.sid] = new]
    BY <1>3 DEF ServeMove
  <2>2. b.tick <= Len(old) /\ Len(old) <= b.tick + 1
    BY <1>3, BaseSees
  <2>3. policy' \in Policies /\ policy'.seen = Append(Base(b).seen, b.view)
        /\ (policy.switched => policy'.switched)
    BY <1>1, <1>3, <2>1, ActSees, BaseSees
  <2>4. 1 .. Len(old) \union {b.tick + 1} = 1 .. (b.tick + 1)
    BY <1>1, <2>2
  <2>5. new \in Seq(Policies) /\ Len(new) = b.tick + 1
        /\ new[b.tick + 1] = policy' /\ \A t \in 1 .. b.tick : new[t] = old[t]
    <3>1. new \in [1 .. (b.tick + 1) -> Policies]
      BY <1>1, <2>2, <2>3, <2>4
    <3>2. b.tick + 1 \in Nat
      BY <1>1
    <3>3. new \in Seq(Policies) /\ Len(new) = b.tick + 1
      <4>1. \A f \in [1 .. (b.tick + 1) -> Policies] : f \in Seq(Policies) /\ Len(f) = b.tick + 1
        BY <3>2, SeqOfFunction
      <4>2. QED
        BY <3>1, <4>1
    <3>4. QED
      BY <1>1, <2>4, <3>3
  <2> HIDE DEF new
  <2>6. AgentTypeOK'
    <3>1. cache' \in [Sessions -> Seq(Policies)]
      BY <1>1, <2>1, <2>5 DEF AgentTypeOK
    <3>2. snap' \in [Sessions -> Policies]
      BY <1>1, <1>3, <2>1, BaseSees DEF AgentTypeOK
    <3>3. QED
      BY <2>1, <2>3, <3>1, <3>2 DEF AgentTypeOK
  <2>7. cache'[b.sid] = new /\ \A s \in Sessions \ {b.sid} : cache'[s] = cache[s] /\ snap'[s] = snap[s]
    BY <1>1, <2>1 DEF AgentTypeOK
  <2>8. \A t \in 0 .. b.tick : Seen(b.sid, t)' = Seen(b.sid, t)
    BY <1>1, <2>2, <2>5, <2>7 DEF Seen
  <2>9. Seen(b.sid, b.tick + 1)' = Append(Seen(b.sid, b.tick), b.view)
    <3>1. Seen(b.sid, b.tick + 1)' = policy'.seen
      BY <1>1, <2>5, <2>7 DEF Seen
    <3>2. Base(b).seen = Seen(b.sid, b.tick)
      BY <1>3, BaseSees
    <3>3. QED
      BY <2>3, <3>1, <3>2
  <2>10. AgentInv'
    <3>1. b.sid = active
      BY <1>3 DEF Advances
    <3>2. policy'.seen = Seen(active, Len(cache[active]))'
      <4>1. Len(cache'[active']) = b.tick + 1 /\ policy'.seen = Append(Seen(b.sid, b.tick), b.view)
        BY <1>3, <2>1, <2>3, <2>5, <2>7, <3>1, BaseSees
      <4>2. QED
        BY <2>1, <2>9, <3>1, <4>1
    <3>3. snap'[b.sid].seen = Seen(b.sid, Len(cache[b.sid]) - 1)'
      <4>1. snap'[b.sid] = Base(b)
        BY <1>1, <2>1 DEF AgentTypeOK
      <4>2. Len(cache'[b.sid]) - 1 = b.tick /\ b.tick \in 0 .. b.tick
        BY <1>1, <2>5, <2>7
      <4>3. Base(b).seen = Seen(b.sid, b.tick)
        BY <1>3, BaseSees
      <4>4. QED
        BY <2>8, <4>1, <4>2, <4>3
    <3>4. \A t \in 1 .. Len(cache'[b.sid]) :
            /\ Len(Seen(b.sid, t)') = t
            /\ \E v \in Views : Seen(b.sid, t)' = Append(Seen(b.sid, t - 1)', v)
      <4>1. TAKE t \in 1 .. Len(cache'[b.sid])
      <4>2. CASE t = b.tick + 1
        <5>1. Len(Seen(b.sid, b.tick)) = b.tick /\ Seen(b.sid, b.tick) \in Seq(Views)
          BY <1>1, <2>2, SeenTypes
        <5>2. Len(Append(Seen(b.sid, b.tick), b.view)) = b.tick + 1
          BY <1>1, <5>1
        <5>3. Seen(b.sid, t - 1)' = Seen(b.sid, b.tick)
          BY <1>1, <2>8, <4>2
        <5>4. QED
          BY <1>1, <2>9, <4>2, <5>2, <5>3
      <4>3. CASE t # b.tick + 1
        <5>1. t \in 1 .. (b.tick + 1)
          BY <2>5, <2>7
        <5>2. t \in 1 .. Len(old) /\ t \in 0 .. b.tick /\ t - 1 \in 0 .. b.tick
          BY <1>1, <2>2, <4>3, <5>1
        <5>3. Seen(b.sid, t)' = Seen(b.sid, t) /\ Seen(b.sid, t - 1)' = Seen(b.sid, t - 1)
          BY <2>8, <5>2
        <5>4. QED
          BY <1>1, <5>2, <5>3 DEF AgentInv
      <4>4. QED
        BY <4>2, <4>3
    <3>5. ASSUME NEW s \in Sessions \ {b.sid}
          PROVE  /\ cache'[s] # <<>> => snap'[s].seen = Seen(s, Len(cache[s]) - 1)'
                 /\ \A t \in 1 .. Len(cache'[s]) :
                       /\ Len(Seen(s, t)') = t
                       /\ \E v \in Views : Seen(s, t)' = Append(Seen(s, t - 1)', v)
      <4>1. cache'[s] = cache[s] /\ snap'[s] = snap[s]
        BY <2>7
      <4>2. cache[s] # <<>> => snap[s].seen = Seen(s, Len(cache[s]) - 1)
        BY DEF AgentInv
      <4>3. \A t \in 1 .. Len(cache[s]) :
               Len(Seen(s, t)) = t /\ \E v \in Views : Seen(s, t) = Append(Seen(s, t - 1), v)
        BY DEF AgentInv
      <4>4. QED
        BY <4>1, <4>2, <4>3 DEF Seen
    <3>6. \A s \in Sessions :
            /\ cache'[s] # <<>> => snap'[s].seen = Seen(s, Len(cache[s]) - 1)'
            /\ \A t \in 1 .. Len(cache'[s]) :
                  /\ Len(Seen(s, t)') = t
                  /\ \E v \in Views : Seen(s, t)' = Append(Seen(s, t - 1)', v)
      BY <3>3, <3>4, <3>5
    <3>7. QED
      BY <3>2, <3>6 DEF AgentInv
  <2>11. QED
    BY <1>3, <2>1, <2>3, <2>5, <2>6, <2>7, <2>8, <2>9, <2>10
<1>4. QED
  BY <1>2, <1>3

(* What a hello does: its session starts empty, with a policy that has seen *)
(* nothing; the others keep their answers or are evicted.                   *)
LEMMA HelloEffect ==
    ASSUME AgentTypeOK, AgentInv, NEW s \in Sessions, NewSubGame(s)
    PROVE  /\ AgentTypeOK' /\ AgentInv' /\ active' = s
           /\ cache'[s] = <<>>
           /\ policy.switched => policy'.switched
<1> DEFINE Gone(x) == x = s \/ x \notin ToSet(Kept(Append(Remove(registry, s), s)))
<1>1. /\ active' = s
      /\ policy' = [Fresh EXCEPT !.switched = policy.switched]
      /\ cache' = [x \in Sessions |-> IF Gone(x) THEN <<>> ELSE cache[x]]
      /\ snap' = [x \in Sessions |-> IF Gone(x) THEN Fresh ELSE snap[x]]
  BY DEF NewSubGame
<1> HIDE DEF Gone
<1>2. Fresh \in Policies
  BY DEF Fresh, Policies
<1>3. policy' \in Policies /\ policy'.seen = <<>> /\ (policy.switched => policy'.switched)
  <2>1. policy' = [seen |-> <<>>, switched |-> policy.switched]
    BY <1>1 DEF Fresh
  <2>2. policy.switched \in BOOLEAN
    BY DEF AgentTypeOK, Policies
  <2>3. QED
    BY <2>1, <2>2 DEF Policies
<1>4. AgentTypeOK'
  BY <1>1, <1>2, <1>3 DEF AgentTypeOK
<1>5. cache'[s] = <<>>
  BY <1>1 DEF Gone
<1>6. \A x \in Sessions : cache'[x] = <<>> \/ (cache'[x] = cache[x] /\ snap'[x] = snap[x])
  BY <1>1
<1>7. policy'.seen = Seen(s, Len(cache[s]))'
  BY <1>3, <1>5 DEF Seen
<1>8. ASSUME NEW x \in Sessions
      PROVE  /\ cache'[x] # <<>> => snap'[x].seen = Seen(x, Len(cache[x]) - 1)'
             /\ \A t \in 1 .. Len(cache'[x]) :
                   /\ Len(Seen(x, t)') = t
                   /\ \E v \in Views : Seen(x, t)' = Append(Seen(x, t - 1)', v)
  <2>1. CASE cache'[x] = <<>>
    BY <2>1
  <2>2. CASE cache'[x] = cache[x] /\ snap'[x] = snap[x]
    <3>1. cache[x] # <<>> => snap[x].seen = Seen(x, Len(cache[x]) - 1)
      BY DEF AgentInv
    <3>2. \A t \in 1 .. Len(cache[x]) :
             Len(Seen(x, t)) = t /\ \E v \in Views : Seen(x, t) = Append(Seen(x, t - 1), v)
      BY DEF AgentInv
    <3>3. QED
      BY <2>2, <3>1, <3>2 DEF Seen
  <2>3. QED
    BY <1>6, <2>1, <2>2
<1>9. QED
  BY <1>1, <1>3, <1>4, <1>5, <1>7, <1>8 DEF AgentInv

(* Whatever request the agent handles, whenever it handles it.              *)
LEMMA HandleEffect ==
    ASSUME AgentTypeOK, AgentInv, NEW b \in Hellos \union Moves, Handle(b)
    PROVE  AgentTypeOK' /\ AgentInv' /\ (policy.switched => policy'.switched)
<1>1. CASE b \in Hellos
  BY <1>1, HelloEffect DEF Handle, Hellos
<1>2. CASE b \in Moves
  BY <1>2, ServeMoveEffect DEF Handle, Moves
<1>3. QED
  BY <1>1, <1>2

(* An answer other than a refusal is what the policy saw up to its tick and *)
(* the view asked about, and from then on it is the cached one.             *)
LEMMA ReplyIsInStep ==
    ASSUME AgentTypeOK, AgentInv, NEW b \in Moves, ServeMove(b), Reply(b).ok
    PROVE  /\ b.tick < Len(cache'[b.sid])
           /\ Reply(b).seen = Append(Seen(b.sid, b.tick), b.view)
           /\ Reply(b).seen = Seen(b.sid, b.tick + 1)'
           /\ Seen(b.sid, b.tick)' = Seen(b.sid, b.tick)
           /\ Reply(b).seen \in Seq(Views)
           /\ Len(Reply(b).seen) = b.tick + 1 /\ Last(Reply(b).seen) = b.view
           /\ b.tick <= Len(cache[b.sid])
<1>1. /\ b.sid \in Sessions /\ b.tick \in Nat /\ b.view \in Views
      /\ Len(cache[b.sid]) \in Nat /\ cache[b.sid] \in Seq(Policies)
  BY DEF Moves, AgentTypeOK
<1>2. CASE Advances(b)
  <2>1. Base(b) \in Policies /\ Base(b).seen = Seen(b.sid, b.tick) /\ b.tick <= Len(cache[b.sid])
    BY <1>2, BaseSees
  <2>2. Reply(b).seen = Append(Seen(b.sid, b.tick), b.view)
    BY <1>1, <1>2, <2>1, ActSees DEF Reply
  <2>3. Seen(b.sid, b.tick) \in Seq(Views) /\ Len(Seen(b.sid, b.tick)) = b.tick
    BY <1>1, <2>1, SeenTypes
  <2>4. /\ Len(cache'[b.sid]) = b.tick + 1
        /\ \A t \in 0 .. b.tick : Seen(b.sid, t)' = Seen(b.sid, t)
        /\ Seen(b.sid, b.tick + 1)' = Append(Seen(b.sid, b.tick), b.view)
    BY <1>2, ServeMoveEffect
  <2>5. Reply(b).seen \in Seq(Views) /\ Len(Reply(b).seen) = b.tick + 1 /\ Last(Reply(b).seen) = b.view
    BY <1>1, <2>2, <2>3 DEF Last
  <2>6. Seen(b.sid, b.tick)' = Seen(b.sid, b.tick) /\ b.tick < Len(cache'[b.sid])
    BY <1>1, <2>4
  <2>7. QED
    BY <2>1, <2>2, <2>4, <2>5, <2>6
<1>3. CASE ~Advances(b)
  <2>1. Repeated(b) /\ Reply(b).seen = CachedAnswer(b)
    BY <1>3 DEF Reply, Refusal
  <2>2. b.tick < Len(cache[b.sid]) /\ Last(CachedAnswer(b)) = b.view
    BY <2>1 DEF Repeated, Cached
  <2>3. CachedAnswer(b) = Seen(b.sid, b.tick + 1)
    BY <1>1 DEF CachedAnswer, Seen
  <2>4. b.tick + 1 \in 1 .. Len(cache[b.sid]) /\ b.tick \in 0 .. Len(cache[b.sid]) /\ (b.tick + 1) - 1 = b.tick
    BY <1>1, <2>2
  <2>5. PICK v \in Views : Seen(b.sid, b.tick + 1) = Append(Seen(b.sid, b.tick), v)
    BY <1>1, <2>4 DEF AgentInv
  <2>6. Seen(b.sid, b.tick) \in Seq(Views) /\ Len(Seen(b.sid, b.tick)) = b.tick
    BY <1>1, <2>4, SeenTypes
  <2>7. v = b.view
    BY <1>1, <2>2, <2>3, <2>5, <2>6 DEF Last
  <2>8. UNCHANGED cache
    BY <1>3, ServeMoveEffect
  <2>9. /\ Seen(b.sid, b.tick)' = Seen(b.sid, b.tick)
        /\ Seen(b.sid, b.tick + 1)' = Seen(b.sid, b.tick + 1)
        /\ Len(cache'[b.sid]) = Len(cache[b.sid])
    BY <2>8 DEF Seen
  <2>10. Len(Append(Seen(b.sid, b.tick), b.view)) = b.tick + 1
         /\ Append(Seen(b.sid, b.tick), b.view) \in Seq(Views)
    BY <1>1, <2>6
  <2>11. Reply(b).seen = Append(Seen(b.sid, b.tick), b.view)
    BY <2>1, <2>3, <2>5, <2>7
  <2>12. Reply(b).seen = Seen(b.sid, b.tick + 1)' /\ Last(Reply(b).seen) = b.view
    BY <2>1, <2>2, <2>3, <2>9
  <2>13. b.tick < Len(cache'[b.sid]) /\ b.tick <= Len(cache[b.sid])
    BY <1>1, <2>2, <2>9
  <2>14. QED
    BY <2>9, <2>10, <2>11, <2>12, <2>13
<1>4. QED
  BY <1>2, <1>3
-----------------------------------------------------------------------------
(* A void greets a session that exists. *)
LEMMA VoidGreets ==
    ASSUME IInv, Void
    PROVE  \E s \in Sessions : NextAttempt(s)
<1>1. \A s \in 1 .. sid : s \in Sessions
  BY AgentAssumption DEF IInv, TypeOK, RefereeTypeOK, Sessions
<1>2. QED
  BY <1>1 DEF Void

(* The next attempt, or the end: nothing is claimed of it yet.              *)
LEMMA NextAttemptStep ==
    ASSUME IInv, NEW s \in Sessions, NextAttempt(s), phase # "over", AgentTypeOK', AgentInv',
           \A r \in late' : r \in late \/ (r.body = call /\ post # "none")
    PROVE  IInv'
<1>1. /\ sent' = <<>> /\ call' = Idle /\ post' = "none" /\ answer' = Refusal /\ disturbed' = FALSE
      /\ \/ attempt' = attempt + 1 /\ phase' = "hello" /\ sid' = s
         \/ phase' = "over" /\ attempt' = attempt /\ sid' = sid
  BY DEF NextAttempt
<1>2. ASSUME NEW r \in late'
      PROVE  r.body \in Hellos \union Moves /\ r.body.attempt <= attempt /\ r.body.attempt \in Nat
  <2>1. CASE r \in late
    BY <2>1 DEF IInv, TypeOK, RefereeTypeOK, LateOfAttempt, Hellos, Moves
  <2>2. CASE r.body = call /\ post # "none"
    <3>1. call \in Hellos \union Moves /\ call.attempt = attempt
      BY <2>2 DEF IInv, TypeOK, RefereeTypeOK, CallOfAttempt
    <3>2. attempt \in Nat
      BY DEF IInv, TypeOK, RefereeTypeOK
    <3>3. QED
      BY <2>2, <3>1, <3>2
  <2>3. QED
    BY <1>2, <2>1, <2>2
<1>3. attempt \in Nat /\ sid \in Sessions
  BY DEF IInv, TypeOK, RefereeTypeOK
<1>4. RefereeTypeOK'
  <2>1. Refusal \in [ok : BOOLEAN, seen : Seq(Views)] /\ <<>> \in Seq(Views)
    BY DEF Refusal
  <2>2. attempt' \in Nat /\ sid' \in Sessions /\ phase' \in {"hello", "play", "over"}
    BY <1>1, <1>3
  <2>3. QED
    BY <1>1, <1>2, <2>1, <2>2 DEF RefereeTypeOK
<1>5. CallOfAttempt'
  BY <1>1 DEF CallOfAttempt, Idle
<1>6. LateOfAttempt'
  BY <1>1, <1>2, <1>3 DEF LateOfAttempt
<1>7. Synchronous' /\ InStep'
  BY <1>1 DEF Synchronous, InStep, Answered
<1>8. QED
  BY <1>4, <1>5, <1>6, <1>7 DEF IInv, TypeOK

(* A retry of the same call, or any step that leaves agent and attempt be.  *)
LEMMA QuietStep ==
    ASSUME IInv, UNCHANGED <<agentVars, refVars, disturbed>>,
           \/ post' \in {"none", "waiting"} /\ answer' \in {answer, Refusal} /\ (call = Idle => post' = "none")
           \/ UNCHANGED <<post, answer>>,
           \A r \in late' : r \in late \/ (r.body = call /\ post # "none")
    PROVE  IInv'
<1>1. AgentTypeOK' /\ AgentInv'
  BY DEF IInv, TypeOK, AgentTypeOK, AgentInv, Seen, agentVars
<1>2. /\ sid' = sid /\ attempt' = attempt /\ phase' = phase /\ sent' = sent /\ call' = call
      /\ disturbed' = disturbed /\ active' = active /\ cache' = cache
  BY DEF refVars, agentVars
<1>3. post # "none" => call \in Hellos \union Moves /\ call.sid = sid /\ call.attempt = attempt
  BY DEF IInv, TypeOK, RefereeTypeOK, CallOfAttempt
<1>4. RefereeTypeOK'
  <2>1. Refusal \in [ok : BOOLEAN, seen : Seq(Views)]
    BY DEF Refusal
  <2>2. \A r \in late' : r.body \in Hellos \union Moves
    BY <1>3 DEF IInv, TypeOK, RefereeTypeOK
  <2>3. post' \in {"none", "waiting", "answered"} /\ answer' \in [ok : BOOLEAN, seen : Seq(Views)]
    BY <2>1 DEF IInv, TypeOK, RefereeTypeOK
  <2>4. QED
    BY <1>2, <2>2, <2>3 DEF IInv, TypeOK, RefereeTypeOK
<1>5. CallOfAttempt'
  BY <1>2 DEF IInv, CallOfAttempt
<1>6. LateOfAttempt'
  <2>1. attempt \in Nat
    BY DEF IInv, TypeOK, RefereeTypeOK
  <2>2. SUFFICES ASSUME phase # "over", NEW r \in late'
                 PROVE  /\ r.body.attempt <= attempt
                        /\ r.body.kind = "move" /\ r.body.attempt = attempt =>
                             /\ phase = "play" /\ r.body.sid = sid
                             /\ \/ r.body = call
                                \/ r.body.tick < Len(sent) /\ r.body.view = sent[r.body.tick + 1]
    BY <1>2 DEF LateOfAttempt
  <2>3. CASE r \in late
    BY <2>2, <2>3 DEF IInv, LateOfAttempt
  <2>4. CASE r.body = call /\ post # "none"
    BY <1>3, <2>1, <2>4 DEF IInv, CallOfAttempt
  <2>5. QED
    BY <2>2, <2>3, <2>4
<1>7. Answered' => Answered /\ UNCHANGED <<post, answer>>
  BY <1>2 DEF Answered
<1>8. Synchronous'
  BY <1>2, <1>7 DEF IInv, Synchronous, Seen, Answered
<1>9. InStep'
  BY <1>2, <1>7 DEF IInv, InStep
<1>10. QED
  BY <1>1, <1>4, <1>5, <1>6, <1>8, <1>9 DEF IInv, TypeOK

(* A fault is a retry or the end of the attempt. *)
LEMMA FaultStep ==
    ASSUME IInv, NEW n, Fault(n), call # Idle, UNCHANGED agentVars,
           \A r \in late' : r \in late \/ (r.body = call /\ post # "none")
    PROVE  IInv'
<1>1. CASE try < Retries
  BY <1>1, QuietStep DEF Fault
<1>2. CASE ~(try < Retries)
  <2>1. PICK s \in Sessions : NextAttempt(s) /\ phase # "over"
    BY <1>2, VoidGreets DEF Fault, IInv, CallOfAttempt
  <2>2. AgentTypeOK' /\ AgentInv'
    BY DEF IInv, TypeOK, AgentTypeOK, AgentInv, Seen, agentVars
  <2>3. QED
    BY <2>1, <2>2, NextAttemptStep
<1>3. QED
  BY <1>1, <1>2

(* The referee begins a call of this attempt. *)
LEMMA BeginStep ==
    ASSUME IInv, CallHello \/ \E v \in Views : CallMove(v)
    PROVE  IInv'
<1>1. PICK b \in Hellos \union Moves :
        /\ Begin(b) /\ b.sid = sid /\ b.attempt = attempt
        /\ b.kind = "hello" => phase = "hello"
        /\ b.kind = "move" => phase = "play" /\ b.tick = Len(sent)
  <2>1. sid \in Sessions /\ attempt \in Nat /\ Len(sent) \in Nat
    BY DEF IInv, TypeOK, RefereeTypeOK
  <2>2. CASE CallHello
    <3>1. [kind |-> "hello", sid |-> sid, attempt |-> attempt] \in Hellos
      BY <2>1 DEF Hellos
    <3>2. QED
      BY <2>2, <3>1 DEF CallHello
  <2>3. ASSUME NEW v \in Views, CallMove(v)
        PROVE  \E b \in Hellos \union Moves :
                  /\ Begin(b) /\ b.sid = sid /\ b.attempt = attempt
                  /\ b.kind = "hello" => phase = "hello"
                  /\ b.kind = "move" => phase = "play" /\ b.tick = Len(sent)
    <3>1. [kind |-> "move", sid |-> sid, attempt |-> attempt, tick |-> Len(sent), view |-> v] \in Moves
      BY <2>1 DEF Moves
    <3>2. QED
      BY <2>3, <3>1 DEF CallMove
  <2>4. QED
    BY <2>2, <2>3
<1>2. /\ call = Idle /\ call' = b /\ post = "none" /\ b # Idle
      /\ UNCHANGED <<agentVars, sid, attempt, phase, sent, post, answer, late, disturbed>>
  BY <1>1 DEF Begin, IInv, CallOfAttempt, Idle, Hellos, Moves
<1>3. phase # "over"
  BY <1>1 DEF Hellos, Moves
<1>4. AgentTypeOK' /\ AgentInv'
  BY <1>2 DEF IInv, TypeOK, AgentTypeOK, AgentInv, Seen, agentVars
<1>5. RefereeTypeOK'
  BY <1>2 DEF IInv, TypeOK, RefereeTypeOK
<1>6. CallOfAttempt'
  BY <1>1, <1>2, <1>3 DEF IInv, CallOfAttempt
<1>7. LateOfAttempt'
  BY <1>2 DEF IInv, LateOfAttempt, Idle
<1>8. Synchronous' /\ InStep'
  BY <1>2 DEF IInv, Synchronous, InStep, Answered, Seen, agentVars
<1>9. QED
  BY <1>4, <1>5, <1>6, <1>7, <1>8 DEF IInv, TypeOK

(* The agent handles the call under way. *)
LEMMA ArriveStep ==
    ASSUME IInv, Arrive
    PROVE  IInv'
<1>1. /\ post = "waiting" /\ post' = "answered" /\ Handle(call)
      /\ answer' = IF call.kind = "hello" THEN [ok |-> TRUE, seen |-> <<>>] ELSE Reply(call)
      /\ UNCHANGED <<sid, attempt, phase, sent, call, late, disturbed>>
  BY DEF Arrive, refVars
<1>2. call \in Hellos \union Moves /\ call.sid = sid /\ call.attempt = attempt
  BY <1>1 DEF IInv, TypeOK, RefereeTypeOK, CallOfAttempt
<1>3. AgentTypeOK' /\ AgentInv'
  BY <1>1, <1>2, HandleEffect DEF IInv, TypeOK
<1>4. CallOfAttempt'
  BY <1>1 DEF IInv, CallOfAttempt
<1>5. LateOfAttempt'
  BY <1>1 DEF IInv, LateOfAttempt
<1>6. CASE call \in Hellos
  <2>1. active' = sid /\ cache'[sid] = <<>> /\ sent = <<>> /\ answer' = [ok |-> TRUE, seen |-> <<>>]
        /\ call.kind = "hello"
    BY <1>1, <1>2, <1>6, HelloEffect DEF Handle, Hellos, IInv, TypeOK, CallOfAttempt
  <2>2. Synchronous' /\ InStep'
    BY <1>1, <2>1 DEF Synchronous, InStep, Answered, Seen
  <2>3. RefereeTypeOK'
    <3>1. answer' \in [ok : BOOLEAN, seen : Seq(Views)]
      BY <2>1
    <3>2. QED
      BY <1>1, <3>1 DEF IInv, TypeOK, RefereeTypeOK
  <2>4. QED
    BY <1>3, <1>4, <1>5, <2>2, <2>3 DEF IInv, TypeOK
<1>7. CASE call \in Moves
  <2>1. ServeMove(call) /\ answer' = Reply(call) /\ call.kind = "move" /\ phase = "play"
        /\ call.tick = Len(sent)
    BY <1>1, <1>7 DEF Handle, Moves, IInv, CallOfAttempt
  <2>2. AgentTypeOK /\ AgentInv /\ Refusal \in [ok : BOOLEAN, seen : Seq(Views)]
    BY DEF IInv, TypeOK, Refusal
  <2>3. CASE Reply(call).ok
    <3>1. /\ call.tick < Len(cache'[call.sid])
          /\ Reply(call).seen = Append(Seen(call.sid, call.tick), call.view)
          /\ Reply(call).seen = Seen(call.sid, call.tick + 1)'
          /\ Seen(call.sid, call.tick)' = Seen(call.sid, call.tick)
          /\ Reply(call).seen \in Seq(Views)
          /\ Len(Reply(call).seen) = call.tick + 1 /\ Last(Reply(call).seen) = call.view
          /\ active' = active
      <4>1. active' = active
        BY <2>1 DEF ServeMove
      <4>2. PICK b \in Moves : b = call
        BY <1>7
      <4>3. /\ b.tick < Len(cache'[b.sid])
            /\ Reply(b).seen = Append(Seen(b.sid, b.tick), b.view)
            /\ Reply(b).seen = Seen(b.sid, b.tick + 1)'
            /\ Seen(b.sid, b.tick)' = Seen(b.sid, b.tick)
            /\ Reply(b).seen \in Seq(Views)
            /\ Len(Reply(b).seen) = b.tick + 1 /\ Last(Reply(b).seen) = b.view
        BY <2>1, <2>2, <2>3, <4>2, ReplyIsInStep
      <4>4. QED
        BY <1>1, <4>1, <4>2, <4>3
    <3>2. answer' \in [ok : BOOLEAN, seen : Seq(Views)]
      BY <2>1, <2>2, <3>1 DEF Reply
    <3>3. RefereeTypeOK'
      BY <1>1, <3>2 DEF IInv, TypeOK, RefereeTypeOK
    <3>4. ~disturbed => active = sid /\ Seen(sid, Len(sent)) = sent
      BY <2>1 DEF IInv, Synchronous
    <3>5. Synchronous'
      <4>1. Len(sent) \in Nat /\ Len(cache'[sid]) \in Nat
        BY <1>3 DEF IInv, TypeOK, RefereeTypeOK, AgentTypeOK
      <4>2. Seen(sid, Len(sent))' = Seen(sid, Len(sent)) /\ Seen(sid, Len(sent) + 1)' = answer'.seen
            /\ Len(sent) < Len(cache'[sid])
        BY <1>1, <1>2, <2>1, <3>1 DEF Seen
      <4>3. QED
        BY <1>1, <3>1, <3>4, <4>1, <4>2 DEF Synchronous
    <3>6. InStep'
      BY <1>1, <1>2, <2>1, <3>1, <3>4 DEF InStep
    <3>7. QED
      BY <1>3, <1>4, <1>5, <3>3, <3>5, <3>6 DEF IInv, TypeOK
  <2>4. CASE ~Reply(call).ok
    <3>1. ~Advances(call) /\ Reply(call) = Refusal
      BY <2>4 DEF Reply
    <3>2. UNCHANGED <<cache, active>>
      BY <1>7, <2>1, <2>2, <3>1, ServeMoveEffect
    <3>3. RefereeTypeOK'
      BY <1>1, <2>1, <2>2, <3>1 DEF IInv, TypeOK, RefereeTypeOK
    <3>4. ~Answered'
      BY <2>1, <2>4 DEF Answered
    <3>5. Synchronous' /\ InStep'
      BY <1>1, <2>1, <3>2, <3>4 DEF IInv, Synchronous, InStep, Seen
    <3>6. QED
      BY <1>3, <1>4, <1>5, <3>3, <3>5 DEF IInv, TypeOK
  <2>5. QED
    BY <2>3, <2>4
<1>8. QED
  BY <1>2, <1>6, <1>7

(* An accepted answer makes the call's view the newest accepted one.        *)
LEMMA AcceptStep ==
    ASSUME IInv, Accept
    PROVE  IInv'
<1>1. /\ post = "answered" /\ answer.ok /\ call' = Idle /\ post' = "none" /\ answer' = Refusal
      /\ phase' = "play"
      /\ sent' = IF call.kind = "move" THEN Append(sent, call.view) ELSE sent
      /\ UNCHANGED <<agentVars, sid, attempt, late, disturbed>>
  BY DEF Accept
<1>2. call \in Hellos \union Moves /\ sent \in Seq(Views) /\ Len(sent) \in Nat
      /\ call.sid = sid /\ call.attempt = attempt
  BY <1>1 DEF IInv, TypeOK, RefereeTypeOK, CallOfAttempt
<1>3. AgentTypeOK' /\ AgentInv'
  BY <1>1 DEF IInv, TypeOK, AgentTypeOK, AgentInv, Seen, agentVars
<1>4. CallOfAttempt'
  BY <1>1 DEF CallOfAttempt, Idle
<1>5. ~Answered'
  BY <1>1 DEF Answered
<1>6. InStep'
  BY <1>5 DEF InStep
<1>7. Refusal \in [ok : BOOLEAN, seen : Seq(Views)]
  BY DEF Refusal
<1>8. CASE call \in Hellos
  <2>1. call.kind = "hello" /\ phase = "hello" /\ sent = <<>> /\ sent' = sent
    BY <1>1, <1>8 DEF Hellos, IInv, CallOfAttempt
  <2>2. RefereeTypeOK'
    BY <1>1, <1>7, <2>1 DEF IInv, TypeOK, RefereeTypeOK
  <2>3. LateOfAttempt'
    BY <1>1, <2>1 DEF IInv, LateOfAttempt
  <2>4. Synchronous'
    BY <1>1, <1>5, <2>1 DEF IInv, Synchronous, Seen, agentVars
  <2>5. QED
    BY <1>3, <1>4, <1>6, <2>2, <2>3, <2>4 DEF IInv, TypeOK
<1>9. CASE call \in Moves
  <2>1. /\ call.kind = "move" /\ call.view \in Views /\ phase = "play" /\ call.tick = Len(sent)
        /\ sent' = Append(sent, call.view)
    BY <1>1, <1>9 DEF Moves, IInv, CallOfAttempt
  <2>2. /\ sent' \in Seq(Views) /\ Len(sent') = Len(sent) + 1
        /\ \A i \in 1 .. Len(sent) : sent'[i] = sent[i]
        /\ sent'[Len(sent) + 1] = call.view
    BY <1>2, <2>1
  <2>3. RefereeTypeOK'
    BY <1>1, <1>7, <2>2 DEF IInv, TypeOK, RefereeTypeOK
  <2>4. LateOfAttempt'
    <3>1. SUFFICES ASSUME NEW r \in late
                   PROVE  /\ r.body.attempt <= attempt
                          /\ r.body.kind = "move" /\ r.body.attempt = attempt =>
                                /\ r.body.sid = sid
                                /\ r.body.tick < Len(sent') /\ r.body.view = sent'[r.body.tick + 1]
      BY <1>1 DEF LateOfAttempt
    <3>2. r.body.attempt <= attempt
      BY <2>1, <3>1 DEF IInv, LateOfAttempt
    <3>3. ASSUME r.body.kind = "move", r.body.attempt = attempt
          PROVE  /\ r.body.sid = sid
                 /\ r.body.tick < Len(sent') /\ r.body.view = sent'[r.body.tick + 1]
      <4>1. r.body \in Moves
        BY <3>1, <3>3 DEF IInv, TypeOK, RefereeTypeOK, Hellos
      <4>2. r.body.tick \in Nat
        BY <4>1 DEF Moves
      <4>3. /\ r.body.sid = sid
            /\ r.body = call \/ (r.body.tick < Len(sent) /\ r.body.view = sent[r.body.tick + 1])
        BY <2>1, <3>1, <3>3 DEF IInv, LateOfAttempt
      <4>4. CASE r.body = call
        BY <1>2, <2>1, <2>2, <4>3, <4>4
      <4>5. CASE r.body.tick < Len(sent) /\ r.body.view = sent[r.body.tick + 1]
        <5>1. r.body.tick + 1 \in 1 .. Len(sent) /\ r.body.tick < Len(sent')
          BY <1>2, <2>2, <4>2, <4>5
        <5>2. QED
          BY <2>2, <4>3, <4>5, <5>1
      <4>6. QED
        BY <4>3, <4>4, <4>5
    <3>4. QED
      BY <3>2, <3>3
  <2>5. ~disturbed => /\ active = sid /\ Len(sent) < Len(cache[sid])
                      /\ Seen(sid, Len(sent) + 1) = sent'
    BY <1>1, <2>1 DEF IInv, Synchronous, InStep, Answered
  <2>6. Len(cache[sid]) \in Nat
    BY DEF IInv, TypeOK, RefereeTypeOK, AgentTypeOK
  <2>7. ~disturbed => Len(sent') <= Len(cache[sid]) /\ Seen(sid, Len(sent')) = sent'
    BY <1>2, <2>2, <2>5, <2>6
  <2>8. Synchronous'
    BY <1>1, <1>5, <2>5, <2>7 DEF Synchronous, Seen, agentVars
  <2>9. QED
    BY <1>3, <1>4, <1>6, <2>3, <2>4, <2>8 DEF IInv, TypeOK
<1>10. QED
  BY <1>2, <1>8, <1>9

(* An abandoned request is handled: of an older attempt it leaves what was  *)
(* accepted alone or is counted as a disturbance, of this attempt it can    *)
(* only decide the tick under way, on the body asked about.                 *)
LEMMA LateStep ==
    ASSUME IInv, NEW r \in late, HandleLate(r)
    PROVE  IInv'
<1> DEFINE b == r.body
<1>1. /\ late' = late \ {r} /\ Handle(b)
      /\ UNCHANGED <<sid, attempt, phase, sent, call, post, answer>>
  BY DEF HandleLate, refVars, postVars
<1>1a. ~disturbed' => /\ ~disturbed /\ b.kind # "hello"
                      /\ ~(b.attempt < attempt /\ b.sid = active /\ Newest(b) /\ ~Repeated(b))
  BY Zenon DEF HandleLate
<1>2. b \in Hellos \union Moves
  BY DEF IInv, TypeOK, RefereeTypeOK
<1> HIDE DEF b
<1>3. AgentTypeOK' /\ AgentInv'
  BY <1>1, <1>2, HandleEffect DEF IInv, TypeOK
<1>4. disturbed' \in BOOLEAN
  BY Zenon DEF HandleLate
<1>5. RefereeTypeOK'
  BY <1>1, <1>4 DEF IInv, TypeOK, RefereeTypeOK
<1>6. CallOfAttempt' /\ LateOfAttempt'
  BY <1>1 DEF IInv, CallOfAttempt, LateOfAttempt
<1>7. InStep'
  BY <1>1, <1>1a DEF IInv, InStep, Answered
<1>8. ASSUME ~disturbed', phase = "play" \/ post = "answered"
      PROVE  /\ active' = sid /\ Len(sent) <= Len(cache'[sid])
             /\ Seen(sid, Len(sent))' = sent
             /\ Answered => Len(sent) < Len(cache'[sid]) /\ Seen(sid, Len(sent) + 1)' = answer.seen
  <2>1. /\ ~disturbed /\ b.kind # "hello" /\ b \in Moves
        /\ b.attempt < attempt /\ b.sid = active /\ ~Repeated(b) => ~Newest(b)
    BY <1>2, <1>8, <1>1a DEF Hellos
  <2>2. /\ active = sid /\ Len(sent) <= Len(cache[sid]) /\ Seen(sid, Len(sent)) = sent
        /\ Answered => Len(sent) < Len(cache[sid]) /\ Seen(sid, Len(sent) + 1) = answer.seen
    BY <1>8, <2>1 DEF IInv, Synchronous
  <2>3. ServeMove(b) /\ active' = active
    BY <1>1, <2>1 DEF Handle, ServeMove
  <2>4. Len(sent) \in Nat /\ Len(cache[sid]) \in Nat /\ b.tick \in Nat /\ attempt \in Nat /\ b.attempt \in Nat
    BY <2>1 DEF IInv, TypeOK, RefereeTypeOK, AgentTypeOK, Moves
  <2>5. AgentTypeOK /\ AgentInv
    BY DEF IInv, TypeOK
  <2>6. CASE ~Advances(b)
    <3>1. UNCHANGED cache
      BY <2>1, <2>3, <2>5, <2>6, ServeMoveEffect
    <3>2. QED
      <4>1. Seen(sid, Len(sent))' = Seen(sid, Len(sent)) /\ Seen(sid, Len(sent) + 1)' = Seen(sid, Len(sent) + 1)
        BY <1>1, <3>1 DEF Seen
      <4>2. QED
        BY <2>2, <2>3, <3>1, <4>1
  <2>7. CASE Advances(b)
    <3>1. b.sid = sid /\ ~Repeated(b) /\ (Newest(b) \/ b.tick = Len(cache[sid]))
      BY <2>2, <2>7 DEF Advances
    <3>2. /\ Len(cache'[sid]) = b.tick + 1
          /\ \A t \in 0 .. b.tick : Seen(sid, t)' = Seen(sid, t)
          /\ Len(cache[sid]) <= b.tick + 1
          /\ Len(sent) \in 0 .. b.tick => Seen(sid, Len(sent))' = Seen(sid, Len(sent))
          /\ Len(sent) + 1 \in 0 .. b.tick => Seen(sid, Len(sent) + 1)' = Seen(sid, Len(sent) + 1)
      <4>1. PICK s : s = sid /\ s = b.sid
        BY <3>1
      <4>2. PICK n : n = Len(sent)
        OBVIOUS
      <4>3. /\ Len(cache'[s]) = b.tick + 1 /\ Len(cache[s]) <= b.tick + 1
            /\ \A t \in 0 .. b.tick : Seen(s, t)' = Seen(s, t)
        BY <2>1, <2>3, <2>5, <2>7, <4>1, ServeMoveEffect, BaseSees
      <4>4. sid' = sid /\ Len(sent)' = n
        BY <1>1, <4>2
      <4>5. QED
        BY <4>1, <4>2, <4>3, <4>4
    <3>3. ASSUME b.tick = Len(cache[sid])
          PROVE  /\ active' = sid /\ Len(sent) <= Len(cache'[sid])
                 /\ Seen(sid, Len(sent))' = sent
                 /\ Answered => Len(sent) < Len(cache'[sid]) /\ Seen(sid, Len(sent) + 1)' = answer.seen
      <4>1. Len(sent) \in 0 .. b.tick /\ Len(sent) <= Len(cache'[sid])
        BY <2>2, <2>4, <3>2, <3>3
      <4>2. Answered => Len(sent) + 1 \in 0 .. b.tick /\ Len(sent) < Len(cache'[sid])
        BY <2>2, <2>4, <3>2, <3>3
      <4>3. Seen(sid, Len(sent))' = sent
        BY <2>2, <3>2, <4>1
      <4>4. Answered => Seen(sid, Len(sent) + 1)' = answer.seen
        BY <2>2, <3>2, <4>2
      <4>5. QED
        BY <2>2, <2>3, <4>1, <4>2, <4>3, <4>4
    <3>4. CASE b.attempt # attempt
      <4>1. b.attempt < attempt
        <5>1. phase # "over"
          BY <1>8 DEF IInv, CallOfAttempt
        <5>2. b.attempt <= attempt
          BY <5>1 DEF b, IInv, LateOfAttempt
        <5>3. QED
          BY <2>4, <3>4, <5>2
      <4>2. b.tick = Len(cache[sid])
        BY <2>1, <2>2, <3>1, <4>1
      <4>3. QED
        BY <3>3, <4>2
    <3>5. CASE b.attempt = attempt
      <4>1. b = call \/ (b.tick < Len(sent) /\ b.view = sent[b.tick + 1])
        <5>1. phase # "over" /\ b.kind = "move"
          BY <1>8, <2>1 DEF IInv, CallOfAttempt, Moves
        <5>2. QED
          BY <3>5, <5>1 DEF b, IInv, LateOfAttempt
      <4>2. CASE b.tick < Len(sent) /\ b.view = sent[b.tick + 1]
        <5>1. b.tick + 1 = Len(sent) /\ Len(sent) = Len(cache[sid])
          BY <2>2, <2>4, <3>1, <3>2, <4>2 DEF Newest
        <5>2. Cached(b) /\ CachedAnswer(b) = sent
          BY <2>2, <2>4, <3>1, <5>1 DEF Cached, CachedAnswer, Seen
        <5>3. Repeated(b)
          BY <4>2, <5>1, <5>2 DEF Repeated, Last
        <5>4. QED
          BY <3>1, <5>3
      <4>3. CASE b = call
        <5>1. b.tick = Len(sent) /\ call.kind = "move"
          BY <2>1, <4>3 DEF IInv, CallOfAttempt, Moves
        <5>2. ~Answered
          <6>1. SUFFICES ASSUME Answered PROVE FALSE
            OBVIOUS
          <6>2. Len(cache[sid]) = b.tick + 1 /\ Seen(sid, b.tick + 1) = answer.seen
            BY <2>2, <2>4, <3>2, <5>1, <6>1
          <6>3. Cached(b) /\ CachedAnswer(b) = answer.seen
            BY <2>4, <3>1, <6>2 DEF Cached, CachedAnswer, Seen
          <6>4. Last(answer.seen) = b.view
            BY <4>3, <6>1 DEF IInv, InStep
          <6>5. QED
            BY <3>1, <6>3, <6>4 DEF Repeated
        <5>3. Len(sent) <= Len(cache'[sid]) /\ Seen(sid, Len(sent))' = sent
          BY <2>2, <2>4, <3>2, <5>1
        <5>4. QED
          BY <2>2, <2>3, <5>2, <5>3
      <4>4. QED
        BY <4>1, <4>2, <4>3
    <3>6. QED
      BY <3>4, <3>5
  <2>8. QED
    BY <2>6, <2>7
<1>9. Synchronous'
  BY <1>1, <1>8 DEF Synchronous, Answered, Seen
<1>10. QED
  BY <1>3, <1>5, <1>6, <1>7, <1>9 DEF IInv, TypeOK

(* The other role's call, or the end of the sub-game, ends the attempt.     *)
LEMMA EndStep ==
    ASSUME IInv, OtherSideVoids \/ EndSubGame
    PROVE  IInv'
<1>1. /\ phase = "play" /\ UNCHANGED <<agentVars, late>>
      /\ \E s \in Sessions : NextAttempt(s)
  <2>1. CASE OtherSideVoids
    BY <2>1, VoidGreets DEF OtherSideVoids
  <2>2. CASE EndSubGame
    <3>1. \A s \in sid + 1 .. NumGames : s \in Sessions
      BY AgentAssumption DEF IInv, TypeOK, RefereeTypeOK, Sessions
    <3>2. QED
      BY <2>2, <3>1 DEF EndSubGame
  <2>3. QED
    BY <2>1, <2>2
<1>2. AgentTypeOK' /\ AgentInv'
  BY <1>1 DEF IInv, TypeOK, AgentTypeOK, AgentInv, Seen, agentVars
<1>3. QED
  BY <1>1, <1>2, NextAttemptStep

(* Nothing was asked yet at the start. *)
LEMMA MoveInit ==
    ASSUME Init
    PROVE  IInv
<1>1. AgentTypeOK /\ RefereeTypeOK
  <2>1. 1 \in Sessions /\ Fresh \in Policies /\ Refusal \in [ok : BOOLEAN, seen : Seq(Views)]
    BY AgentAssumption DEF Sessions, Fresh, Policies, Refusal
  <2>2. AgentTypeOK
    BY <2>1 DEF Init, AgentInit, AgentTypeOK
  <2>3. RefereeTypeOK
    <3>1. sid \in Sessions /\ attempt \in Nat /\ phase = "hello" /\ post = "none"
      BY <2>1 DEF Init
    <3>2. sent \in Seq(Views) /\ answer \in [ok : BOOLEAN, seen : Seq(Views)] /\ call = Idle
      BY <2>1 DEF Init
    <3>3. late = {} /\ disturbed \in BOOLEAN
      BY DEF Init
    <3>4. QED
      BY <3>1, <3>2, <3>3 DEF RefereeTypeOK
  <2>4. QED
    BY <2>2, <2>3
<1>2. AgentInv
  BY DEF Init, AgentInit, AgentInv
<1>3. QED
  BY <1>1, <1>2
  DEF Init, IInv, TypeOK, CallOfAttempt, LateOfAttempt, Synchronous, InStep, Answered, Idle

(* Every step keeps the agreement of referee and agent. *)
LEMMA MoveStep ==
    ASSUME IInv, [Next]_vars
    PROVE  IInv'
<1>1. CASE CallHello \/ \E v \in Views : CallMove(v)
  BY <1>1, BeginStep
<1>2. CASE OtherSideVoids \/ EndSubGame
  BY <1>2, EndStep
<1>3. CASE Post
  BY <1>3, QuietStep DEF Post
<1>4. CASE FailFast
  <2>1. PICK n : n = posts + 1
    OBVIOUS
  <2>2. QED
    BY <1>4, <2>1, FaultStep DEF FailFast
<1>5. CASE Accept
  BY <1>5, AcceptStep
<1>6. CASE Refused
  <2>1. PICK n : n = posts
    OBVIOUS
  <2>2. QED
    BY <1>6, <2>1, FaultStep DEF Refused, IInv, CallOfAttempt
<1>7. CASE Malformed
  <2>1. CASE round < Retries
    BY <1>7, <2>1, QuietStep DEF Malformed
  <2>2. CASE ~(round < Retries)
    <3>1. PICK s \in Sessions : NextAttempt(s) /\ phase # "over" /\ UNCHANGED <<agentVars, late>>
      BY <1>7, <2>2, VoidGreets DEF Malformed, IInv, CallOfAttempt
    <3>2. AgentTypeOK' /\ AgentInv'
      BY <3>1 DEF IInv, TypeOK, AgentTypeOK, AgentInv, Seen, agentVars
    <3>3. QED
      BY <3>1, <3>2, NextAttemptStep
  <2>3. QED
    BY <2>1, <2>2
<1>8. CASE Expire
  <2>1. PICK n : n = posts
    OBVIOUS
  <2>2. /\ Fault(n) /\ call # Idle /\ UNCHANGED agentVars
        /\ \A r \in late' : r \in late \/ (r.body = call /\ post # "none")
    BY <1>8, <2>1 DEF Expire, IInv, CallOfAttempt
  <2>3. QED
    BY <2>2, FaultStep
<1>9. CASE Arrive
  BY <1>9, ArriveStep
<1>10. CASE WorkerEnds
  BY <1>10, QuietStep DEF WorkerEnds, postVars
<1>11. CASE \E r \in late : HandleLate(r)
  BY <1>11, LateStep
<1>12. CASE UNCHANGED vars
  BY <1>12, QuietStep DEF vars, postVars
<1>13. QED
  BY <1>1, <1>2, <1>3, <1>4, <1>5, <1>6, <1>7, <1>8, <1>9, <1>10, <1>11, <1>12
  DEF Next, Caller, Done

(* The inductive invariant of the referee's calls and the agent. *)
THEOREM MoveInvariance == Spec => []IInv
<1>1. Init => IInv
  BY MoveInit
<1>2. IInv /\ [Next]_vars => IInv'
  BY MoveStep
<1>3. QED
  BY <1>1, <1>2, PTL DEF Spec

(* A move is decided on the body asked about, by a policy that went through *)
(* exactly the ticks before it, for any number of retries, lost, repeated   *)
(* and late requests, and any number of sessions and evictions.             *)
THEOREM MovesInStep == Spec => []InStep
<1>1. IInv => InStep
  BY DEF IInv
<1>2. QED
  BY <1>1, MoveInvariance, PTL

(* Neither a hello, nor a recompute from a snapshot, nor a late request     *)
(* takes back an adaptive policy's switch.                                  *)
THEOREM SwitchNeverReverts == Spec => SwitchSticky
<1>1. ASSUME IInv, [Next]_vars
      PROVE  policy.switched => policy'.switched
  <2>1. AgentTypeOK /\ AgentInv
    BY <1>1 DEF IInv, TypeOK
  <2>2. CASE Arrive
    <3>1. PICK b \in Hellos \union Moves : b = call
      BY <1>1, <2>2 DEF Arrive, IInv, TypeOK, RefereeTypeOK, CallOfAttempt
    <3>2. QED
      BY <2>1, <2>2, <3>1, HandleEffect DEF Arrive
  <2>3. ASSUME NEW r \in late, HandleLate(r)
        PROVE  policy.switched => policy'.switched
    <3>1. r.body \in Hellos \union Moves /\ Handle(r.body)
      BY <1>1, <2>3 DEF HandleLate, IInv, TypeOK, RefereeTypeOK
    <3>2. QED
      BY <2>1, <3>1, HandleEffect
  <2>4. CASE UNCHANGED policy
    BY <2>4
  <2>5. QED
    BY <1>1, <2>2, <2>3, <2>4
    DEF Next, Caller, Done, CallHello, CallMove, Begin, OtherSideVoids, EndSubGame, Post, FailFast,
        Accept, Refused, Malformed, Expire, WorkerEnds, vars, agentVars
<1>2. QED
  BY <1>1, MoveInvariance, PTL DEF Spec, SwitchSticky
=============================================================================
