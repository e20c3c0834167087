------------------------------ MODULE WireAgent ------------------------------
(***************************************************************************)
(* The server of one role (src/src/mcp/wire_agent.py): session registry,   *)
(* idempotency cache, snapshots.  Every request is one step: the handler   *)
(* holds the server's lock from its first look at the session to its last  *)
(* assignment.                                                             *)
(*                                                                         *)
(* A policy is known by what it has absorbed since its reset, one view a   *)
(* tick; hidden state, rng and visibility counter are functions of that,   *)
(* and so is the action answered.  A view stands for a request_move body   *)
(* without its session and tick.                                           *)
(***************************************************************************)
EXTENDS Integers, Sequences, FiniteSets, SequencesExt

CONSTANTS
    NumGames,       \* sub-games, hence session ids, of the match
    Views,          \* bodies a tick can have
    Sightings,      \* views that make an adaptive policy switch for good
    MaxSessions     \* wire_agent.max_sessions

ASSUME AgentAssumption ==
    NumGames \in Nat \ {0} /\ Sightings \subseteq Views /\ MaxSessions \in Nat \ {0}

Sessions == 1 .. NumGames
NoSession == 0

VARIABLES
    registry,   \* _sessions in insertion order, least recently greeted first
    active,     \* _active
    policy,     \* the one acting policy, shared by all sessions
    cache,      \* cache[s]: what was answered, as the policy that answered, by tick
    snap        \* snap[s]: the policy before the newest tick of s

agentVars == <<registry, active, policy, cache, snap>>

Fresh == [seen |-> <<>>, switched |-> FALSE]

AgentInit ==
    /\ registry = <<>> /\ active = NoSession
    /\ policy = Fresh
    /\ cache = [s \in Sessions |-> <<>>]
    /\ snap = [s \in Sessions |-> Fresh]

-----------------------------------------------------------------------------
(* The least recently greeted session is evicted past the cap. *)
Kept(all) == IF Len(all) > MaxSessions THEN Tail(all) ELSE all

(* start_sub_game: a new entry, moved to the newest place; policy.reset()   *)
(* forgets everything but a fired switch.                                   *)
NewSubGame(s) ==
    LET live == Kept(Append(Remove(registry, s), s))
    IN  /\ registry' = live
        /\ active' = s
        /\ policy' = [Fresh EXCEPT !.switched = policy.switched]
        /\ cache' = [x \in Sessions |-> IF x = s \/ x \notin ToSet(live) THEN <<>> ELSE cache[x]]
        /\ snap' = [x \in Sessions |-> IF x = s \/ x \notin ToSet(live) THEN Fresh ELSE snap[x]]

Act(p, view) == [seen |-> Append(p.seen, view), switched |-> p.switched \/ view \in Sightings]

Cached(b) == b.tick < Len(cache[b.sid])
Newest(b) == b.tick = Len(cache[b.sid]) - 1
CachedAnswer(b) == cache[b.sid][b.tick + 1].seen
Repeated(b) == Cached(b) /\ Last(CachedAnswer(b)) = b.view

(* serve_move acts on the next tick, or again on the newest one when its    *)
(* body differs; a repeated body is answered from the cache; anything else  *)
(* is refused (404 unknown, 409 inactive or sealed, 400 out of sequence).   *)
Advances(b) ==
    /\ b.sid = active /\ ~Repeated(b)
    /\ Newest(b) \/ b.tick = Len(cache[b.sid])

BaseNotRewound(b) == policy                                  \* mutant: no rewind
BaseForgettingSwitch(b) == IF Cached(b) THEN snap[b.sid] ELSE policy   \* mutant
(* What it acts from: on a recompute the snapshot, except a fired switch.   *)
Base(b) ==
    IF Cached(b)
    THEN [snap[b.sid] EXCEPT !.switched = @ \/ policy.switched]
    ELSE policy

Refusal == [ok |-> FALSE, seen |-> <<>>]
Reply(b) ==
    IF Advances(b) THEN [ok |-> TRUE, seen |-> Act(Base(b), b.view).seen]
    ELSE IF Repeated(b) THEN [ok |-> TRUE, seen |-> CachedAnswer(b)]
    ELSE Refusal

ServeMove(b) ==
    /\ UNCHANGED <<registry, active>>
    /\ IF Advances(b)
       THEN /\ policy' = Act(Base(b), b.view)
            /\ snap' = [snap EXCEPT ![b.sid] = Base(b)]
            /\ cache' = [cache EXCEPT ![b.sid] =
                            [t \in 1 .. Len(@) \union {b.tick + 1} |->
                                IF t = b.tick + 1 THEN policy' ELSE @[t]]]
       ELSE UNCHANGED <<policy, snap, cache>>
=============================================================================
