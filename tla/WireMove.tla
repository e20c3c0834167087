------------------------------ MODULE WireMove ------------------------------
(***************************************************************************)
(* The calls one referee makes to one role's agent: _roundtrip             *)
(* (wire_referee.py) around WireClient._post (wire_client.py), each post   *)
(* on a worker that is abandoned when its wall-clock budget expires, and   *)
(* the agent behind them.  An abandoned request may still be handled, at   *)
(* any later time and in any order: its reply is discarded, what it does   *)
(* to the agent is not.                                                    *)
(***************************************************************************)
EXTENDS WireAgent

CONSTANTS
    Retries,        \* wire_match.retries
    MaxInflight,    \* cap on egress workers alive at once
    MaxTick,        \* last tick of a sub-game (bound)
    MaxAttempts,    \* sub-game attempts, replays included (bound)
    MaxLate         \* abandoned requests not yet handled (bound)

ASSUME ClientAssumption ==
    /\ Retries \in Nat /\ MaxInflight \in Nat \ {0}
    /\ MaxTick \in Nat /\ MaxAttempts \in Nat \ {0} /\ MaxLate \in Nat

VARIABLES
    sid,        \* the sub-game being played
    attempt,    \* attempts begun so far
    phase,      \* of the attempt: "hello", "play"; "over" at the bound
    sent,       \* views whose move was accepted in this attempt, by tick
    call,       \* the body of the call under way, or Idle
    round,      \* malformed replies in this call (_roundtrip)
    try,        \* faults since the last one (_post)
    posts,      \* request lines this call logged
    post,       \* the present post: "none", "waiting" or "answered"
    answer,     \* what the agent answered it
    orphans,    \* abandoned workers still alive
    late,       \* abandoned requests the agent has not handled
    disturbed   \* a late hello, or a late body of an older attempt on a tick
                \* the agent had already answered, was handled in this attempt

refVars == <<sid, attempt, phase, sent, call>>
postVars == <<round, try, posts, post, answer>>
vars == <<agentVars, refVars, postVars, orphans, late, disturbed>>

Idle == [kind |-> "none"]

Init ==
    /\ AgentInit
    /\ sid = 1 /\ attempt = 1 /\ phase = "hello" /\ sent = <<>> /\ call = Idle
    /\ round = 0 /\ try = 0 /\ posts = 0 /\ post = "none" /\ answer = Refusal
    /\ orphans = 0 /\ late = {} /\ disturbed = FALSE

-----------------------------------------------------------------------------
(* The referee: one call after the other, the next body known only then.    *)
Begin(body) ==
    /\ call = Idle
    /\ call' = body
    /\ round' = 0 /\ try' = 0 /\ posts' = 0
    /\ UNCHANGED <<agentVars, sid, attempt, phase, sent, post, answer, orphans, late, disturbed>>

CallHello == phase = "hello" /\ Begin([kind |-> "hello", sid |-> sid, attempt |-> attempt])

CallMove(view) ==
    /\ phase = "play" /\ Len(sent) <= MaxTick
    /\ Begin([kind |-> "move", sid |-> sid, attempt |-> attempt,
              tick |-> Len(sent), view |-> view])

NextAttempt(s) ==
    /\ sent' = <<>> /\ call' = Idle /\ post' = "none" /\ answer' = Refusal
    /\ round' = 0 /\ try' = 0 /\ posts' = 0 /\ disturbed' = FALSE
    /\ IF attempt < MaxAttempts
       THEN attempt' = attempt + 1 /\ phase' = "hello" /\ sid' = s
       ELSE phase' = "over" /\ UNCHANGED <<attempt, sid>>

(* VoidSubGame: the same session is greeted again, or, when a mirror game   *)
(* escalates, that of its base game, which came before it.                  *)
Void == \E s \in 1 .. sid : NextAttempt(s)

(* The other role's call voided the attempt, or the sub-game is over.       *)
OtherSideVoids ==
    /\ phase = "play" /\ call = Idle
    /\ Void
    /\ UNCHANGED <<agentVars, orphans, late>>
EndSubGame ==
    /\ phase = "play" /\ call = Idle /\ sent # <<>>
    /\ \E s \in sid + 1 .. NumGames : NextAttempt(s)
    /\ UNCHANGED <<agentVars, orphans, late>>

-----------------------------------------------------------------------------
(* WireClient._post: a fault, with n request lines logged by now, is        *)
(* retried until the transport budget is spent.                             *)
Fault(n) ==
    IF try < Retries
    THEN /\ try' = try + 1 /\ posts' = n /\ post' = "none" /\ answer' = Refusal
         /\ UNCHANGED <<refVars, round, disturbed>>
    ELSE Void

(* _bounded_call: below the cap. *)
SlotFree == orphans < MaxInflight

Post ==
    /\ call # Idle /\ post = "none" /\ SlotFree
    /\ post' = "waiting" /\ posts' = posts + 1
    /\ UNCHANGED <<agentVars, refVars, round, try, answer, orphans, late, disturbed>>

FailFastWaits ==                                             \* mutant: waits for a slot
    call # Idle /\ post = "none" /\ ~SlotFree /\ UNCHANGED vars
(* At the cap the request line is logged, then the attempt fails fast.      *)
FailFast ==
    /\ call # Idle /\ post = "none" /\ ~SlotFree
    /\ Fault(posts + 1)
    /\ UNCHANGED <<agentVars, orphans, late>>

Handle(body) == IF body.kind = "hello" THEN NewSubGame(body.sid) ELSE ServeMove(body)

(* The agent handles the present post. *)
Arrive ==
    /\ post = "waiting"
    /\ post' = "answered"
    /\ Handle(call)
    /\ answer' = IF call.kind = "hello" THEN [ok |-> TRUE, seen |-> <<>>] ELSE Reply(call)
    /\ UNCHANGED <<refVars, round, try, posts, orphans, late, disturbed>>

(* A valid reply in time: the call returns. *)
Accept ==
    /\ post = "answered" /\ answer.ok
    /\ call' = Idle /\ post' = "none" /\ answer' = Refusal
    /\ phase' = "play"
    /\ sent' = IF call.kind = "move" THEN Append(sent, call.view) ELSE sent
    /\ UNCHANGED <<agentVars, sid, attempt, round, try, posts, orphans, late, disturbed>>

(* A non-2xx status is a fault like any other. *)
Refused ==
    /\ post = "answered" /\ ~answer.ok
    /\ Fault(posts)
    /\ UNCHANGED <<agentVars, orphans, late>>

(* JSON, but not a legal reply (a partner's agent may say anything): the    *)
(* whole call, with a fresh transport budget, is made once more.            *)
Malformed ==
    /\ post = "answered" /\ answer.ok
    /\ IF round < Retries
       THEN /\ round' = round + 1 /\ try' = 0 /\ post' = "none" /\ answer' = Refusal
            /\ UNCHANGED <<refVars, posts, disturbed>>
       ELSE Void
    /\ UNCHANGED <<agentVars, orphans, late>>

(* The budget expires: the worker is abandoned.  Its request is lost, was   *)
(* handled with too slow a reply, or is still to be handled.                *)
Expire ==
    /\ post \in {"waiting", "answered"}
    /\ Fault(posts)
    /\ orphans' = orphans + 1
    /\ \/ UNCHANGED late
       \/ /\ post = "waiting" /\ Cardinality(late) < MaxLate
          /\ late' = late \union {[body |-> call, no |-> posts]}
    /\ UNCHANGED agentVars

WorkerEnds ==
    /\ orphans > 0
    /\ orphans' = orphans - 1
    /\ UNCHANGED <<agentVars, refVars, postVars, late, disturbed>>

(* An abandoned request is handled after all. *)
HandleLate(r) ==
    /\ r \in late
    /\ late' = late \ {r}
    /\ Handle(r.body)
    /\ disturbed' = \/ disturbed
                    \/ r.body.kind = "hello"
                    \/ /\ r.body.attempt < attempt /\ r.body.sid = active
                       /\ Newest(r.body) /\ ~Repeated(r.body)
    /\ UNCHANGED <<refVars, postVars, orphans>>

Caller == Post \/ FailFast \/ Accept \/ Refused \/ Malformed \/ Expire

Done == phase = "over" /\ UNCHANGED vars

Next ==
    \/ CallHello \/ (\E v \in Views : CallMove(v))
    \/ OtherSideVoids \/ EndSubGame
    \/ Caller
    \/ Arrive \/ WorkerEnds \/ (\E r \in late : HandleLate(r))
    \/ Done

Spec == Init /\ [][Next]_vars

(* The referee's thread runs, and join() returns at the budget; nothing is  *)
(* assumed of the agent, the network or the abandoned workers.              *)
FairSpec == Spec /\ WF_vars(Caller)

-----------------------------------------------------------------------------
Answered == post = "answered" /\ call.kind = "move" /\ answer.ok

(* "re-POST replays the cache without re-advancing": whatever was lost,     *)
(* repeated, delayed or voided, a move is decided on exactly the body asked *)
(* about, by a policy that went through exactly the ticks before it.        *)
(* The rewind: a request of an older attempt that is handled before the     *)
(* genuine one of its tick leaves no trace.  The answer comes from a policy *)
(* that saw this attempt and nothing else; only a stale body handled after  *)
(* the genuine one, or a late hello, can ever spoil that (disturbed).       *)
InStep ==
    Answered => /\ Len(answer.seen) = call.tick + 1 /\ Last(answer.seen) = call.view
                /\ ~disturbed => answer.seen = Append(sent, call.view)

(* A switch that fired stays, across resets, rewinds and sessions.          *)
SwitchSticky == [][policy.switched => policy'.switched]_vars

(* P8: no call hangs, whatever the peer does: it returns or voids.          *)
EveryCallSettles == call # Idle ~> call = Idle
=============================================================================
