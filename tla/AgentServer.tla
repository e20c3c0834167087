----------------------------- MODULE AgentServer -----------------------------
(***************************************************************************)
(* The two MCP agent servers of a local match: AgentController             *)
(* (src/src/mcp/agent_runtime.py) behind the tools of server_builder.py.   *)
(* A tool call is one step: act and new_session hold the session's lock    *)
(* throughout.                                                             *)
(*                                                                         *)
(* A request carries the seed offset of the sub-game attempt it was made   *)
(* for: that stands for the spawn cell of new_sub_game and, with the tick, *)
(* for the observation of request_move.  A hidden state is known by the    *)
(* attempts whose observations it absorbed, one a tick, and so is the      *)
(* greedy action taken from it.                                            *)
(***************************************************************************)
EXTENDS Integers, Sequences, TLC

CONSTANTS
    NumGames,       \* game.num_games
    MaxOffsets,     \* attempts a match may make
    MaxMoves        \* game.max_moves

ASSUME ServerAssumption == {NumGames, MaxOffsets, MaxMoves} \subseteq Nat \ {0}

Roles == {"cop", "thief"}
Ids == 0 .. NumGames - 1           \* session "sg-<k>"

VARIABLE session    \* per role and session id: what _sessions and positions hold

(* RecurrentPolicy: reset() zeroes the hidden state, act() advances it.      *)
ZeroHidden == <<>>
Absorbed(z, offset) == Append(z, offset)

NoSession == [started |-> FALSE]

(* A session: fresh z_0, no cached action, last_tick -1, the provisioned    *)
(* cell.                                                                    *)
FreshSession(offset) ==
    [started |-> TRUE, stream |-> ZeroHidden, cache |-> <<>>, last |-> -1, cell |-> offset]

Cached(s, req) == s.started /\ req.tick \in DOMAIN s.cache

(* An uncached tick must be exactly last_tick + 1. *)
InSequence(s, req) == s.started /\ req.tick = s.last + 1

SessionKept(s, req) ==                                       \* mutant: a reset keeps the cache
    IF s.started THEN [s EXCEPT !.cell = req.offset] ELSE FreshSession(req.offset)
NewSession(s, req) == FreshSession(req.offset)

(* act: a cached tick changes nothing, a tick in sequence advances z_t and  *)
(* is cached, any other raises before anything changed.                     *)
Act(s, req) ==
    IF ~Cached(s, req) /\ InSequence(s, req)
    THEN LET z == Absorbed(s.stream, req.offset)
             cached == [t \in DOMAIN s.cache \union {req.tick} |->
                          IF t = req.tick THEN z ELSE s.cache[t]]
         IN [s EXCEPT !.stream = z, !.cache = cached, !.last = req.tick]
    ELSE s

(* A request handled by its server, and whether the tool returned.          *)
Handle(req) ==
    session' = CASE req.kind = "hello" ->
                       [session EXCEPT ![req.role][req.id] = NewSession(@, req)]
                 [] req.kind = "move" -> [session EXCEPT ![req.role][req.id] = Act(@, req)]
                 [] OTHER -> session
Returns(req) ==
    LET s == session[req.role][req.id]
    IN req.kind = "move" => Cached(s, req) \/ InSequence(s, req)

(* The hidden state the returned action was chosen from.                    *)
Answer(req) == session'[req.role][req.id].cache[req.tick]
=============================================================================
