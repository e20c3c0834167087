------------------------------ MODULE LocalMatch ------------------------------
(***************************************************************************)
(* A local match over MCP: run_local_match (match.py), MatchRunner and     *)
(* Referee (referee.py), AgentClient (clients.py), and the two servers.    *)
(* The referee makes one call at a time, each with bounded retries; a call *)
(* that times out may have been handled, may be lost, or may be handled    *)
(* later, when the referee has moved on.                                   *)
(***************************************************************************)
EXTENDS AgentServer, FiniteSets

CONSTANTS
    MaxRetries,     \* mcp.client.max_retries
    MaxLate         \* timed-out requests not yet handled (bound)

ASSUME MatchAssumption == MaxRetries \in Nat \ {0} /\ MaxLate \in Nat

VARIABLES
    games,      \* offset and moves of the valid sub-games, as played
    offset,     \* seeds used
    phase,      \* what the referee awaits next
    tick,       \* moves made in this attempt
    try,        \* attempts of this call that failed
    late,       \* timed-out requests not handled yet
    spoilt,     \* a session greeted in this attempt has absorbed an
                \* observation of an older one
    chosen      \* per role: the hidden states its moves of this attempt came from

refVars == <<games, offset, phase, tick, try, chosen>>
vars == <<session, refVars, late, spoilt>>

Turns == {"hello_cop", "hello_thief", "move_cop", "move_thief", "report"}

(* The call under way.  games numbers the session: a voided attempt and its *)
(* replay share one id.                                                     *)
Id == Len(games)
Attempt == offset - 1
Callee == IF phase \in {"hello_thief", "move_thief"} THEN "thief" ELSE "cop"
Kind == CASE phase \in {"hello_cop", "hello_thief"} -> "hello"
          [] phase \in {"move_cop", "move_thief"} -> "move"
          [] OTHER -> "report"
Request ==
    [kind |-> Kind, role |-> Callee, id |-> IF phase = "report" THEN 0 ELSE Id,
     offset |-> Attempt, tick |-> tick, copy |-> try]

Greeted(role) ==
    phase \in {"move_cop", "move_thief"} \/ (phase = "hello_thief" /\ role = "cop")

Nothing == [r \in Roles |-> <<>>]

Init ==
    /\ session = [r \in Roles |-> [k \in Ids |-> NoSession]]
    /\ games = <<>> /\ offset = 0 /\ phase = "asleep" /\ tick = 0 /\ try = 0
    /\ late = {} /\ spoilt = FALSE /\ chosen = Nothing

-----------------------------------------------------------------------------
(* prewarm: "health" until it answers or the deadline is over, and the match*)
(* goes on either way.                                                      *)
Prewarm ==
    /\ phase = "asleep" /\ phase' = "between"
    /\ UNCHANGED <<session, games, offset, tick, try, chosen, late, spoilt>>

(* build_report: the results in the order of play, numbered from 1.         *)
Report == [i \in 1 .. Len(games) |-> [id |-> i, moves |-> games[i].moves]]

ShortMatchSent == phase' = "report"                          \* mutant: length not checked
(* play_match after its loop: exactly num_games, or it raises.              *)
CloseMatch == phase' = IF Len(games) = NumGames THEN "report" ELSE "short"

(* play_match: the next seed, while sub-games are missing and seeds left.   *)
NextSubGame ==
    /\ phase = "between"
    /\ IF Len(games) < NumGames /\ offset < MaxOffsets
       THEN /\ offset' = offset + 1 /\ phase' = "hello_cop" /\ chosen' = Nothing
            /\ spoilt' = FALSE
       ELSE CloseMatch /\ UNCHANGED <<offset, chosen, spoilt>>
    /\ tick' = 0 /\ try' = 0
    /\ UNCHANGED <<session, games, late>>

(* What play_sub_game does with the answer.  A step may end the sub-game;   *)
(* it must at max_moves.                                                    *)
EndTick ==
    \/ /\ games' = Append(games, [offset |-> Attempt, moves |-> tick + 1])
       /\ phase' = "between" /\ tick' = tick + 1
    \/ /\ tick + 1 < MaxMoves
       /\ phase' = "move_cop" /\ tick' = tick + 1 /\ UNCHANGED games

Proceed ==
    \/ /\ phase \in {"hello_cop", "hello_thief", "move_cop", "report"}
       /\ phase' = CASE phase = "hello_cop" -> "hello_thief"
                     [] phase = "hello_thief" -> "move_cop"
                     [] phase = "move_cop" -> "move_thief"
                     [] OTHER -> "sent"
       /\ UNCHANGED <<games, tick>>
    \/ phase = "move_thief" /\ EndTick

FaultsNotCounted == try' = 0 /\ UNCHANGED <<phase, games>>   \* mutant: retries unbounded
(* _call: an exception is retried, then raised: the attempt is a technical  *)
(* loss and the next seed is played, or the whole match raises if it was    *)
(* the report.                                                              *)
Fault ==
    IF try + 1 < MaxRetries
    THEN try' = try + 1 /\ UNCHANGED <<phase, games>>
    ELSE /\ try' = 0 /\ UNCHANGED games
         /\ phase' = IF phase = "report" THEN "failed" ELSE "between"

Reply ==
    /\ phase \in Turns /\ Handle(Request)
    /\ IF Returns(Request)
       THEN /\ Proceed /\ try' = 0
            /\ chosen' = IF Kind = "move"
                         THEN [chosen EXCEPT ![Callee] = Append(@, Answer(Request))]
                         ELSE chosen
       ELSE Fault /\ UNCHANGED <<tick, chosen>>
    /\ UNCHANGED <<offset, late, spoilt>>

(* wait_for expires: the request is lost or its answer is.                  *)
ReplyLost ==
    /\ phase \in Turns /\ Fault
    /\ Handle(Request) \/ UNCHANGED session
    /\ UNCHANGED <<offset, tick, chosen, late, spoilt>>

(* It expires with the request still on its way, or waiting for a worker.   *)
Delayed ==
    /\ phase \in Turns /\ Fault
    /\ Cardinality(late) < MaxLate /\ late' = late \union {Request}
    /\ UNCHANGED <<session, offset, tick, chosen, spoilt>>

(* A delayed request is handled after all; nobody reads its answer.         *)
HandleLate(req) ==
    /\ req \in late /\ late' = late \ {req}
    /\ Handle(req)
    /\ spoilt' = \/ spoilt
                 \/ /\ req.kind = "move" /\ req.id = Id /\ req.offset # Attempt
                    /\ Greeted(req.role)
                    /\ session'[req.role][req.id] # session[req.role][req.id]
    /\ UNCHANGED refVars

RefereeStep == Prewarm \/ NextSubGame \/ Reply \/ ReplyLost \/ Delayed

Over == phase \in {"sent", "short", "failed"} /\ UNCHANGED vars

Next == RefereeStep \/ (\E req \in late : HandleLate(req)) \/ Over

Spec == Init /\ [][Next]_vars

(* The referee's coroutine runs and wait_for returns at the timeout;        *)
(* nothing is assumed of the servers or of delayed requests.                *)
FairSpec == Spec /\ WF_vars(RefereeStep)

-----------------------------------------------------------------------------
(* "a retried tick never double-advances state": whatever was lost,         *)
(* repeated, delayed or reset, the action accepted for tick t was chosen    *)
(* from a hidden state that advanced exactly t + 1 times since its reset.   *)
(* "ONE RecurrentPolicy per session_id (a sub-game)": those advances are on *)
(* this attempt's observations.  Sessions are named by the number of valid  *)
(* games, so a move request left from a voided attempt reaches the same     *)
(* session: only that, after the greeting, can spoil it.                    *)
OwnStream ==
    \A r \in Roles : \A t \in 1 .. Len(chosen[r]) :
        /\ Len(chosen[r][t]) = t
        /\ ~spoilt => chosen[r][t] = [k \in 1 .. t |-> Attempt]

(* A report is made of exactly num_games sub-games that were played through,*)
(* each of another seed and later than the one before, and gives each as    *)
(* many moves as either server's answers were accepted in it, however often *)
(* they were asked for; a match that raises short of it used up its seeds.  *)
ExactlyNumGames ==
    /\ phase \in {"report", "sent", "failed"} => Len(games) = NumGames
    /\ phase = "short" => Len(games) < NumGames /\ offset = MaxOffsets
    /\ \A i, j \in 1 .. Len(games) : i < j => games[i].offset < games[j].offset
    /\ \A i \in DOMAIN Report : \A r \in Roles :
          games[i].offset = Attempt => Report[i].moves = Len(chosen[r])

(* Retries and seeds are bounded: the match ends, whatever the servers do.  *)
MatchEnds == <>(phase \in {"sent", "short", "failed"})
=============================================================================
