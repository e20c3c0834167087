------------------------------ MODULE WireMatch ------------------------------
(***************************************************************************)
(* WireReferee.play_match (src/src/mcp/wire_referee.py): one referee plays *)
(* the seed schedule against four remote agents.  A sub-game attempt is    *)
(* hello(cop), hello(thief), request_move rounds, result; any of the calls *)
(* may end it in a technical void (VoidSubGame).                           *)
(*                                                                         *)
(* The JSONL log is carried as what parse_wire_log (_replay_log.py) has    *)
(* accumulated of it: one record per session, changed by every logged      *)
(* event exactly as the parser changes it on that line.                    *)
(***************************************************************************)
EXTENDS SeedSchedule

CONSTANTS
    Cells,      \* board cells an agent can spawn on, numbered
    Spawn       \* Spawn[seed][role]: the cell env.reset(seed) puts the role on

Roles == {"cop", "thief"}
NoCell == -1

ASSUME SpawnAssumption == Cells \subseteq Nat /\ Spawn \in [Seeds -> [Roles -> Cells]]

VARIABLES
    attempt,    \* where _play_sub_game stands; "aborted" once play_match raised
    records,    \* records[g]: seed of the completed run and its place in time
    session,    \* session[g]: parse_wire_log's accumulator of sg-(g-1)
    results,    \* result events logged so far, the referee's clock
    voidEvents  \* "void" events logged so far

matchVars == <<attempt, records, session, results, voidEvents>>
vars == <<pairSeed, spare, pending, done, voids,
          attempt, records, session, results, voidEvents>>

NoRecord == [seed |-> NoSeed, ended |-> 0]
NewSession == [spawns |-> [r \in Roles |-> NoCell], started |-> FALSE,
               voids |-> 0, seed |-> NoSeed]

Init ==
    /\ SchedInit
    /\ attempt = "idle"
    /\ records = [g \in Games |-> NoRecord]
    /\ session = [g \in Games |-> NewSession]
    /\ results = 0
    /\ voidEvents = 0

Played == {g \in Games : records[g].seed # NoSeed}
Over == ~HasNext /\ attempt = "idle"

(* The type of the whole match state. *)
TypeOK ==
    /\ SchedTypeOK
    /\ attempt \in {"idle", "cop_greeted", "playing", "aborted"}
    /\ records \in [Games -> [seed : Seeds \union {NoSeed}, ended : Nat]]
    /\ session \in [Games -> [spawns : [Roles -> Cells \union {NoCell}], started : BOOLEAN,
                              voids : Nat, seed : Seeds \union {NoSeed}]]
    /\ results \in Nat
    /\ voidEvents \in Nat

-----------------------------------------------------------------------------
(* parse_wire_log, line by line.  "started" stands for states and actions:  *)
(* a request_move was logged since the last hello that superseded a run.    *)

\* Mutant: the first run of a session wins.
ParseHelloFirstWins(s, r, cell) ==
    [s EXCEPT !.spawns[r] = IF @ = NoCell THEN cell ELSE @,
              !.voids = IF s.spawns[r] # NoCell /\ s.started THEN @ + 1 ELSE @]

ParseHello(s, r, cell) ==
    LET retry == s.spawns[r] = cell /\ ~s.started
        again == s.spawns[r] # NoCell /\ ~retry
    IN  [spawns  |-> [x \in Roles |-> IF x = r THEN cell
                                     ELSE IF again THEN NoCell ELSE s.spawns[x]],
         started |-> s.started /\ ~again,
         voids   |-> IF again /\ s.started THEN s.voids + 1 ELSE s.voids,
         seed    |-> s.seed]

ParseMove(s) == [s EXCEPT !.started = TRUE]
ParseResult(s, seed) == [s EXCEPT !.seed = seed]

-----------------------------------------------------------------------------
\* Mutant: running out of spares is swallowed and the sub-game tried again.
VoidRetriedForever(g) ==
    /\ UNCHANGED results
    /\ attempt' = "idle"
    /\ \/ /\ voidEvents' = voidEvents + 1
          /\ RecordVoid(g)
          /\ records' = [h \in Games |-> IF h \in Stale(g) THEN NoRecord ELSE records[h]]
       \/ /\ Exhausted
          /\ UNCHANGED <<pairSeed, spare, pending, done, voids, records, voidEvents>>

(* VoidSubGame caught in play_match: the void is logged first, then the     *)
(* schedule decides, then the stale records are dropped.                    *)
VoidSubGame(g) ==
    /\ voidEvents' = voidEvents + 1
    /\ UNCHANGED results
    /\ \/ /\ RecordVoid(g)
          /\ records' = [h \in Games |-> IF h \in Stale(g) THEN NoRecord ELSE records[h]]
          /\ attempt' = "idle"
       \/ /\ VoidExhausted(g)
          /\ attempt' = "aborted"
          /\ UNCHANGED records

(* new_sub_game to one role.  The request is logged whatever the answer is. *)
Hello(g, r) ==
    /\ attempt = IF r = "cop" THEN "idle" ELSE "cop_greeted"
    /\ session' = [session EXCEPT ![g] = ParseHello(@, r, Spawn[SeedFor(g)][r])]

HelloOk(g, r) ==
    /\ Hello(g, r)
    /\ attempt' = IF r = "cop" THEN "cop_greeted" ELSE "playing"
    /\ UNCHANGED <<pairSeed, spare, pending, done, voids, records, results, voidEvents>>

HelloVoid(g, r) == Hello(g, r) /\ VoidSubGame(g)

(* request_move: the first one of the attempt is what the parser notices.   *)
MoveOk(g) ==
    /\ attempt = "playing"
    /\ session' = [session EXCEPT ![g] = ParseMove(@)]
    /\ UNCHANGED <<pairSeed, spare, pending, done, voids, attempt, records, results, voidEvents>>

MoveVoid(g) ==
    /\ attempt = "playing"
    /\ session' = [session EXCEPT ![g] = ParseMove(@)]
    /\ VoidSubGame(g)

(* The env reported the terminal tick: record_result, record, result event. *)
FinishSubGame(g) ==
    /\ attempt = "playing" /\ session[g].started
    /\ RecordResult(g)
    /\ results' = results + 1
    /\ records' = [records EXCEPT ![g] = [seed |-> SeedFor(g), ended |-> results + 1]]
    /\ session' = [session EXCEPT ![g] = ParseResult(@, SeedFor(g))]
    /\ attempt' = "idle"
    /\ UNCHANGED voidEvents

(* play_match has returned its records, or raised. *)
Stopped == (Over \/ attempt = "aborted") /\ UNCHANGED vars

PlaySubGame(g) ==
    \/ \E r \in Roles : HelloOk(g, r)
    \/ \E r \in Roles : HelloVoid(g, r)
    \/ MoveOk(g)
    \/ MoveVoid(g)
    \/ FinishSubGame(g)

Next == (HasNext /\ PlaySubGame(NextGame)) \/ Stopped

Spec == Init /\ [][Next]_vars

(* The referee is one thread, every call is joined at its wall-clock budget *)
(* and a sub-game ends by max_moves: it never stays inside an attempt.      *)
FairSpec == Spec /\ WF_vars(Next)
=============================================================================
