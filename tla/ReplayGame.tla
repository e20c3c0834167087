----------------------------- MODULE ReplayGame -----------------------------
(***************************************************************************)
(* One sub-game of the wire match, tick by tick, and its audit.            *)
(*                                                                         *)
(* WireReferee._play_sub_game (src/src/mcp/wire_referee.py) drives its own *)
(* CopsRobbersEnv with the answers of the two remote agents and logs every *)
(* post; parse_wire_log (_replay_log.py) reads the log back; the verifier  *)
(* (wire_replay.py, _replay_seed.py, _replay_verify.py, _replay_records.py)*)
(* plays it again.  The environment's variables belong to the referee until*)
(* the record is written, and to the verifier's own environment after it.  *)
(*                                                                         *)
(* "session" is parse_wire_log's accumulator of this sub-game, changed in  *)
(* the step that logs the line it changes on.  A seed is its place in the  *)
(* list of seeds this sub-game may get: its base seed, then the spares.    *)
(***************************************************************************)
EXTENDS WirePayload, Sequences, SequencesExt

CONSTANTS
    Retries,        \* wire_match.retries
    CfgRetries,     \* parse_wire_log's cfg_retries: its default, whatever Retries is
    MaxVoids,       \* wire_match.max_void_replays
    Layouts,        \* Layouts[i]: the cells env.reset puts the roles on for seed i
    Points          \* game.scoring: points[winner][role]

\* Strings that are no action of the role: one no role knows, and a thief's PLACE.
OddStrings(r) == {"NONSENSE"} \union (CopActions \ Alphabet(r))

ASSUME GameAssumption ==
    /\ NumCops = 1
    /\ Retries \in Nat /\ CfgRetries \in Nat /\ MaxVoids \in Nat \ {0} /\ RefereeRadius \in Nat
    /\ Layouts \in Seq([Roles -> Board]) /\ Layouts # <<>>
    /\ \A i \in DOMAIN Layouts : Distance(Layouts[i]["cop"], Layouts[i]["thief"]) > Radius
    /\ Points \in [Roles -> [Roles -> Nat]]

VARIABLES
    phase,      \* where _play_sub_game, or after it the verifier, stands
    voids,      \* voids of this sub-game so far
    started,    \* ... of those, the ones after a request_move (history)
    round,      \* malformed replies in this call (_roundtrip)
    try,        \* faults since the last reply (WireClient._post)
    faults,     \* ... and since the call began
    copAct,     \* the cop's action of this tick, while the thief is asked
    session,    \* parse_wire_log's accumulator, or Unparsable
    record,     \* the published record
    odd,        \* what happened that an honest referee may log (history)
    damaged,    \* one field of the artefacts was altered after the match (history)
    verdict     \* "pending", "verified", or the check that raised

gameVars == <<phase, voids, started, round, try, faults, copAct, session, record, odd, damaged,
              verdict>>
allVars == <<vars, gameVars>>

NoString == "absent"
NoPayload == [your_pos |-> NoCell]
NoRecord == [seed |-> 0]
Unparsable == [error |-> TRUE]

SeedAfter(v) == v \div MaxVoids + 1      \* record_void: MaxVoids voids, next spare
Seed == SeedAfter(voids)
-----------------------------------------------------------------------------
(* What a referee sends on the first tick from a spawn.                     *)
OpeningPayload(spawns, r, radius) ==
    MaskPayload(spawns[r], spawns[Other(r)], {}, MaxBarriers, radius)
-----------------------------------------------------------------------------
(* parse_wire_log.                                                          *)
NewSession ==
    [spawns |-> [r \in Roles |-> NoCell], actions |-> <<>>, states |-> <<>>,
     attempts |-> <<>>, posts |-> 0, seed |-> 0]

NoPair == [r \in Roles |-> NoString]
NoStates == [r \in Roles |-> NoPayload]

(* A hello that supersedes a started run retains that run as a void attempt:*)
(* its spawns and its states, of which the verifier can use the first tick  *)
(* only (_replay_attempt steps by actions, and none are retained).          *)
ParseHello(s, r, cell) ==
    LET retry == s.spawns[r] = cell /\ s.actions = <<>> /\ s.states = <<>>
        again == s.spawns[r] # NoCell /\ ~retry
        kept  == [spawns |-> s.spawns, opening |-> Head(s.states)]
    IN  IF s = Unparsable THEN s
        ELSE IF again
        THEN [NewSession EXCEPT
                !.spawns[r] = cell, !.seed = s.seed,
                !.attempts = IF s.states # <<>> THEN Append(s.attempts, kept) ELSE s.attempts]
        ELSE [s EXCEPT !.spawns[r] = cell]

Resized(seq, n, filler) == IF Len(seq) < n THEN Append(seq, filler) ELSE seq

(* _record_move_request: at most 1 + cfg_retries posts of a (tick, role).       *)
ParseRequest(s, r, tick, payload) ==
    IF s = Unparsable \/ s.posts > CfgRetries THEN Unparsable
    ELSE [s EXCEPT !.posts  = @ + 1,
                   !.states = [Resized(@, tick + 1, NoStates) EXCEPT ![tick + 1][r] = payload]]

(* A response whose action is a string is the tick's action; a second,      *)
(* different one is taken for a re-attempt.                                 *)
ParseResponse(s, r, tick, string) ==
    IF s = Unparsable THEN s
    ELSE LET known == Resized(s.actions, tick + 1, NoPair)
         IN  IF known[tick + 1][r] \notin {NoString, string} THEN Unparsable
             ELSE [s EXCEPT !.actions = [known EXCEPT ![tick + 1][r] = string]]

(* The next post is of another (tick, role), of which there is none yet.    *)
Answered(s) == IF s = Unparsable THEN s ELSE [s EXCEPT !.posts = 0]

ParseResult(s, seed) == IF s = Unparsable THEN s ELSE [s EXCEPT !.seed = seed]
-----------------------------------------------------------------------------
(* env.reset(seed) puts the roles on the layout of the seed.                *)
ResetTo(i) == Reset /\ cops' = [c \in Cops |-> Layouts[i]["cop"]] /\ thief' = Layouts[i]["thief"]

GameInit ==
    /\ Init /\ cops = [c \in Cops |-> Layouts[1]["cop"]] /\ thief = Layouts[1]["thief"]
    /\ phase = "greet_cop" /\ voids = 0 /\ started = 0
    /\ round = 0 /\ try = 0 /\ faults = 0 /\ copAct = "UP"
    /\ session = NewSession /\ record = NoRecord
    /\ odd = {} /\ damaged = FALSE /\ verdict = "pending"

NewCall == round' = 0 /\ try' = 0 /\ faults' = 0

(* VoidSubGame: the schedule hands out the same seed again, the next spare, *)
(* or raises for want of one, which ends the match.                         *)
Void ==
    /\ NewCall /\ voids' = voids + 1 /\ copAct' = "UP"
    /\ started' = IF phase \in {"ask_cop", "ask_thief"} THEN started + 1 ELSE started
    /\ UNCHANGED <<record, damaged, verdict>>
    /\ IF SeedAfter(voids + 1) <= Len(Layouts)
       THEN ResetTo(SeedAfter(voids + 1)) /\ phase' = "greet_cop"
       ELSE phase' = "aborted" /\ UNCHANGED vars

(* new_sub_game: its request line is logged whatever the answer.            *)
Greeted == IF phase = "greet_cop" THEN "cop" ELSE "thief"
HelloLogged ==
    /\ phase \in {"greet_cop", "greet_thief"}
    /\ session' = ParseHello(session, Greeted, Cell(Greeted))
    /\ UNCHANGED odd
HelloOk ==
    /\ HelloLogged
    /\ phase' = IF phase = "greet_cop" THEN "greet_thief" ELSE "ask_cop"
    /\ UNCHANGED <<vars, voids, started, round, try, faults, copAct, record, damaged, verdict>>
HelloVoid == HelloLogged /\ Void
-----------------------------------------------------------------------------
(* One post of request_move: what the log has of it, and what the partner   *)
(* makes of it ("fault", "blank" for a reply without a string, or a string).*)
Asked == IF phase = "ask_cop" THEN "cop" ELSE "thief"
Logged(outcome) ==
    LET requested == ParseRequest(session, Asked, step, Payload(Asked, RefereeRadius))
    IN  IF outcome \in {"fault", "blank"} THEN requested
        ELSE ParseResponse(requested, Asked, step, outcome)

(* What the referee knows it did: its two retry layers together made more   *)
(* posts for one move than the parser allows; a string it refused was followed*)
(* by another one; a void came before the thief was asked anything.         *)
SaidBefore == session # Unparsable /\ Len(session.actions) > step
                 /\ session.actions[step + 1][Asked] # NoString
Oddities(outcome, voided) ==
    (IF round + faults > CfgRetries THEN {"surplus_post"} ELSE {})
    \union (IF /\ SaidBefore /\ outcome \notin {"fault", "blank"}
               /\ outcome # session.actions[step + 1][Asked]
            THEN {"other_string"} ELSE {})
    \union (IF voided /\ phase = "ask_cop" /\ step = 0 THEN {"short_void"} ELSE {})

Again == UNCHANGED <<vars, phase, voids, started, copAct, record, damaged, verdict>>

(* _post: a fault is retried, then voids the sub-game.                      *)
PostFaults ==
    /\ phase \in {"ask_cop", "ask_thief"}
    /\ session' = Logged("fault")
    /\ odd' = odd \union Oddities("fault", try = Retries)
    /\ IF try < Retries
       THEN try' = try + 1 /\ faults' = faults + 1 /\ UNCHANGED round /\ Again
       ELSE Void

\* Mutant: a malformed reply is asked again without end.
MalformedForever(outcome) ==
    /\ phase \in {"ask_cop", "ask_thief"}
    /\ outcome \in {"blank"} \union OddStrings(Asked)
    /\ session' = Logged(outcome)
    /\ odd' = odd \union Oddities(outcome, FALSE)
    /\ try' = 0 /\ faults' = 0 /\ UNCHANGED round /\ Again

(* _roundtrip: a malformed reply is asked again, then voids.                *)
PostMalformed(outcome) ==
    /\ phase \in {"ask_cop", "ask_thief"}
    /\ outcome \in {"blank"} \union OddStrings(Asked)
    /\ session' = Logged(outcome)
    /\ odd' = odd \union Oddities(outcome, round = Retries)
    /\ IF round < Retries
       THEN round' = round + 1 /\ try' = 0 /\ UNCHANGED faults /\ Again
       ELSE Void

(* The cop's answer is kept while the thief is asked. *)
CopAnswers(a) ==
    /\ phase = "ask_cop" /\ a \in Alphabet("cop")
    /\ session' = Answered(Logged(a)) /\ odd' = odd \union Oddities(a, FALSE)
    /\ copAct' = a /\ phase' = "ask_thief" /\ NewCall
    /\ UNCHANGED <<vars, voids, started, record, damaged, verdict>>

Scores(w) == Points[w]

(* The thief's answer completes the joint action.  The terminal tick writes *)
(* the record and its result event.                                         *)
ThiefAnswers(a) ==
    /\ phase = "ask_thief" /\ a \in Alphabet("thief")
    /\ odd' = odd \union Oddities(a, FALSE)
    /\ Step([c \in Cops |-> copAct], a)
    /\ copAct' = "UP" /\ NewCall
    /\ UNCHANGED <<voids, started, damaged, verdict>>
    /\ IF winner' = "none"
       THEN session' = Answered(Logged(a)) /\ phase' = "ask_cop" /\ UNCHANGED record
       ELSE /\ session' = ParseResult(Answered(Logged(a)), Seed)
            /\ record' = [seed |-> Seed, winner |-> winner', moves |-> step + 1,
                          scores |-> Scores(winner')]
            /\ phase' = "recorded"
-----------------------------------------------------------------------------
(* The artefacts are damaged between the match and the audit: one payload   *)
(* field of one tick, or the published outcome.  Only sub-games without a   *)
(* void and without an oddity are damaged (bound).                          *)
OtherPayloads(p) ==
    {q \in [your_pos : Board, opponent_pos : Board \union {NoCell},
            barriers : {p.barriers, p.barriers \union {p.your_pos}},
            barriers_left : {p.barriers_left, p.barriers_left + 1}] :
        Cardinality({f \in DOMAIN p : p[f] # q[f]}) = 1}
DamagePayload(t, r) ==
    /\ session # Unparsable
    /\ \E q \in OtherPayloads(session.states[t][r]) :
           session' = [session EXCEPT !.states[t][r] = q]
    /\ UNCHANGED record
DamageRecord ==
    /\ \/ record' = [record EXCEPT !.winner = Other(@)]
       \/ record' = [record EXCEPT !.moves = @ + 1]
       \/ record' = [record EXCEPT !.winner = Other(@), !.scores = Scores(Other(record.winner))]
    /\ UNCHANGED session
Damage ==
    /\ phase = "recorded" /\ ~damaged /\ odd = {} /\ voids = 0
    /\ damaged' = TRUE
    /\ DamageRecord \/ \E t \in 1 .. record.moves, r \in Roles : DamagePayload(t, r)
    /\ UNCHANGED <<vars, phase, voids, started, round, try, faults, copAct, odd, verdict>>
-----------------------------------------------------------------------------
(* The verifier.  Each check names what it raises.                          *)
SpawnsOf(i) == Layouts[i]

(* verify_void_attempts: each retained attempt has the spawns of a seed this*)
(* sub-game may get, and its first tick passes verify_tick for both roles.  *)
VoidsVerified(s) ==
    \A n \in DOMAIN s.attempts : LET v == s.attempts[n] IN
        \E i \in DOMAIN Layouts :
            /\ v.spawns = SpawnsOf(i)
            /\ \A r \in Roles : v.opening[r] = OpeningPayload(v.spawns, r, Radius)

(* verify_session_voids, by the place of the seed among the spares.         *)
VoidsWithinCap(s) == Len(s.attempts) <= MaxVoids * (s.seed - 1) + (MaxVoids - 1)

(* verify_record_scores: the row of the record's own winner.                *)
ScoresVerified == record.scores = Points[record.winner]

(* ordered_actions: the ticks are contiguous, so what is left to refuse is  *)
(* a tick without both roles.                                               *)
ActionsComplete(s) == \A t \in DOMAIN s.actions : \A r \in Roles : s.actions[t][r] # NoString

(* The checks before the first tick is replayed, in the order they run.     *)
Complaint(s) ==
    CASE s = Unparsable -> "parse"
      [] s # Unparsable /\ ~ScoresVerified -> "scores"
      [] s # Unparsable /\ ScoresVerified /\ s.spawns # SpawnsOf(s.seed) -> "spawns"
      [] OTHER -> IF ~VoidsVerified(s) THEN "voids"
                  ELSE IF ~VoidsWithinCap(s) THEN "cap"
                  ELSE IF ~ActionsComplete(s) THEN "ragged" ELSE "none"

Fixed == UNCHANGED <<voids, started, round, try, faults, copAct, session, record, odd, damaged>>

(* replay_sub_game up to its loop: the environment is reset to the seed.    *)
OpenReplay ==
    /\ phase = "recorded"
    /\ IF Complaint(session) = "none"
       THEN phase' = "replay" /\ ResetTo(session.seed) /\ UNCHANGED verdict
       ELSE phase' = "judged" /\ verdict' = Complaint(session) /\ UNCHANGED vars
    /\ Fixed

\* Mutant: only the opening is verified.
TickVerifiedAtZero ==
    step = 0 => \A r \in Roles : session.states[step + 1][r] = Payload(r, Radius)

(* verify_tick with _verify_masking: what was logged is what the replayed   *)
(* state says an honest referee sends.                                      *)
TickVerified == \A r \in Roles : session.states[step + 1][r] = Payload(r, Radius)

(* One turn of the loop: the checks on the tick, then env.step.             *)
ReplayTick ==
    /\ phase = "replay" /\ step < Len(session.actions)
    /\ LET pair == session.actions[step + 1]
           raised == IF winner # "none" THEN "past_terminal"
                     ELSE IF \E r \in Roles : pair[r] \notin Alphabet(r) THEN "illegal"
                     ELSE IF ~TickVerified THEN "tick" ELSE "none"
       IN  IF raised = "none"
           THEN Step([c \in Cops |-> pair["cop"]], pair["thief"]) /\ UNCHANGED <<phase, verdict>>
           ELSE phase' = "judged" /\ verdict' = raised /\ UNCHANGED vars
    /\ Fixed

\* Mutant: a spare is billed at one void.
EscalationPaidOnce(s) == s.seed > 1 => Len(s.attempts) >= 1

(* verify_escalation_budget, for a match whose only voids are these.        *)
EscalationPaid(s) == Len(s.attempts) >= MaxVoids * (s.seed - 1)

(* After the loop: terminated, and the outcome is the record's; replay_match*)
(* bills the spares last.                                                   *)
CloseReplay ==
    /\ phase = "replay" /\ step = Len(session.actions)
    /\ phase' = "judged"
    /\ verdict' = IF \/ winner = "none" \/ winner # record.winner \/ step # record.moves
                     \/ Scores(winner) # record.scores
                  THEN "outcome"
                  ELSE IF EscalationPaid(session) THEN "verified" ELSE "budget"
    /\ Fixed /\ UNCHANGED vars

Stopped == phase \in {"judged", "aborted"} /\ UNCHANGED allVars

Referee ==
    \/ HelloOk \/ HelloVoid
    \/ PostFaults
    \/ \E outcome \in {"blank", "NONSENSE", "PLACE_BARRIER"} : PostMalformed(outcome)
    \/ \E a \in CopActions : CopAnswers(a)
    \/ \E a \in Moves : ThiefAnswers(a)
Verifier == OpenReplay \/ ReplayTick \/ CloseReplay

GameNext == Referee \/ Damage \/ Verifier \/ Stopped

GameSpec == GameInit /\ [][GameNext]_allVars
(* Referee and verifier are loops of one thread each; nothing forces damage.*)
FairGameSpec == GameSpec /\ WF_allVars(Referee \/ Verifier)
-----------------------------------------------------------------------------
(* The verifier accepts the log of an undamaged, honest sub-game, except in *)
(* exactly four cases, each of which an honest referee can meet: one move   *)
(* took more posts than parse_wire_log allows; a refused string was followed*)
(* by another one; a void came before the thief was asked anything; and a   *)
(* spare was reached by voids some of which came before the first           *)
(* request_move.                                                            *)
HonestVerdict ==
    (phase = "judged" /\ ~damaged) =>
        verdict = IF odd \intersect {"surplus_post", "other_string"} # {} THEN "parse"
                  ELSE IF "short_void" \in odd THEN "voids"
                  ELSE IF started < MaxVoids * (record.seed - 1) THEN "budget"
                  ELSE "verified"

(* "ANY divergence of the re-run from the log/records raises" (wire_replay):*)
(* no altered position, mask, budget or outcome survives the audit, at any  *)
(* tick of the run that stands.                                             *)
DamageCaught == damaged => verdict # "verified"

(* verify_void_attempts: "if the partner times out on the first move three  *)
(* times running, the three attempts are legitimately identical at tick 0", *)
(* and rejecting them was "shown to reject exactly that honest log".        *)
HonestVoidsAccepted == (phase = "judged" /\ ~damaged) => verdict # "voids"

(* The sub-game and its audit come to an end.                               *)
AuditEnds == <>(phase \in {"judged", "aborted"})
=============================================================================
