---------------------------- MODULE ReplayVerify ----------------------------
(***************************************************************************)
(* The schedule-level checks of the published replay                       *)
(* (src/src/mcp/_replay_verify.py, _replay_outcome.py, wire_replay.py),    *)
(* applied to the log, the records and the body an HONEST referee produced.*)
(* They are stated as predicates of the state WireMatch reaches.           *)
(***************************************************************************)
EXTENDS WireMatch, PublishedBody

SpareIndex(seed) == IF seed >= Pairs THEN seed - Pairs + 1 ELSE 0     \* 1 for spare #1

(* verify_session_voids: n consecutive voids force an escalation, so this   *)
(* many are reachable before the run that stands.                           *)
SessionCap(seed) == MaxVoids * SpareIndex(seed) + (MaxVoids - 1)

\* Mutant: the runs that are played again under a spare are not counted.
CeilingOfGames == MaxVoids * (NumSeeds - Pairs) + (MaxVoids - 1) * Cardinality(Games)

(* verify_escalation_budget, the match-wide bound. *)
Ceiling ==
    LET spares == NumSeeds - Pairs
    IN  MaxVoids * spares + (MaxVoids - 1) * (Cardinality(Games) + spares)
LoggedVoids == MapThenSumSet(LAMBDA g : session[g].voids, Games)

(* The body of the match, whoever won its sub-games.  The referee's clock   *)
(* counts results: a run that stands started after the result before it.    *)
BodyOf(won) ==
    Built(won, [g \in Games |-> 2 * records[g].ended - 1], [g \in Games |-> 2 * records[g].ended])

(* select_log_and_records: the default replay takes the log whose result    *)
(* events, in the order they were logged, are the records.                  *)
PairedByDefault ==
    [n \in 1 .. results |-> {g \in Games : records[g].ended = n}] = [n \in Games |-> {n}]

(* The last loop of replay_match, on the seed each sub-game resolved to: one*)
(* for both halves of a pair, and a spare for one pair only.                *)
SchedulePossible(seedOf) ==
    /\ \A g, h \in DOMAIN seedOf : PairOf(g) = PairOf(h) => seedOf[g] = seedOf[h]
    /\ \A g, h \in DOMAIN seedOf :
          seedOf[g] = seedOf[h] /\ SpareIndex(seedOf[g]) > 0 => PairOf(g) = PairOf(h)
-----------------------------------------------------------------------------
(* Of two mirror halves that both stand, the log resolves one seed, the     *)
(* schedule's; and a seed of the log belongs to one pair only (the last     *)
(* loop of replay_match refuses anything else).                             *)
OneSeedPerPair ==
    \A g, h \in Played :
        (session[g].seed = session[h].seed) <=> (PairOf(g) = PairOf(h))

(* An honest log never exceeds the per-session void cap the verifier        *)
(* derives from SeedSchedule (verify_session_voids), whatever was requeued. *)
WithinSessionCap ==
    \A g \in Played : session[g].voids <= SessionCap(session[g].seed)

(* parse_wire_log ends with the spawns and the seed of the run that stands, *)
(* not of an attempt it superseded ("last run wins"): seeded_env compares   *)
(* both hellos with the seed of the last result event.                      *)
SurvivingRunParsed ==
    \A g \in Played :
        /\ session[g].spawns = Spawn[records[g].seed]
        /\ session[g].seed = records[g].seed
        /\ session[g].started

(* Every spare handed out was paid for by MaxVoids logged "void" events, no *)
(* void is left over except the ones before each completed run, and the     *)
(* schedule's own counter is what is still unpaid.                          *)
VoidsPayForSpares ==
    LET paid == MaxVoids * (spare - Pairs)
    IN  attempt # "aborted" => /\ voidEvents >= paid + voids
                               /\ voidEvents <= paid + voids + (MaxVoids - 1) * results

(* The draft of an honest match always passes its own gate, and its log     *)
(* resolves to a schedule that could have been played.  The verifier        *)
(* accepts the body, and the default replay finds its log, exactly when no  *)
(* sub-game was played again under a spare: a base game played again ends   *)
(* after games listed behind it, and its superseded result is still in the  *)
(* log.  A match without one is within the match-wide ceiling too; each     *)
(* superseded result may take an honest log one void above it, no more.     *)
(* (With one pair only the mirror is behind it, and is played after it: the *)
(* body is accepted then, though the default replay does not find the log.) *)
VerifiedUnlessReplayed ==
    Over => LET inOrder == results = Cardinality(Games)
            IN  /\ SchedulePossible([g \in Games |-> session[g].seed])
                /\ PairedByDefault <=> inOrder
                /\ LoggedVoids <= Ceiling + (results - Cardinality(Games))
                /\ \A won \in [Games -> Roles] :
                      /\ DraftValid(BodyOf(won))
                      /\ BodyVerified(BodyOf(won), won) <=> inOrder

(* A body that was altered is refused before a move is replayed, unless who *)
(* won what, the totals and the claim are still those of the match.  (The   *)
(* checks see nothing of a match but its winners and its order: the match   *)
(* without a void stands for all that were not reordered.)                  *)
AlteredBodyRefused ==
    Over /\ voidEvents = 0 =>
        \A won \in [Games -> Roles] : \A body \in Altered(BodyOf(won)) :
            BodyVerified(body, won) =>
                /\ body.totals = BodyOf(won).totals /\ body.claim = BodyOf(won).claim
                /\ \A id \in Games : Record(body, id).winner = won[id]
-----------------------------------------------------------------------------
(* Every match ends: all sub-games stand, or the spares ran out.            *)
MatchEnds == <>(Over \/ attempt = "aborted")

(* The referee implements the promise of P7: records are the finished games,*)
(* seeds below "spare" are the ones handed out.                             *)
Promise == INSTANCE PairedMatch WITH
    layout    <- pairSeed,
    handedOut <- 0 .. spare - 1,
    finished  <- [g \in Games |-> records[g].seed]

ImplementsPairedMatch == Promise!Spec
=============================================================================
