---------------------------- MODULE PublishedBody ----------------------------
(***************************************************************************)
(* The body both groups publish (build_bonus_report, validate_bonus in     *)
(* src/src/reporting/bonus.py), and what the replay of a match asks of it  *)
(* before it replays a move (replay_match, _replay_records.py,             *)
(* _replay_outcome.py in src/src/mcp).                                     *)
(*                                                                         *)
(* A sub-game's entry has its id, the groups that played it, its winner,   *)
(* its scores and its times.  "moves" goes the way of the winner through   *)
(* all of these checks and is left out; so are the identity blocks.        *)
(***************************************************************************)
EXTENDS SeedSchedule, FiniteSets, FiniteSetsExt

CONSTANTS
    Table,      \* Table[winner]: the row of game.scoring, by role
    Claim       \* game.bonus_claim: winner, loser, tie

Sides == {"cop", "thief"}
Groups == {"group_1", "group_2"}

ASSUME ScoringAssumption ==
    /\ Table \in [Sides -> [Sides -> Nat]]
    /\ Claim \in [{"winner", "loser", "tie"} -> Nat]

Rival(group) == CHOOSE other \in Groups : other # group

(* Who is the cop: group_1 in the first half of n sub-games.                *)
CopGroup(id, n) == IF id <= n \div 2 THEN "group_1" ELSE "group_2"

(* derive_totals_by_group: over the list, whatever ids it holds.            *)
Totals(games) ==
    [group \in Groups |->
        MapThenSumSet(LAMBDA i : (IF games[i].cop = group THEN games[i].scores["cop"] ELSE 0)
                                   + (IF games[i].thief = group THEN games[i].scores["thief"] ELSE 0),
                      DOMAIN games)]

(* derive_bonus_claim.                                                      *)
ClaimFor(totals) ==
    [group \in Groups |->
        CASE totals[group] > totals[Rival(group)] -> Claim["winner"]
          [] totals[group] < totals[Rival(group)] -> Claim["loser"]
          [] OTHER -> Claim["tie"]]

(* The derived fields, as a body carries them.                              *)
WithTotals(names, games) ==
    [names |-> names, games |-> games, totals |-> Totals(games), claim |-> ClaimFor(Totals(games))]

(* build_bonus_report, from the records in id order.                        *)
Built(won, starts, ends) ==
    WithTotals(<<"group_1", "group_2">>,
        [g \in Games |->
            [id |-> g, cop |-> CopGroup(g, 2 * Pairs), thief |-> Rival(CopGroup(g, 2 * Pairs)),
             winner |-> won[g], scores |-> Table[won[g]], start |-> starts[g], end |-> ends[g]]])

(* validate_bonus with the game section: the draft's own gate and the one   *)
(* before the email.                                                        *)
DraftValid(body) ==
    LET first == body.names[1]
    IN  /\ \A i \in DOMAIN body.games :
              LET game == body.games[i]
                  half == CopGroup(game.id, Len(body.games))
                  cop  == IF half = "group_1" THEN first ELSE body.names[2]
              IN  /\ game.scores = Table[game.winner]
                  /\ game.cop = cop /\ game.thief = Rival(cop)
        /\ body.totals = Totals(body.games)
        /\ body.claim = ClaimFor(body.totals)

-----------------------------------------------------------------------------
(* replay_match keeps the records by id: of two with one id, the last.      *)
Record(body, id) ==
    body.games[Max({i \in DOMAIN body.games : body.games[i].id = id})]

Ids(body) == {body.games[i].id : i \in DOMAIN body.games}

\* Mutant: a second entry of an id goes unnoticed.
IdsDistinctTrusted(body) == TRUE
IdsDistinct(body) == Cardinality(Ids(body)) = Len(body.games)

(* verify_record_structure, agreed_group_names: the ids of a whole match,   *)
(* the agreed names in the agreed order, the alternation.                   *)
StructureVerified(body) ==
    /\ Ids(body) = Games
    /\ body.names = <<"group_1", "group_2">>
    /\ \A id \in Games :
          /\ Record(body, id).cop = CopGroup(id, 2 * Pairs)
          /\ Record(body, id).thief = Rival(CopGroup(id, 2 * Pairs))

\* Mutant: only within a sub-game.
MetadataEachAlone(body) == \A i \in DOMAIN body.games : body.games[i].start <= body.games[i].end

(* verify_body_metadata: no sub-game ends before it starts, or starts before*)
(* the one listed before it ended.                                          *)
MetadataVerified(body) ==
    \A i \in DOMAIN body.games :
        /\ body.games[i].start <= body.games[i].end
        /\ i > 1 => body.games[i - 1].end <= body.games[i].start

(* verify_published_outcome.                                                *)
OutcomeVerified(body) ==
    /\ body.totals = Totals(body.games)
    /\ body.claim = ClaimFor(Totals(body.games))

(* verify_record_scores, verify_result_event: the table's row for the record*)
(* and the record of the log's last result event for the session.           *)
RecordVerified(record, logged) ==
    /\ record.scores = Table[record.winner]
    /\ record.winner = logged /\ record.scores = Table[logged]

(* replay_match, up to the replay of the moves; "won" is what the log says. *)
BodyVerified(body, won) ==
    /\ IdsDistinct(body)
    /\ StructureVerified(body)
    /\ MetadataVerified(body)
    /\ OutcomeVerified(body)
    /\ \A id \in Games : RecordVerified(Record(body, id), won[id])

-----------------------------------------------------------------------------
(* What may become of a body between the draft and the replay: an entry of  *)
(* the list rewritten, lost or entered twice, a second one put first and    *)
(* dated before the match, the groups exchanged; and the totals and the     *)
(* claim follow, or are left as they were.                                  *)
Entries(body) ==
    UNION {{[game EXCEPT !.id = id, !.cop = cop, !.thief = Rival(cop), !.winner = w, !.scores = Table[s]]
             : id \in Games, cop \in Groups, w \in Sides, s \in Sides}
           : game \in {body.games[i] : i \in DOMAIN body.games}}

Without(list, i) == SubSeq(list, 1, i - 1) \o SubSeq(list, i + 1, Len(list))
Lists(body) ==
    UNION {{Without(body.games, i), SubSeq(body.games, 1, i - 1) \o <<body.games[i]>>
                                        \o SubSeq(body.games, i, Len(body.games))}
             \union {[body.games EXCEPT ![i] = e] : e \in Entries(body)}
             \union {<<[e EXCEPT !.start = 0, !.end = 0]>> \o body.games : e \in Entries(body)}
           : i \in DOMAIN body.games}

Altered(body) ==
    {WithTotals(names, list) : names \in {body.names, <<body.names[2], body.names[1]>>},
                               list \in Lists(body)}
        \union {[body EXCEPT !.games = list] : list \in Lists(body)}
=============================================================================
