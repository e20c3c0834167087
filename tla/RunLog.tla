------------------------------- MODULE RunLog -------------------------------
(***************************************************************************)
(* The results matrix (scripts/run_results.py) and its append-only log     *)
(* (src/src/results/run_log.py): one training per (algorithm, seed, stage),*)
(* one line per round, a combo with all its rounds logged is skipped by the*)
(* next launch.  The process may die at any point, also in the middle of a *)
(* line; the figures read the log through load_runs (results/aggregate.py).*)
(*                                                                         *)
(* A training is told apart by its number: the rows of two trainings of one*)
(* combo differ when the code or the configuration did.                    *)
(***************************************************************************)
EXTENDS Integers, Sequences, FiniteSets, SequencesExt

CONSTANTS
    Matrix,         \* the combos in the order of main's loops
    RoundsPerRun,   \* selfplay.rounds
    LastRounds,     \* results.final_window_rounds
    MaxCrashes      \* bound: crashes of the process

ASSUME RunLogAssumption ==
    /\ Matrix \in Seq(STRING) /\ Matrix # <<>> /\ IsInjective(Matrix)
    /\ {RoundsPerRun, LastRounds} \subseteq Nat \ {0} /\ MaxCrashes \in Nat

VARIABLES
    log,            \* the lines of history.jsonl
    ended,          \* the file ends in a newline
    process,        \* "down", "up", "raised" (JSONDecodeError) or "plotted"
    done,           \* what done_runs returned at the launch
    at,             \* where the loops stand
    pending,        \* rows of the training under way that are not in the file yet
    trainings, crashes

logVars == <<log, ended, process, done, at, pending, trainings, crashes>>

Combos == Range(Matrix)
Unreadable == [combo |-> "", round |-> 0, training |-> 0]     \* json.loads raises
Readable == \A n \in DOMAIN log : log[n] # Unreadable
-----------------------------------------------------------------------------
Rows(combo) == {n \in DOMAIN log : log[n].combo = combo}

\* Mutant: one logged round is enough.
DoneRunsAtOnce == {c \in Combos : Rows(c) # {}}

(* done_runs: all rounds are there, whichever training logged them.         *)
DoneRuns == {c \in Combos : Cardinality({log[n].round : n \in Rows(c)}) >= RoundsPerRun}

\* Mutant: the first record of each round.
LoadedFirst(combo) ==
    {log[n] : n \in {i \in Rows(combo) :
                        \A j \in Rows(combo) : log[j].round = log[i].round => j >= i}}

(* load_runs: the last record of each round.                                *)
Loaded(combo) ==
    {log[n] : n \in {i \in Rows(combo) :
                        \A j \in Rows(combo) : log[j].round = log[i].round => j <= i}}

(* final_values_by_seed: the last rows by round, for the final means.       *)
FinalRows(combo) ==
    {row \in Loaded(combo) :
        Cardinality({later \in Loaded(combo) : later.round > row.round}) < LastRounds}

(* history_records of one training.                                         *)
History(combo, training) ==
    [r \in 1 .. RoundsPerRun |-> [combo |-> combo, round |-> r, training |-> training]]
-----------------------------------------------------------------------------
LogInit ==
    /\ log = <<>> /\ ended = TRUE /\ process = "down" /\ done = {}
    /\ at = 1 /\ pending = <<>> /\ trainings = 0 /\ crashes = 0

(* main reads the log before anything else, or dies of a line it cannot read*)
Launch ==
    /\ process = "down"
    /\ IF Readable THEN process' = "up" /\ done' = DoneRuns /\ at' = 1
       ELSE process' = "raised" /\ UNCHANGED <<done, at>>
    /\ UNCHANGED <<log, ended, pending, trainings, crashes>>

Busy == process = "up" /\ at <= Len(Matrix)

Skip ==
    /\ Busy /\ pending = <<>> /\ Matrix[at] \in done
    /\ at' = at + 1
    /\ UNCHANGED <<log, ended, process, done, pending, trainings, crashes>>

(* run_and_log: sdk.train, then the records of its history.                 *)
Train ==
    /\ Busy /\ pending = <<>> /\ Matrix[at] \notin done
    /\ trainings' = trainings + 1
    /\ pending' = History(Matrix[at], trainings + 1)
    /\ UNCHANGED <<log, ended, process, done, at, crashes>>

(* What is written after a line whose newline was lost lands on that line,  *)
(* which is then two objects, or one and a piece, and no JSON.              *)
Joined == [log EXCEPT ![Len(log)] = Unreadable]

(* A line reaches the file. *)
AppendRecord ==
    /\ Busy /\ pending # <<>>
    /\ log' = IF ended THEN Append(log, Head(pending)) ELSE Joined
    /\ ended' = TRUE
    /\ pending' = Tail(pending)
    /\ at' = IF Len(pending) = 1 THEN at + 1 ELSE at
    /\ UNCHANGED <<process, done, trainings, crashes>>

(* main returns, and the figures are drawn from load_runs: the log may have *)
(* become unreadable since the launch.                                      *)
Plot ==
    /\ process = "up" /\ at > Len(Matrix)
    /\ process' = IF Readable THEN "plotted" ELSE "raised"
    /\ UNCHANGED <<log, ended, done, at, pending, trainings, crashes>>

(* The process dies: between two lines, in the middle of one, or after all  *)
(* of one but its newline.                                                  *)
Crash ==
    /\ process = "up" /\ crashes < MaxCrashes
    /\ crashes' = crashes + 1 /\ process' = "down" /\ pending' = <<>>
    /\ \/ UNCHANGED <<log, ended>>
       \/ /\ pending # <<>>
          /\ log' \in IF ended THEN {Append(log, Unreadable), Append(log, Head(pending))}
                     ELSE {Joined}
          /\ ended' = FALSE
    /\ UNCHANGED <<done, at, trainings>>

(* "DELETE the run log (a lightweight, explicit operator action)". *)
DeleteLog ==
    /\ process = "raised"
    /\ log' = <<>> /\ ended' = TRUE /\ process' = "down"
    /\ UNCHANGED <<done, at, pending, trainings, crashes>>

LogStep == Launch \/ Skip \/ Train \/ AppendRecord \/ Plot
Stopped == process = "plotted" /\ UNCHANGED logVars

LogNext == LogStep \/ Crash \/ DeleteLog \/ Stopped

(* The process runs, it is started again after a crash, and somebody deletes*)
(* a log it cannot read.  Nothing forces a crash.                           *)
LogSpec == LogInit /\ [][LogNext]_logVars /\ WF_logVars(LogStep) /\ WF_logVars(DeleteLog)
-----------------------------------------------------------------------------
(* What the next launch will skip is whole: load_runs gives the figures one *)
(* row for each of its rounds, all of the same training, although crashed   *)
(* trainings of the combo left rows of theirs in the log.                   *)
CompleteIsOneTraining ==
    Readable => \A c \in DoneRuns :
        /\ {row.round : row \in Loaded(c)} = 1 .. RoundsPerRun
        /\ Cardinality({row.training : row \in Loaded(c)}) = 1

(* Crashes notwithstanding, the figures are drawn in the end, from every    *)
(* round of every combo, the final means from its last ones: no combo is    *)
(* skipped for good half logged.  (After a crash that tore a line, only     *)
(* because somebody deletes the log.)                                       *)
MatrixCompletes ==
    <>(/\ process = "plotted"
       /\ \A c \in Combos :
             /\ {row.round : row \in Loaded(c)} = 1 .. RoundsPerRun
             /\ {row.round : row \in FinalRows(c)} = {r \in 1 .. RoundsPerRun : r > RoundsPerRun - LastRounds})
=============================================================================
