----------------------------- MODULE Heuristics -----------------------------
(***************************************************************************)
(* The experts of src/src/marl/data/heuristics.py: cop_expert plays the    *)
(* first step of a breadth-first path to the thief, thief_expert the move  *)
(* that ends farthest from the nearest cop.  Both read the true state and  *)
(* decide for themselves which moves are legal.                            *)
(***************************************************************************)
EXTENDS CopsRobbers, Sequences

(* The place of a move in _MOVES, which goes by ascending Action index.     *)
Index(m) == CASE m = "UP" -> 0 [] m = "DOWN" -> 1 [] m = "LEFT" -> 2 [] m = "RIGHT" -> 3
FirstOf(moves) == CHOOSE m \in moves : \A n \in moves : Index(m) <= Index(n)

\* Mutant: barriers do not matter.
LegalMovesOnBoard(pos) == {m \in Moves : Target(pos, m) \in Board}
LegalMoves(pos) == {m \in Moves : CanEnter(Target(pos, m), pos)}

(* The loop "if distance > best": the first of the best moves.              *)
FirstBest(legal, score) ==
    CHOOSE m \in legal :
        \A n \in legal : score[m] > score[n] \/ (score[m] = score[n] /\ Index(m) <= Index(n))

NoMove == "none"

\* Mutant: every cell remembers the move that entered it.
FirstMoveLast(cell, move, start, first) == move

(* first.get(cell, move): the opening move of the path through cell.        *)
FirstMove(cell, move, start, first) == IF cell = start THEN move ELSE first[cell]

(* The search of _bfs_first_step.  Its queue keeps what it has handed out;  *)
(* first[c] is NoMove while c has not been seen.                            *)
Opened(start) == [queue |-> <<start>>, first |-> [c \in Board |-> NoMove]]

Visit(search, cell, move, start) ==
    LET nxt == Target(cell, move)
    IN  IF ~CanEnter(nxt, cell) \/ nxt = start \/ search.first[nxt] # NoMove THEN search
        ELSE [queue |-> Append(search.queue, nxt),
              first |-> [search.first EXCEPT ![nxt] = FirstMove(cell, move, start, search.first)]]

Dequeue(search, n, start) ==
    LET cell == search.queue[n]
    IN  IF n > Len(search.queue) THEN search
        ELSE Visit(Visit(Visit(Visit(search, cell, "UP", start), cell, "DOWN", start),
                   cell, "LEFT", start), cell, "RIGHT", start)

(* _bfs_first_step.  (The search here goes on after the goal was seen, which*)
(* does not change first[goal].)                                            *)
BfsFirstStep(start, goal) ==
    LET search[n \in 0 .. Cardinality(Board)] ==
            IF n = 0 THEN Opened(start) ELSE Dequeue(search[n - 1], n, start)
    IN  search[Cardinality(Board)].first[goal]

(* cop_expert with epsilon = 0.  Boxed in or cut off, it still moves.       *)
CopExpert(i) ==
    LET legal == LegalMoves(cops[i])
        first == BfsFirstStep(cops[i], thief)
    IN  IF first # NoMove THEN first ELSE IF legal = {} THEN "UP" ELSE FirstOf(legal)

(* thief_expert with epsilon = 0.                                           *)
ThiefExpert ==
    LET legal == LegalMoves(thief)
        nearest == [m \in Moves |-> Min({Distance(Target(thief, m), cops[i]) : i \in Cops})]
    IN  IF legal = {} THEN "UP" ELSE FirstBest(legal, nearest)

-----------------------------------------------------------------------------
(* What "a lowest-index shortest step" means: Near[k] are the cells with a  *)
(* way of at most k moves to the goal.                                      *)
Into(cell, set) == {m \in LegalMoves(cell) : Target(cell, m) \in set}
ShortestStep(start, goal) ==
    LET Near[k \in 0 .. Cardinality(Board)] ==
            IF k = 0 THEN {goal}
            ELSE Near[k - 1] \union {c \in Board : Into(c, Near[k - 1]) # {}}
        ways == {k \in DOMAIN Near : start \in Near[k]}
    IN  IF start = goal \/ ways = {} THEN NoMove
        ELSE FirstOf(Into(start, Near[Min(ways) - 1]))
=============================================================================
