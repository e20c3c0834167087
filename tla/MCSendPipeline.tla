--------------------------- MODULE MCSendPipeline ---------------------------
EXTENDS SendPipeline

CONSTANTS a, b, c, e, f

Full(n) == [edition |-> n, identified |-> TRUE, consistent |-> TRUE, agreed |-> FALSE]

(* a and c send the report, either edition of it: a in a process that may   *)
(* die, c with the resend approval (or a body edited by hand), a thread     *)
(* beside the bonus sender e, run again.  f sends the bonus from a clone    *)
(* without draft or sentinel.                                               *)
MCProcOf == [s \in Senders |-> IF s = a THEN "p1" ELSE IF s = f THEN "p3" ELSE "p2"]
MCScopeOf == [s \in Senders |-> IF s \in {e, f} THEN "bonus" ELSE "report"]
MCSentinelOf == [s \in Senders |-> IF s = e THEN "home.bonus" ELSE IF s = f THEN "clone.bonus" ELSE "home"]
MCStored == [s \in Senders |->
    CASE s = a -> {Full(1), Full(2)}
      [] s = c -> {Full(1), Full(2), [Full(2) EXCEPT !.consistent = FALSE]}
      [] s = f -> {}
      [] OTHER -> {Full(1)}]
MCLaunches == [p \in Procs |-> IF p = "p2" THEN 2 ELSE 1]

(* Every sender in a process of its own, all with the same report.          *)
OwnProcess == [s \in Senders |-> s]
OneLaunch == [p \in Procs |-> 1]
ReportScope == [s \in Senders |-> "report"]
OneSentinel == [s \in Senders |-> "home"]
SameReport == [s \in Senders |-> {Full(1)}]
=============================================================================
