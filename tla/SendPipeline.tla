---------------------------- MODULE SendPipeline ----------------------------
(***************************************************************************)
(* The sending of the two reports of the project: send_report              *)
(* (src/src/reporting/send.py) and send_bonus_report (bonus_send.py) over   *)
(* gated_idempotent_send, its sentinel file (sentinel.py) and its           *)
(* inter-process lock (send_lock.py).  Threads of several processes, some   *)
(* of them in a clone of the repository, read a body, try to email it,      *)
(* crash, are launched again, and an operator repairs a sentinel by hand.   *)
(*                                                                         *)
(* The gatekeeper between the first check and the thunk only decides when  *)
(* (or whether) the thunk runs, which interleaving and crashes cover.      *)
(***************************************************************************)
EXTENDS Naturals, Sequences, FiniteSets

CONSTANTS
    Senders,        \* launches of a send script, one thread each
    Procs,          \* operating-system processes
    ProcOf,         \* ProcOf[s]: the process sender s is a thread of
    ScopeOf,        \* ScopeOf[s]: the report it sends
    Sentinels,      \* sentinel files, one per scope and clone
    SentinelOf,     \* SentinelOf[s]: the one sender s keeps to
    Stored,         \* Stored[s]: the git-ignored bodies it may find, one a launch
    Approved,       \* senders launched with RESEND_APPROVED=1
    Crashable,      \* processes that may die (bound)
    MaxLaunches     \* MaxLaunches[p]: how often process p is started (bound)

Scopes == {"report", "bonus"}

(* A body: its edition of the results, whether it names the students and    *)
(* repositories, whether its scores, totals and count follow from its       *)
(* winners, and the agreement it records.                                   *)
Bodies == [edition : Nat, identified : BOOLEAN, consistent : BOOLEAN, agreed : BOOLEAN]
NoBody == [edition |-> 0]

ASSUME SendAssumption ==
    /\ ProcOf \in [Senders -> Procs]
    /\ ScopeOf \in [Senders -> Scopes]
    /\ SentinelOf \in [Senders -> Sentinels]
    /\ \A s \in Senders : \A b \in Stored[s] : b \in Bodies
    /\ Approved \subseteq Senders
    /\ Crashable \subseteq Procs
    /\ MaxLaunches \in [Procs -> Nat \ {0}]

None == "none"
ASSUME NoneAssumption == None \notin Senders

VARIABLES
    pc,         \* where each sender stands
    body,       \* body[s]: what it loaded
    copy,       \* copy[scope]: the tracked redacted copy
    lock,       \* lock[p]: the sender holding the thread LOCK of process p
    lockfile,   \* per sentinel, <sentinel>.lock: its creator, whether it is old
    intents,    \* per sentinel, the bodies of its "intent" lines
    sent,       \* per sentinel, the bodies of its "sent" lines
    mails,      \* emails the recipient got, in order
    launches    \* launches[p]: starts of process p so far

files == <<lockfile, intents, sent>>
vars == <<pc, body, copy, lock, files, mails, launches>>

Running == {"first", "thunk", "poll", "judge", "reclaim", "check", "intent", "unlock", "dial", "mark"}
Settled == {"sent", "invalid", "already_sent", "blocked", "refused", "smtp_error", "crashed"}
Critical == {"check", "intent", "unlock"}

NoLockfile == [by |-> None, old |-> FALSE]

Init ==
    /\ pc = [s \in Senders |-> "new"]
    /\ body = [s \in Senders |-> NoBody] /\ copy = [k \in Scopes |-> NoBody]
    /\ lock = [p \in Procs |-> None]
    /\ lockfile = [k \in Sentinels |-> NoLockfile]
    /\ intents = [k \in Sentinels |-> {}] /\ sent = [k \in Sentinels |-> {}]
    /\ mails = <<>>
    /\ launches = [p \in Procs |-> 1]

Goto(s, l) == pc' = [pc EXCEPT ![s] = l]
ThreadLockFree(s) == lock[ProcOf[s]] = None
ReleaseThreadLock(s) == lock' = [lock EXCEPT ![ProcOf[s]] = None]
Unlink(s) == lockfile' = [lockfile EXCEPT ![SentinelOf[s]] = NoLockfile]
OpenIntents(k) == intents[k] \ sent[k]

-----------------------------------------------------------------------------
(* redact_report, redact_bonus: no identities, the results stay.            *)
Redacted(b) == [b EXCEPT !.identified = FALSE]

(* load_draft: a clone without the real draft falls back to the tracked     *)
(* redacted copy; the flag --agreed is written into what was read.          *)
Drafts(s) ==
    LET found == IF Stored[s] = {} THEN {copy["bonus"]} \ {NoBody} ELSE Stored[s]
    IN  {[b EXCEPT !.agreed = agreed] : b \in found, agreed \in BOOLEAN}

(* validate: the schema, which wants every name, id and link, the number of *)
(* sub-games, and scores and totals that follow from the winners.           *)
Valid(b) == b.identified /\ b.consistent

\* Mutant: the redacted copy passes for a body.
AgreedOnly(b) == b.consistent /\ b.agreed

(* send_bonus_report: also the agreement of both groups, literally True.    *)
BonusSendable(b) == Valid(b) /\ b.agreed

(* A body is refused, or its redacted copy is written and the send begins.  *)
Start(s, b, sendable) ==
    IF sendable
    THEN /\ body' = [body EXCEPT ![s] = b]
         /\ copy' = [copy EXCEPT ![ScopeOf[s]] = Redacted(b)]
         /\ Goto(s, "first")
    ELSE Goto(s, "invalid") /\ UNCHANGED <<body, copy>>

SendReport(s) ==
    /\ pc[s] = "new" /\ ScopeOf[s] = "report"
    /\ \E b \in Stored[s] : Start(s, b, Valid(b))
    /\ UNCHANGED <<lock, files, mails, launches>>

(* The bonus script; without a draft and a tracked copy it exits.           *)
SendBonus(s) ==
    /\ pc[s] = "new" /\ ScopeOf[s] = "bonus"
    /\ IF Drafts(s) = {} THEN Goto(s, "invalid") /\ UNCHANGED <<body, copy>>
       ELSE \E b \in Drafts(s) : Start(s, b, BonusSendable(b))
    /\ UNCHANGED <<lock, files, mails, launches>>

-----------------------------------------------------------------------------
(* check_clear_to_send: no-op, two refusals, or clear; where it leads.      *)
Verdict(s) ==
    LET k == SentinelOf[s]
    IN  IF body[s] \in sent[k] THEN "already_sent"
        ELSE IF OpenIntents(k) # {} THEN "blocked"
        ELSE IF sent[k] # {} /\ s \notin Approved THEN "refused"
        ELSE "clear"

(* The first check, atomic under the thread LOCK. *)
OuterCheck(s) ==
    /\ pc[s] = "first" /\ ThreadLockFree(s)
    /\ Goto(s, IF Verdict(s) = "clear" THEN "thunk" ELSE Verdict(s))
    /\ UNCHANGED <<body, copy, lock, files, mails, launches>>

(* _send enters send_lock: the thread LOCK first, held while polling. *)
EnterThunk(s) ==
    /\ pc[s] = "thunk" /\ ThreadLockFree(s)
    /\ lock' = [lock EXCEPT ![ProcOf[s]] = s]
    /\ Goto(s, "poll")
    /\ UNCHANGED <<body, copy, files, mails, launches>>

(* os.open(O_CREAT | O_EXCL) *)
CreateLockfile(s) ==
    /\ pc[s] = "poll" /\ lockfile[SentinelOf[s]] = NoLockfile
    /\ lockfile' = [lockfile EXCEPT ![SentinelOf[s]] = [by |-> s, old |-> FALSE]]
    /\ Goto(s, "check")
    /\ UNCHANGED <<body, copy, lock, intents, sent, mails, launches>>

\* Mutant: no deadline.
PollForever(s) == FALSE /\ pc[s] = "poll" /\ UNCHANGED vars

(* The lockfile exists and is recent: the deadline passes while waiting.    *)
PollTimeout(s) ==
    /\ pc[s] = "poll" /\ lockfile[SentinelOf[s]] # NoLockfile /\ ~lockfile[SentinelOf[s]].old
    /\ Goto(s, "refused") /\ ReleaseThreadLock(s)
    /\ UNCHANGED <<body, copy, files, mails, launches>>

(* stat() finds an age above the stale threshold ... *)
SeeStale(s) ==
    /\ pc[s] = "poll" /\ lockfile[SentinelOf[s]].old
    /\ Goto(s, "judge")
    /\ UNCHANGED <<body, copy, lock, files, mails, launches>>

(* ... then the sentinel is read: a dangling intent refuses ... *)
JudgeStale(s) ==
    /\ pc[s] = "judge"
    /\ IF OpenIntents(SentinelOf[s]) # {}
       THEN Goto(s, "blocked") /\ ReleaseThreadLock(s)
       ELSE Goto(s, "reclaim") /\ UNCHANGED lock
    /\ UNCHANGED <<body, copy, files, mails, launches>>

(* ... else the path is unlinked, whichever lockfile it names by now.       *)
Reclaim(s) ==
    /\ pc[s] = "reclaim"
    /\ Unlink(s)
    /\ Goto(s, "poll")
    /\ UNCHANGED <<body, copy, lock, intents, sent, mails, launches>>

(* The recheck in the critical section; the way out unlinks the lockfile.   *)
InnerCheck(s) ==
    /\ pc[s] = "check"
    /\ IF Verdict(s) = "clear"
       THEN Goto(s, "intent") /\ UNCHANGED <<lock, lockfile>>
       ELSE Goto(s, Verdict(s)) /\ ReleaseThreadLock(s) /\ Unlink(s)
    /\ UNCHANGED <<body, copy, intents, sent, mails, launches>>

\* Mutant: nothing is recorded before the send.
MarkNothing(s) ==
    /\ pc[s] = "intent"
    /\ Goto(s, "unlock")
    /\ UNCHANGED <<body, copy, lock, files, mails, launches>>

(* The durable intent, before any network I/O. *)
MarkIntent(s) ==
    /\ pc[s] = "intent"
    /\ intents' = [intents EXCEPT ![SentinelOf[s]] = @ \union {body[s]}]
    /\ Goto(s, "unlock")
    /\ UNCHANGED <<body, copy, lock, lockfile, sent, mails, launches>>

(* Release: the lockfile is unlinked by path, then the thread LOCK is left. *)
Unlock(s) ==
    /\ pc[s] = "unlock"
    /\ Unlink(s)
    /\ ReleaseThreadLock(s)
    /\ Goto(s, "dial")
    /\ UNCHANGED <<body, copy, intents, sent, mails, launches>>

Mail(s) == [by |-> s, scope |-> ScopeOf[s], body |-> body[s]]

(* sender.send returns, or raises before or after the mail was accepted.    *)
Dial(s) ==
    /\ pc[s] = "dial"
    /\ \/ mails' = Append(mails, Mail(s)) /\ Goto(s, "mark")
       \/ mails' = Append(mails, Mail(s)) /\ Goto(s, "smtp_error")
       \/ UNCHANGED mails /\ Goto(s, "smtp_error")
    /\ UNCHANGED <<body, copy, lock, lockfile, intents, sent, launches>>

MarkSent(s) ==
    /\ pc[s] = "mark"
    /\ sent' = [sent EXCEPT ![SentinelOf[s]] = @ \union {body[s]}]
    /\ Goto(s, "sent")
    /\ UNCHANGED <<body, copy, lock, lockfile, intents, mails, launches>>

-----------------------------------------------------------------------------
(* A process dies: its threads and its LOCK are gone, the files stay.       *)
Crash(p) ==
    /\ p \in Crashable
    /\ \E s \in Senders : ProcOf[s] = p /\ pc[s] \in Running
    /\ pc' = [s \in Senders |-> IF ProcOf[s] = p /\ pc[s] \notin Settled THEN "crashed" ELSE pc[s]]
    /\ lock' = [lock EXCEPT ![p] = None]
    /\ UNCHANGED <<body, copy, files, mails, launches>>

(* The script is run again once all of its threads are settled. *)
Relaunch(p) ==
    /\ launches[p] < MaxLaunches[p]
    /\ \A s \in Senders : ProcOf[s] = p => pc[s] \in Settled
    /\ \E s \in Senders : ProcOf[s] = p
    /\ launches' = [launches EXCEPT ![p] = @ + 1]
    /\ pc' = [s \in Senders |-> IF ProcOf[s] = p THEN "new" ELSE pc[s]]
    /\ UNCHANGED <<body, copy, lock, files, mails>>

(* SENTINEL_LOCK_STALE_S pass.  The critical section reads and appends one  *)
(* small file: a lockfile gets that old only after its creator left it.     *)
Age(k) ==
    /\ lockfile[k] # NoLockfile /\ ~lockfile[k].old
    /\ pc[lockfile[k].by] \notin Critical
    /\ lockfile' = [lockfile EXCEPT ![k].old = TRUE]
    /\ UNCHANGED <<pc, body, copy, lock, intents, sent, mails, launches>>

(* The documented repair, once no attempt at d is alive: if and only if the *)
(* mail did not arrive, delete the intent line and a stale lockfile.        *)
OperatorClears(k) ==
    \E d \in OpenIntents(k) :
        /\ \A i \in 1 .. Len(mails) : SentinelOf[mails[i].by] = k => mails[i].body # d
        /\ \A s \in Senders : SentinelOf[s] = k /\ body[s] = d =>
              pc[s] \notin {"intent", "unlock", "dial", "mark"}
        /\ intents' = [intents EXCEPT ![k] = @ \ {d}]
        /\ lockfile' = IF lockfile[k].old THEN [lockfile EXCEPT ![k] = NoLockfile] ELSE lockfile
        /\ UNCHANGED <<pc, body, copy, lock, sent, mails, launches>>

Step(s) ==
    \/ SendReport(s) \/ SendBonus(s) \/ OuterCheck(s) \/ EnterThunk(s) \/ CreateLockfile(s) \/ PollTimeout(s)
    \/ SeeStale(s) \/ JudgeStale(s) \/ Reclaim(s)
    \/ InnerCheck(s) \/ MarkIntent(s) \/ Unlock(s) \/ Dial(s) \/ MarkSent(s)

(* Nobody has anything left to do: every sender settled for good. *)
AllSettled == (\A s \in Senders : pc[s] \in Settled) /\ UNCHANGED vars

Next ==
    \/ \E s \in Senders : Step(s)
    \/ \E p \in Procs : Crash(p) \/ Relaunch(p)
    \/ \E k \in Sentinels : Age(k) \/ OperatorClears(k)
    \/ AllSettled

Spec == Init /\ [][Next]_vars

(* Every live thread keeps running: the poll loop sleeps 50 ms a turn and   *)
(* gives up at its deadline, SMTP returns or raises.                        *)
FairSpec == Spec /\ \A s \in Senders : WF_vars(Step(s))

-----------------------------------------------------------------------------
(* "Send report at most once" (send.py), "the §3.5 report email and the §9  *)
(* bonus email are each one-per-match guarded independently" (bonus_send.py)*)
(* : a report is never emailed twice, and a second body of it only with the *)
(* operator's approval, also when it is sent from a clone that has neither  *)
(* the sentinel nor the draft.                                              *)
OneEmail ==
    \A i, j \in 1 .. Len(mails) : i < j /\ mails[i].scope = mails[j].scope =>
        mails[i].body # mails[j].body /\ mails[j].by \in Approved

(* An email that left is on record in its sentinel, whatever crashed since, *)
(* so no later attempt can take it for unsent; and "sent" is never a guess. *)
EveryEmailOnRecord ==
    /\ \A i \in 1 .. Len(mails) :
          LET k == SentinelOf[mails[i].by] IN mails[i].body \in intents[k] \union sent[k]
    /\ \A k \in Sentinels : \A d \in sent[k] :
          \E i \in 1 .. Len(mails) : SentinelOf[mails[i].by] = k /\ mails[i].body = d

(* An undelivered report blocks nobody for good: no thread stays in the     *)
(* check, the poll loop or the send, even behind a crashed one's lockfile.  *)
EverySendSettles ==
    \A s \in Senders : (pc[s] \in Running) ~> (pc[s] \in Settled)
=============================================================================
