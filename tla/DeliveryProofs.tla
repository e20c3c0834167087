--------------------------- MODULE DeliveryProofs ---------------------------
(***************************************************************************)
(* Theorems about SendPipeline for every set of senders, processes and     *)
(* bodies, and about Gatekeeper, the channel the emails leave by, for every*)
(* number of callers, every bucket and every length of the queue.          *)
(***************************************************************************)
EXTENDS SendPipeline, Gatekeeper, FiniteSetTheorems, TLAPS

Copies == Bodies \union {NoBody}
Lockfiles == [by : Senders \union {None}, old : BOOLEAN]
Mails == [by : Senders, scope : Scopes, body : Copies]
States == {"new"} \union Running \union Settled

TypeOK ==
    /\ pc \in [Senders -> States]
    /\ body \in [Senders -> Copies] /\ copy \in [Scopes -> Copies]
    /\ lock \in [Procs -> Senders \union {None}]
    /\ lockfile \in [Sentinels -> Lockfiles]
    /\ intents \in [Sentinels -> SUBSET Copies] /\ sent \in [Sentinels -> SUBSET Copies]
    /\ mails \in Seq(Mails)
    /\ launches \in [Procs -> Nat \ {0}]

MailedAs(k, d) == \E i \in 1 .. Len(mails) : SentinelOf[mails[i].by] = k /\ mails[i].body = d

(* From the intent on, the body of an attempt is on record; a thread that   *)
(* will mark it as sent has the recipient's answer.                         *)
AttemptOnRecord ==
    \A s \in Senders :
        /\ pc[s] \in {"unlock", "dial", "mark"} =>
              body[s] \in intents[SentinelOf[s]] \union sent[SentinelOf[s]]
        /\ pc[s] = "mark" => MailedAs(SentinelOf[s], body[s])

RecordInv == TypeOK /\ AttemptOnRecord /\ EveryEmailOnRecord

-----------------------------------------------------------------------------
(* load_draft gives a body whose only change is the agreement written in.   *)
LEMMA DraftBodies ==
    ASSUME TypeOK, NEW s \in Senders, NEW b \in Drafts(s)
    PROVE  /\ b \in Bodies
           /\ Stored[s] = {} => copy["bonus"] # NoBody /\ b.identified = copy["bonus"].identified
<1> DEFINE found == IF Stored[s] = {} THEN {copy["bonus"]} \ {NoBody} ELSE Stored[s]
<1>1. PICK d \in found, agreed \in BOOLEAN : b = [d EXCEPT !.agreed = agreed]
  BY DEF Drafts
<1>2. d \in Bodies
  BY SendAssumption DEF TypeOK, Copies, Scopes
<1>3. b \in Bodies /\ b.identified = d.identified
  BY <1>1, <1>2 DEF Bodies
<1>4. QED
  BY <1>1, <1>3

(* Starting with a body the script found keeps the types. *)
LEMMA StartTypes ==
    ASSUME TypeOK, NEW s \in Senders, NEW b \in Bodies, NEW sendable, Start(s, b, sendable)
    PROVE  /\ pc' \in [Senders -> States] /\ body' \in [Senders -> Copies]
           /\ copy' \in [Scopes -> Copies]
<1>1. Redacted(b) \in Copies /\ b \in Copies
  BY DEF Redacted, Copies, Bodies
<1>2. "first" \in States /\ "invalid" \in States
  BY DEF States, Running, Settled
<1>3. QED
  BY <1>1, <1>2 DEF Start, Goto, TypeOK

(* Every step is one of these; an unchanged state needs no case of its own. *)
LEMMA StepCases ==
    ASSUME [Next]_vars
    PROVE  \/ \E s \in Senders : SendReport(s) \/ SendBonus(s)
           \/ \E s \in Senders : \/ OuterCheck(s) \/ EnterThunk(s) \/ PollTimeout(s)
                                 \/ SeeStale(s) \/ JudgeStale(s)
           \/ \E s \in Senders : CreateLockfile(s) \/ Reclaim(s)
           \/ \E s \in Senders : InnerCheck(s) \/ Unlock(s)
           \/ \E s \in Senders : MarkIntent(s)
           \/ \E s \in Senders : Dial(s)
           \/ \E s \in Senders : MarkSent(s)
           \/ \E p \in Procs : Crash(p) \/ Relaunch(p)
           \/ \E k \in Sentinels : Age(k)
           \/ \E k \in Sentinels : OperatorClears(k)
           \/ UNCHANGED vars
BY DEF Next, Step, AllSettled

(* A first check leads to the thunk or to one of the settled states. *)
LEMMA VerdictStates ==
    ASSUME NEW s \in Senders
    PROVE  /\ Verdict(s) \in {"already_sent", "blocked", "refused", "clear"}
           /\ Verdict(s) = "clear" => /\ body[s] \notin sent[SentinelOf[s]]
                                      /\ OpenIntents(SentinelOf[s]) = {}
                                      /\ sent[SentinelOf[s]] # {} => s \in Approved
BY DEF Verdict

(* Every step keeps the types. *)
LEMMA TypeStep ==
    ASSUME TypeOK, [Next]_vars
    PROVE  TypeOK'
<1> USE SendAssumption DEF TypeOK, Goto
<1>0. "crashed" \in States /\ "new" \in States
  BY DEF States, Settled
<1>1. ASSUME NEW s \in Senders, SendReport(s) \/ SendBonus(s)
      PROVE  TypeOK'
  <2>1. pc' \in [Senders -> States] /\ body' \in [Senders -> Copies] /\ copy' \in [Scopes -> Copies]
    <3>1. CASE SendReport(s)
      BY <3>1, StartTypes DEF SendReport
    <3>2. CASE SendBonus(s) /\ Drafts(s) = {}
      BY <3>2 DEF SendBonus, States, Settled
    <3>3. CASE SendBonus(s) /\ Drafts(s) # {}
      BY <3>3, StartTypes, DraftBodies DEF SendBonus
    <3>4. QED
      BY <1>1, <3>1, <3>2, <3>3
  <2>2. QED
    BY <1>1, <2>1 DEF SendReport, SendBonus, files
<1>2. ASSUME NEW s \in Senders,
             OuterCheck(s) \/ EnterThunk(s) \/ PollTimeout(s) \/ SeeStale(s) \/ JudgeStale(s)
      PROVE  TypeOK'
  <2>1. {"thunk", "poll", "judge", "reclaim", "refused", "blocked", "already_sent"} \subseteq States
    BY DEF States, Running, Settled
  <2>2. pc' \in [Senders -> States]
    <3>1. (IF Verdict(s) = "clear" THEN "thunk" ELSE Verdict(s)) \in States
      BY <2>1, VerdictStates
    <3>2. QED
      BY <1>2, <2>1, <3>1 DEF OuterCheck, EnterThunk, PollTimeout, SeeStale, JudgeStale
  <2>3. lock' \in [Procs -> Senders \union {None}]
    BY <1>2 DEF OuterCheck, EnterThunk, PollTimeout, SeeStale, JudgeStale, ReleaseThreadLock
  <2>4. QED
    BY <1>2, <2>2, <2>3 DEF OuterCheck, EnterThunk, PollTimeout, SeeStale, JudgeStale, files
<1>3. ASSUME NEW s \in Senders, CreateLockfile(s) \/ Reclaim(s)
      PROVE  TypeOK'
  <2>1. NoLockfile \in Lockfiles /\ [by |-> s, old |-> FALSE] \in Lockfiles
    BY DEF NoLockfile, Lockfiles
  <2>2. lockfile' \in [Sentinels -> Lockfiles]
    BY <1>3, <2>1 DEF CreateLockfile, Reclaim, Unlink
  <2>3. pc' \in [Senders -> States]
    BY <1>3 DEF CreateLockfile, Reclaim, States, Running
  <2>4. QED
    BY <1>3, <2>2, <2>3 DEF CreateLockfile, Reclaim
<1>4. ASSUME NEW s \in Senders, InnerCheck(s) \/ Unlock(s)
      PROVE  TypeOK'
  <2>1. {"intent", "dial", "refused", "blocked", "already_sent"} \subseteq States
    BY DEF States, Running, Settled
  <2>2. NoLockfile \in Lockfiles
    BY DEF NoLockfile, Lockfiles
  <2>3. CASE InnerCheck(s) /\ Verdict(s) = "clear"
    BY <2>1, <2>3 DEF InnerCheck
  <2>4. CASE InnerCheck(s) /\ Verdict(s) # "clear"
    <3>1. Verdict(s) \in States
      BY <2>1, <2>4, VerdictStates
    <3>2. pc' \in [Senders -> States]
      BY <2>4, <3>1 DEF InnerCheck
    <3>3. /\ lock' = [lock EXCEPT ![ProcOf[s]] = None]
          /\ lockfile' = [lockfile EXCEPT ![SentinelOf[s]] = NoLockfile]
      BY <2>4 DEF InnerCheck, ReleaseThreadLock, Unlink
    <3>4. QED
      BY <2>2, <2>4, <3>2, <3>3 DEF InnerCheck
  <2>5. CASE Unlock(s)
    BY <2>1, <2>2, <2>5 DEF Unlock, ReleaseThreadLock, Unlink
  <2>6. QED
    BY <1>4, <2>3, <2>4, <2>5
<1>5. ASSUME NEW s \in Senders, MarkIntent(s)
      PROVE  TypeOK'
  BY <1>5 DEF MarkIntent, States, Running
<1>6. ASSUME NEW s \in Senders, Dial(s)
      PROVE  TypeOK'
  <2>1. Mail(s) \in Mails
    BY DEF Mail, Mails
  <2>2. mails' \in Seq(Mails)
    <3>1. Append(mails, Mail(s)) \in Seq(Mails)
      BY <2>1
    <3>2. QED
      BY <1>6, <3>1 DEF Dial
  <2>3. pc' \in [Senders -> States]
    BY <1>6 DEF Dial, States, Running, Settled
  <2>4. QED
    BY <1>6, <2>2, <2>3 DEF Dial
<1>7. ASSUME NEW s \in Senders, MarkSent(s)
      PROVE  TypeOK'
  BY <1>7 DEF MarkSent, States, Settled
<1>8. ASSUME NEW p \in Procs, Crash(p) \/ Relaunch(p)
      PROVE  TypeOK'
  <2>1. pc' \in [Senders -> States]
    BY <1>0, <1>8 DEF Crash, Relaunch
  <2>2. lock' \in [Procs -> Senders \union {None}]
    BY <1>8 DEF Crash, Relaunch
  <2>3. launches' \in [Procs -> Nat \ {0}]
    BY <1>8 DEF Crash, Relaunch
  <2>4. QED
    BY <1>8, <2>1, <2>2, <2>3 DEF Crash, Relaunch, files
<1>9. ASSUME NEW k \in Sentinels, Age(k)
      PROVE  TypeOK'
  <2>1. lockfile' \in [Sentinels -> Lockfiles]
    BY <1>9 DEF Age, Lockfiles
  <2>2. QED
    BY <1>9, <2>1 DEF Age
<1>10. ASSUME NEW k \in Sentinels, OperatorClears(k)
       PROVE  TypeOK'
  <2>1. NoLockfile \in Lockfiles
    BY DEF NoLockfile, Lockfiles
  <2>2. QED
    BY <1>10, <2>1 DEF OperatorClears, OpenIntents
<1>11. CASE UNCHANGED vars
  BY <1>11 DEF vars, files
<1>12. QED
  BY StepCases, <1>1, <1>2, <1>3, <1>4, <1>5, <1>6, <1>7, <1>8, <1>9, <1>10, <1>11
-----------------------------------------------------------------------------
(* Every email was sent by a sender, from one of the sentinels. *)
LEMMA MailTypes ==
    ASSUME TypeOK, NEW i \in 1 .. Len(mails)
    PROVE  /\ mails[i].by \in Senders /\ mails[i].body \in Copies
           /\ SentinelOf[mails[i].by] \in Sentinels
<1>1. mails[i] \in Mails
  BY DEF TypeOK
<1>2. QED
  BY <1>1, SendAssumption DEF Mails

(* What the operator deletes is not the record of an email, nor of an       *)
(* attempt that is alive.                                                   *)
LEMMA ClearKeepsRecord ==
    ASSUME RecordInv, NEW k \in Sentinels, OperatorClears(k)
    PROVE  RecordInv'
<1> USE SendAssumption
<1>1. PICK d \in OpenIntents(k) :
        /\ \A i \in 1 .. Len(mails) : SentinelOf[mails[i].by] = k => mails[i].body # d
        /\ \A s \in Senders : SentinelOf[s] = k /\ body[s] = d =>
              pc[s] \notin {"intent", "unlock", "dial", "mark"}
        /\ intents' = [intents EXCEPT ![k] = @ \ {d}]
        /\ UNCHANGED <<pc, body, sent, mails>>
  BY DEF OperatorClears
<1>2. \A h \in Sentinels, x \in Copies : x \in intents[h] => x \in intents'[h] \/ (h = k /\ x = d)
  BY <1>1 DEF RecordInv, TypeOK
<1>3. TypeOK'
  BY TypeStep DEF RecordInv, Next
<1>4. \A s \in Senders : body[s] \in Copies /\ SentinelOf[s] \in Sentinels
  BY DEF RecordInv, TypeOK
<1>5. \A i \in 1 .. Len(mails) : mails[i].body \in Copies /\ SentinelOf[mails[i].by] \in Sentinels
  BY MailTypes DEF RecordInv
<1>6. AttemptOnRecord'
  BY <1>1, <1>2, <1>4 DEF RecordInv, AttemptOnRecord, MailedAs
<1>7. EveryEmailOnRecord'
  BY <1>1, <1>2, <1>5 DEF RecordInv, EveryEmailOnRecord
<1>8. QED
  BY <1>3, <1>6, <1>7 DEF RecordInv

(* One more email in the recipient's box leaves the others where they were. *)
LEMMA MoreMails ==
    ASSUME TypeOK, NEW s \in Senders, mails' = Append(mails, Mail(s))
    PROVE  /\ Len(mails') = Len(mails) + 1 /\ Len(mails) \in Nat
           /\ \A i \in 1 .. Len(mails) : mails'[i] = mails[i]
           /\ mails'[Len(mails')] = Mail(s)
           /\ Mail(s).by = s /\ Mail(s).scope = ScopeOf[s] /\ Mail(s).body = body[s]
<1>1. Mail(s) \in Mails
  BY SendAssumption DEF Mail, Mails, TypeOK
<1>2. QED
  BY <1>1 DEF TypeOK, Mail

(* A thread that dials puts at most its own, recorded, body in the box.     *)
LEMMA DialKeepsRecord ==
    ASSUME RecordInv, NEW s \in Senders, Dial(s)
    PROVE  RecordInv'
<1> USE SendAssumption
<1>1. TypeOK'
  BY TypeStep DEF RecordInv, Next, Step
<1>2. /\ UNCHANGED <<body, intents, sent>>
      /\ pc[s] = "dial" /\ pc'[s] \in {"mark", "smtp_error"}
      /\ \A t \in Senders \ {s} : pc'[t] = pc[t]
  BY DEF Dial, Goto, RecordInv, TypeOK
<1>3. CASE mails' = Append(mails, Mail(s))
  <2>1. \A h \in Sentinels, x \in Copies : MailedAs(h, x) => MailedAs(h, x)'
    BY <1>3, MoreMails DEF MailedAs, RecordInv
  <2>2. MailedAs(SentinelOf[s], body[s])'
    <3>1. Len(mails') \in 1 .. Len(mails') /\ mails'[Len(mails')].by = s
          /\ mails'[Len(mails')].body = body[s]
      BY <1>3, MoreMails DEF RecordInv
    <3>2. QED
      BY <1>2, <3>1 DEF MailedAs
  <2>3. AttemptOnRecord'
    BY <1>2, <2>1, <2>2 DEF RecordInv, AttemptOnRecord, TypeOK
  <2>4. \A i \in 1 .. Len(mails') : i \in 1 .. Len(mails) \/ i = Len(mails')
    BY <1>3, MoreMails DEF RecordInv
  <2>5. body[s] \in intents[SentinelOf[s]] \union sent[SentinelOf[s]]
    BY <1>2 DEF RecordInv, AttemptOnRecord
  <2>6. \A i \in 1 .. Len(mails') :
          LET k == SentinelOf[mails'[i].by] IN mails'[i].body \in intents[k] \union sent[k]
    BY <1>3, <2>4, <2>5, MoreMails DEF RecordInv, EveryEmailOnRecord
  <2>7. \A k \in Sentinels : \A d \in sent[k] : MailedAs(k, d)'
    <3>1. \A k \in Sentinels : \A d \in sent[k] : MailedAs(k, d) /\ d \in Copies
      BY DEF RecordInv, EveryEmailOnRecord, MailedAs, TypeOK
    <3>2. QED
      BY <2>1, <3>1
  <2>8. QED
    BY <1>1, <1>2, <2>3, <2>6, <2>7 DEF RecordInv, EveryEmailOnRecord, MailedAs
<1>4. CASE UNCHANGED mails
  <2>1. pc'[s] = "smtp_error"
    BY <1>4, MoreMails DEF Dial, Goto, RecordInv, TypeOK
  <2>2. AttemptOnRecord'
    BY <1>2, <1>4, <2>1 DEF RecordInv, AttemptOnRecord, MailedAs
  <2>3. EveryEmailOnRecord'
    BY <1>2, <1>4 DEF RecordInv, MailedAs, EveryEmailOnRecord
  <2>4. QED
    BY <1>1, <2>2, <2>3 DEF RecordInv
<1>5. QED
  BY <1>3, <1>4 DEF Dial

(* The record survives every step.                                          *)
LEMMA RecordStep ==
    ASSUME RecordInv, [Next]_vars
    PROVE  RecordInv'
<1> USE SendAssumption
<1>1. TypeOK'
  BY TypeStep DEF RecordInv
<1>2. ASSUME UNCHANGED <<intents, sent, mails>>,
             \A s \in Senders : pc'[s] \in {"unlock", "dial", "mark"} =>
                    pc[s] \in {"unlock", "dial", "mark"} /\ body'[s] = body[s],
             \A s \in Senders : pc'[s] = "mark" => pc[s] = "mark"
      PROVE  RecordInv'
  BY <1>1, <1>2 DEF RecordInv, AttemptOnRecord, MailedAs, EveryEmailOnRecord
<1>3. ASSUME NEW s \in Senders, SendReport(s) \/ SendBonus(s)
      PROVE  RecordInv'
  <2>1. pc'[s] \in {"first", "invalid"} /\ \A t \in Senders \ {s} : pc'[t] = pc[t] /\ body'[t] = body[t]
    BY <1>3 DEF SendReport, SendBonus, Start, Goto, RecordInv, TypeOK
  <2>2. QED
    BY <1>2, <1>3, <2>1 DEF SendReport, SendBonus, files
<1>4. ASSUME NEW s \in Senders,
             OuterCheck(s) \/ EnterThunk(s) \/ PollTimeout(s) \/ SeeStale(s) \/ JudgeStale(s)
      PROVE  RecordInv'
  <2>1. /\ pc'[s] \in {"thunk", "poll", "judge", "reclaim", "refused", "blocked", "already_sent"}
        /\ \A t \in Senders \ {s} : pc'[t] = pc[t]
    BY <1>4, VerdictStates
    DEF OuterCheck, EnterThunk, PollTimeout, SeeStale, JudgeStale, Goto, RecordInv, TypeOK
  <2>2. UNCHANGED <<body, intents, sent, mails>>
    BY <1>4 DEF OuterCheck, EnterThunk, PollTimeout, SeeStale, JudgeStale, files
  <2>3. QED
    BY <1>2, <2>1, <2>2
<1>5. ASSUME NEW s \in Senders, CreateLockfile(s) \/ Reclaim(s)
      PROVE  RecordInv'
  <2>1. pc'[s] \in {"check", "poll"} /\ \A t \in Senders \ {s} : pc'[t] = pc[t]
    BY <1>5 DEF CreateLockfile, Reclaim, Goto, RecordInv, TypeOK
  <2>2. QED
    BY <1>2, <1>5, <2>1 DEF CreateLockfile, Reclaim
<1>6. ASSUME NEW s \in Senders, InnerCheck(s) \/ Unlock(s)
      PROVE  RecordInv'
  <2>1. /\ \A t \in Senders \ {s} : pc'[t] = pc[t]
        /\ \/ pc'[s] \in {"intent", "refused", "blocked", "already_sent"}
           \/ pc[s] = "unlock" /\ pc'[s] = "dial"
    BY <1>6, VerdictStates DEF InnerCheck, Unlock, Goto, RecordInv, TypeOK
  <2>2. UNCHANGED <<body, intents, sent, mails>>
    BY <1>6 DEF InnerCheck, Unlock
  <2>3. QED
    BY <1>2, <2>1, <2>2
<1>7. ASSUME NEW s \in Senders, MarkIntent(s)
      PROVE  RecordInv'
  <2>1. /\ \A k \in Sentinels : intents[k] \subseteq intents'[k]
        /\ body[s] \in intents'[SentinelOf[s]]
        /\ pc'[s] = "unlock" /\ \A t \in Senders \ {s} : pc'[t] = pc[t]
        /\ UNCHANGED <<body, sent, mails>>
    BY <1>7 DEF MarkIntent, Goto, RecordInv, TypeOK
  <2>2. AttemptOnRecord'
    BY <2>1 DEF RecordInv, AttemptOnRecord, MailedAs
  <2>3. \A i \in 1 .. Len(mails) : SentinelOf[mails[i].by] \in Sentinels
    BY MailTypes DEF RecordInv
  <2>4. EveryEmailOnRecord'
    BY <2>1, <2>3 DEF RecordInv, EveryEmailOnRecord
  <2>5. QED
    BY <1>1, <2>2, <2>4 DEF RecordInv
<1>8. ASSUME NEW s \in Senders, MarkSent(s)
      PROVE  RecordInv'
  <2>1. /\ \A k \in Sentinels : sent[k] \subseteq sent'[k]
        /\ \A k \in Sentinels : \A d \in sent'[k] :
                d \in sent[k] \/ (k = SentinelOf[s] /\ d = body[s])
        /\ pc[s] = "mark" /\ pc'[s] = "sent" /\ \A t \in Senders \ {s} : pc'[t] = pc[t]
        /\ UNCHANGED <<body, intents, mails>>
    BY <1>8 DEF MarkSent, Goto, RecordInv, TypeOK
  <2>2. AttemptOnRecord'
    BY <2>1 DEF RecordInv, AttemptOnRecord, MailedAs
  <2>3. \A i \in 1 .. Len(mails) : SentinelOf[mails[i].by] \in Sentinels
    BY MailTypes DEF RecordInv
  <2>4. MailedAs(SentinelOf[s], body[s])
    BY <2>1 DEF RecordInv, AttemptOnRecord
  <2>5. \A i \in 1 .. Len(mails) :
          LET k == SentinelOf[mails[i].by] IN mails[i].body \in intents[k] \union sent'[k]
    BY <2>1, <2>3 DEF RecordInv, EveryEmailOnRecord
  <2>6. \A k \in Sentinels : \A d \in sent'[k] : MailedAs(k, d)
    <3>1. \A k \in Sentinels : \A d \in sent[k] : MailedAs(k, d)
      BY DEF RecordInv, EveryEmailOnRecord, MailedAs
    <3>2. QED
      BY <2>1, <2>4, <3>1
  <2>7. QED
    BY <1>1, <2>1, <2>2, <2>5, <2>6 DEF RecordInv, EveryEmailOnRecord, MailedAs
<1>9. ASSUME NEW p \in Procs, Crash(p) \/ Relaunch(p)
      PROVE  RecordInv'
  <2>1. \A t \in Senders : pc'[t] = pc[t] \/ pc'[t] \in {"crashed", "new"}
    BY <1>9 DEF Crash, Relaunch
  <2>2. UNCHANGED <<body, intents, sent, mails>>
    BY <1>9 DEF Crash, Relaunch, files
  <2>3. QED
    BY <1>2, <2>1, <2>2
<1>10. ASSUME NEW k \in Sentinels, Age(k)
       PROVE  RecordInv'
  BY <1>2, <1>10 DEF Age
<1>11. CASE UNCHANGED vars
  BY <1>2, <1>11 DEF vars, files
<1>12. QED
  BY StepCases, ClearKeepsRecord, DialKeepsRecord,
     <1>3, <1>4, <1>5, <1>6, <1>7, <1>8, <1>9, <1>10, <1>11

(* An email that left is on record in its sentinel, and a sent line stands  *)
(* for an email, whatever crashes, relaunches and repairs there are.        *)
THEOREM OnRecord == Spec => []EveryEmailOnRecord
<1>1. Init => RecordInv
  <2>1. \A s \in Senders : MaxLaunches \in [Procs -> Nat \ {0}] /\ "new" \in States
    BY SendAssumption DEF States
  <2>2. Init => TypeOK
    BY <2>1, SendAssumption, NoneAssumption DEF Init, TypeOK, Copies, NoLockfile, Lockfiles
  <2>3. Init => AttemptOnRecord /\ EveryEmailOnRecord
    BY DEF Init, AttemptOnRecord, EveryEmailOnRecord
  <2>4. QED
    BY <2>2, <2>3 DEF RecordInv
<1>2. RecordInv /\ [Next]_vars => RecordInv'
  BY RecordStep
<1>3. RecordInv => EveryEmailOnRecord
  BY DEF RecordInv
<1>4. QED
  BY <1>1, <1>2, <1>3, PTL DEF Spec
-----------------------------------------------------------------------------
(* The drafts are git-ignored: one working copy of the repository, with one *)
(* sentinel per report, holds them; a clone has none.                       *)
OneSource ==
    \A s, t \in Senders : ScopeOf[s] = ScopeOf[t] /\ Stored[s] # {} /\ Stored[t] # {} =>
        SentinelOf[s] = SentinelOf[t]

(* What stat, read and unlink in three steps leave open: the path a process *)
(* is about to unlink names the lockfile of a thread in its critical section*)
NoReclaimRace ==
    \A s, t \in Senders : pc[s] = "reclaim" /\ SentinelOf[t] = SentinelOf[s] => pc[t] \notin Critical

(* The tracked copy names nobody, so what a clone loads is never sendable:  *)
(* who gets past the validation has a draft of his own.                     *)
DraftsOnly ==
    /\ \A k \in Scopes : copy[k] # NoBody => ~copy[k].identified
    /\ \A s \in Senders : pc[s] \in Running => Stored[s] # {}
    /\ \A i \in 1 .. Len(mails) :
          Stored[mails[i].by] # {} /\ mails[i].scope = ScopeOf[mails[i].by]

(* A thread in the critical section owns the lockfile, and it is recent.    *)
Exclusive ==
    \A s \in Senders : pc[s] \in Critical =>
        lockfile[SentinelOf[s]].by = s /\ ~lockfile[SentinelOf[s]].old

(* An attempt that may still dial is the only one of its sentinel, its      *)
(* intent is open, nothing like it was mailed, and anything else that was   *)
(* has been marked as sent, so that the sender is an approved one.          *)
Ready(s) == pc[s] \in {"intent", "unlock", "dial"}

OneAttempt ==
    /\ \A s, t \in Senders : Ready(s) /\ Ready(t) /\ SentinelOf[s] = SentinelOf[t] => s = t
    /\ \A s \in Senders : Ready(s) =>
          /\ body[s] \notin sent[SentinelOf[s]]
          /\ pc[s] # "intent" => body[s] \in intents[SentinelOf[s]]
          /\ \A i \in 1 .. Len(mails) : SentinelOf[mails[i].by] = SentinelOf[s] =>
                mails[i].body # body[s] /\ s \in Approved

OnceInv == RecordInv /\ DraftsOnly /\ Exclusive /\ OneAttempt /\ OneEmail

(* No clone gets past the validation.                                       *)
LEMMA DraftsOnlyStep ==
    ASSUME TypeOK, DraftsOnly, [Next]_vars
    PROVE  DraftsOnly'
<1> USE SendAssumption
<1>1. ASSUME UNCHANGED <<copy, mails>>,
             \A s \in Senders : pc'[s] \in Running => pc[s] \in Running
      PROVE  DraftsOnly'
  BY <1>1 DEF DraftsOnly
<1>2. ASSUME NEW s \in Senders, NEW b \in Bodies, NEW sendable,
             Start(s, b, sendable), sendable => Stored[s] # {},
             UNCHANGED mails
      PROVE  DraftsOnly'
  <2>1. CASE sendable
    <3>1. ~Redacted(b).identified
      BY DEF Redacted, Bodies
    <3>2. \A k \in Scopes : copy'[k] = copy[k] \/ copy'[k] = Redacted(b)
      BY <1>2, <2>1 DEF Start, TypeOK
    <3>3. \A t \in Senders \ {s} : pc'[t] = pc[t]
      BY <1>2, <2>1 DEF Start, Goto, TypeOK
    <3>4. Stored[s] # {}
      BY <1>2, <2>1
    <3>5. QED
      BY <1>2, <3>1, <3>2, <3>3, <3>4 DEF DraftsOnly
  <2>2. CASE ~sendable
    BY <1>1, <1>2, <2>2 DEF Start, Goto, TypeOK, Running
  <2>3. QED
    BY <2>1, <2>2
<1>3. ASSUME NEW s \in Senders, SendReport(s)
      PROVE  DraftsOnly'
  <2>1. PICK b \in Stored[s] : Start(s, b, Valid(b))
    BY <1>3 DEF SendReport
  <2>2. QED
    BY <1>2, <1>3, <2>1 DEF SendReport
<1>4. ASSUME NEW s \in Senders, SendBonus(s)
      PROVE  DraftsOnly'
  <2>1. CASE Drafts(s) = {}
    BY <1>1, <1>4, <2>1 DEF SendBonus, Goto, TypeOK, Running
  <2>2. CASE Drafts(s) # {}
    <3>1. PICK b \in Drafts(s) : Start(s, b, BonusSendable(b))
      BY <1>4, <2>2 DEF SendBonus
    <3>2. BonusSendable(b) => Stored[s] # {}
      BY DraftBodies DEF BonusSendable, Valid, DraftsOnly, Scopes
    <3>3. QED
      BY <1>2, <1>4, <3>1, <3>2, DraftBodies DEF SendBonus
  <2>3. QED
    BY <2>1, <2>2
<1>5. ASSUME NEW s \in Senders,
             OuterCheck(s) \/ EnterThunk(s) \/ PollTimeout(s) \/ SeeStale(s) \/ JudgeStale(s)
      PROVE  DraftsOnly'
  <2>1. pc[s] \in Running /\ \A t \in Senders \ {s} : pc'[t] = pc[t]
    BY <1>5 DEF OuterCheck, EnterThunk, PollTimeout, SeeStale, JudgeStale, Goto, TypeOK, Running
  <2>2. UNCHANGED <<copy, mails>>
    BY <1>5 DEF OuterCheck, EnterThunk, PollTimeout, SeeStale, JudgeStale
  <2>3. QED
    BY <1>1, <2>1, <2>2
<1>6. ASSUME NEW s \in Senders,
             \/ CreateLockfile(s) \/ Reclaim(s) \/ InnerCheck(s) \/ Unlock(s)
             \/ MarkIntent(s) \/ MarkSent(s)
      PROVE  DraftsOnly'
  <2>1. pc[s] \in Running /\ \A t \in Senders \ {s} : pc'[t] = pc[t]
    BY <1>6 DEF CreateLockfile, Reclaim, InnerCheck, Unlock, MarkIntent, MarkSent, Goto, TypeOK, Running
  <2>2. UNCHANGED <<copy, mails>>
    BY <1>6 DEF CreateLockfile, Reclaim, InnerCheck, Unlock, MarkIntent, MarkSent
  <2>3. QED
    BY <1>1, <2>1, <2>2
<1>7. ASSUME NEW s \in Senders, Dial(s)
      PROVE  DraftsOnly'
  <2>1. pc[s] \in Running /\ \A t \in Senders \ {s} : pc'[t] = pc[t]
    BY <1>7 DEF Dial, Goto, TypeOK, Running
  <2>2. CASE UNCHANGED mails
    BY <1>1, <1>7, <2>1, <2>2 DEF Dial
  <2>3. CASE mails' = Append(mails, Mail(s))
    <3>1. \A i \in 1 .. Len(mails') : i \in 1 .. Len(mails) \/ i = Len(mails')
      BY <2>3, MoreMails
    <3>2. Stored[s] # {}
      BY <2>1 DEF DraftsOnly
    <3>3. \A i \in 1 .. Len(mails') :
            Stored[mails'[i].by] # {} /\ mails'[i].scope = ScopeOf[mails'[i].by]
      <4>1. \A i \in 1 .. Len(mails) : Stored[mails[i].by] # {} /\ mails[i].scope = ScopeOf[mails[i].by]
        BY DEF DraftsOnly
      <4>2. /\ \A i \in 1 .. Len(mails) : mails'[i] = mails[i]
            /\ mails'[Len(mails')].by = s /\ mails'[Len(mails')].scope = ScopeOf[s]
        BY <2>3, MoreMails
      <4>3. QED
        BY <3>1, <3>2, <4>1, <4>2
    <3>4. QED
      BY <1>7, <2>1, <3>3 DEF DraftsOnly, Dial
  <2>4. QED
    BY <1>7, <2>2, <2>3 DEF Dial
<1>8. ASSUME NEW p \in Procs, Crash(p) \/ Relaunch(p)
      PROVE  DraftsOnly'
  <2>1. \A t \in Senders : pc'[t] = pc[t] \/ pc'[t] \in {"crashed", "new"}
    BY <1>8 DEF Crash, Relaunch
  <2>2. QED
    BY <1>1, <1>8, <2>1 DEF Crash, Relaunch, Running
<1>9. ASSUME NEW k \in Sentinels, Age(k) \/ OperatorClears(k)
      PROVE  DraftsOnly'
  BY <1>1, <1>9 DEF Age, OperatorClears
<1>10. CASE UNCHANGED vars
  BY <1>1, <1>10 DEF vars
<1>11. QED
  BY StepCases, <1>3, <1>4, <1>5, <1>6, <1>7, <1>8, <1>9, <1>10

(* Unless a live lockfile is unlinked by somebody else, its creator keeps   *)
(* the critical section.                                                    *)
LEMMA ExclusiveStep ==
    ASSUME TypeOK, Exclusive, NoReclaimRace, [Next]_vars
    PROVE  Exclusive'
<1> USE SendAssumption, NoneAssumption
<1>1. ASSUME UNCHANGED lockfile, \A s \in Senders : pc'[s] \in Critical => pc[s] \in Critical
      PROVE  Exclusive'
  BY <1>1 DEF Exclusive
<1>2. ASSUME NEW s \in Senders, SendReport(s) \/ SendBonus(s)
      PROVE  Exclusive'
  <2>1. pc'[s] \in {"first", "invalid"} /\ \A t \in Senders \ {s} : pc'[t] = pc[t]
    BY <1>2 DEF SendReport, SendBonus, Start, Goto, TypeOK
  <2>2. QED
    BY <1>1, <1>2, <2>1 DEF SendReport, SendBonus, files, Critical
<1>3. ASSUME NEW s \in Senders,
             OuterCheck(s) \/ EnterThunk(s) \/ PollTimeout(s) \/ SeeStale(s) \/ JudgeStale(s)
      PROVE  Exclusive'
  <2>1. /\ pc'[s] \in {"thunk", "poll", "judge", "reclaim", "refused", "blocked", "already_sent"}
        /\ \A t \in Senders \ {s} : pc'[t] = pc[t]
    BY <1>3, VerdictStates
    DEF OuterCheck, EnterThunk, PollTimeout, SeeStale, JudgeStale, Goto, TypeOK
  <2>2. UNCHANGED lockfile
    BY <1>3 DEF OuterCheck, EnterThunk, PollTimeout, SeeStale, JudgeStale, files
  <2>3. QED
    BY <1>1, <2>1, <2>2 DEF Critical
<1>4. ASSUME NEW s \in Senders, CreateLockfile(s)
      PROVE  Exclusive'
  <2>1. /\ lockfile[SentinelOf[s]].by = None
        /\ lockfile'[SentinelOf[s]].by = s /\ ~lockfile'[SentinelOf[s]].old
        /\ \A k \in Sentinels \ {SentinelOf[s]} : lockfile'[k] = lockfile[k]
        /\ \A t \in Senders \ {s} : pc'[t] = pc[t]
    BY <1>4 DEF CreateLockfile, NoLockfile, Goto, TypeOK
  <2>2. QED
    BY <2>1 DEF Exclusive
<1>5. ASSUME NEW s \in Senders, Reclaim(s)
      PROVE  Exclusive'
  <2>1. /\ \A k \in Sentinels \ {SentinelOf[s]} : lockfile'[k] = lockfile[k]
        /\ pc[s] = "reclaim" /\ pc'[s] = "poll" /\ \A t \in Senders \ {s} : pc'[t] = pc[t]
    BY <1>5 DEF Reclaim, Unlink, Goto, TypeOK
  <2>2. \A t \in Senders : pc'[t] \in Critical => SentinelOf[t] # SentinelOf[s] /\ pc[t] \in Critical
    BY <2>1 DEF NoReclaimRace, Critical
  <2>3. QED
    BY <2>1, <2>2 DEF Exclusive
<1>6. ASSUME NEW s \in Senders, InnerCheck(s)
      PROVE  Exclusive'
  <2>1. pc[s] = "check" /\ \A t \in Senders \ {s} : pc'[t] = pc[t]
    BY <1>6 DEF InnerCheck, Goto, TypeOK
  <2>2. CASE Verdict(s) = "clear"
    BY <1>1, <1>6, <2>1, <2>2 DEF InnerCheck, Critical
  <2>3. CASE Verdict(s) # "clear"
    <3>1. pc'[s] \notin Critical
      BY <1>6, <2>3, VerdictStates DEF InnerCheck, Goto, TypeOK, Critical
    <3>2. \A k \in Sentinels \ {SentinelOf[s]} : lockfile'[k] = lockfile[k]
      BY <1>6, <2>3 DEF InnerCheck, Unlink, TypeOK
    <3>3. QED
      BY <2>1, <3>1, <3>2 DEF Exclusive, Critical
  <2>4. QED
    BY <2>2, <2>3
<1>7. ASSUME NEW s \in Senders, Unlock(s)
      PROVE  Exclusive'
  <2>1. /\ pc[s] = "unlock" /\ pc'[s] = "dial" /\ \A t \in Senders \ {s} : pc'[t] = pc[t]
        /\ \A k \in Sentinels \ {SentinelOf[s]} : lockfile'[k] = lockfile[k]
    BY <1>7 DEF Unlock, Unlink, Goto, TypeOK
  <2>2. QED
    BY <2>1 DEF Exclusive, Critical
<1>8. ASSUME NEW s \in Senders, MarkIntent(s) \/ Dial(s) \/ MarkSent(s)
      PROVE  Exclusive'
  <2>1. /\ pc[s] = "intent" \/ pc'[s] \notin Critical
        /\ \A t \in Senders \ {s} : pc'[t] = pc[t]
    BY <1>8 DEF MarkIntent, Dial, MarkSent, Goto, TypeOK, Critical
  <2>2. QED
    BY <1>1, <1>8, <2>1 DEF MarkIntent, Dial, MarkSent, Critical
<1>9. ASSUME NEW p \in Procs, Crash(p) \/ Relaunch(p)
      PROVE  Exclusive'
  <2>1. \A t \in Senders : pc'[t] = pc[t] \/ pc'[t] \in {"crashed", "new"}
    BY <1>9 DEF Crash, Relaunch
  <2>2. QED
    BY <1>1, <1>9, <2>1 DEF Crash, Relaunch, files, Critical
<1>10. ASSUME NEW k \in Sentinels, Age(k)
       PROVE  Exclusive'
  <2>1. /\ UNCHANGED pc /\ pc[lockfile[k].by] \notin Critical
        /\ \A h \in Sentinels \ {k} : lockfile'[h] = lockfile[h]
    BY <1>10 DEF Age, TypeOK
  <2>2. QED
    BY <2>1 DEF Exclusive
<1>11. ASSUME NEW k \in Sentinels, OperatorClears(k)
       PROVE  Exclusive'
  <2>1. /\ UNCHANGED pc /\ (lockfile[k].old \/ lockfile'[k] = lockfile[k])
        /\ \A h \in Sentinels \ {k} : lockfile'[h] = lockfile[h]
    BY <1>11 DEF OperatorClears, TypeOK
  <2>2. \A s \in Senders : pc[s] \in Critical => lockfile'[SentinelOf[s]] = lockfile[SentinelOf[s]]
    BY <2>1 DEF Exclusive
  <2>3. QED
    BY <2>1, <2>2 DEF Exclusive
<1>12. CASE UNCHANGED vars
  BY <1>1, <1>12 DEF vars, files
<1>13. QED
  BY StepCases, <1>2, <1>3, <1>4, <1>5, <1>6, <1>7, <1>8, <1>9, <1>10, <1>11, <1>12

(* Among attempts of one sentinel, the one that may dial stays the only one.*)
LEMMA AttemptStep ==
    ASSUME RecordInv, Exclusive, OneAttempt, [Next]_vars
    PROVE  OneAttempt'
<1> USE SendAssumption
<1>1. ASSUME UNCHANGED <<intents, sent, mails>>,
             \A s \in Senders : Ready(s)' => /\ Ready(s) /\ body'[s] = body[s]
                                             /\ pc'[s] # "intent" => pc[s] # "intent"
      PROVE  OneAttempt'
  <2>1. \A s, t \in Senders : Ready(s)' /\ Ready(t)' /\ SentinelOf[s] = SentinelOf[t] => s = t
    BY <1>1 DEF OneAttempt
  <2>2. QED
    BY <1>1, <2>1 DEF OneAttempt
<1>2. ASSUME NEW s \in Senders, SendReport(s) \/ SendBonus(s)
      PROVE  OneAttempt'
  <2>1. /\ pc'[s] \in {"first", "invalid"}
        /\ \A t \in Senders \ {s} : pc'[t] = pc[t] /\ body'[t] = body[t]
    BY <1>2 DEF SendReport, SendBonus, Start, Goto, RecordInv, TypeOK
  <2>2. QED
    BY <1>1, <1>2, <2>1 DEF SendReport, SendBonus, files, Ready
<1>3. ASSUME NEW s \in Senders,
             OuterCheck(s) \/ EnterThunk(s) \/ PollTimeout(s) \/ SeeStale(s) \/ JudgeStale(s)
      PROVE  OneAttempt'
  <2>1. /\ pc'[s] \in {"thunk", "poll", "judge", "reclaim", "refused", "blocked", "already_sent"}
        /\ \A t \in Senders \ {s} : pc'[t] = pc[t]
    BY <1>3, VerdictStates
    DEF OuterCheck, EnterThunk, PollTimeout, SeeStale, JudgeStale, Goto, RecordInv, TypeOK
  <2>2. UNCHANGED <<body, intents, sent, mails>>
    BY <1>3 DEF OuterCheck, EnterThunk, PollTimeout, SeeStale, JudgeStale, files
  <2>3. QED
    BY <1>1, <2>1, <2>2 DEF Ready
<1>4. ASSUME NEW s \in Senders, CreateLockfile(s) \/ Reclaim(s)
      PROVE  OneAttempt'
  <2>1. pc'[s] \in {"check", "poll"} /\ \A t \in Senders \ {s} : pc'[t] = pc[t]
    BY <1>4 DEF CreateLockfile, Reclaim, Goto, RecordInv, TypeOK
  <2>2. QED
    BY <1>1, <1>4, <2>1 DEF CreateLockfile, Reclaim, Ready
<1>5. ASSUME NEW s \in Senders, InnerCheck(s)
      PROVE  OneAttempt'
  <2> DEFINE k == SentinelOf[s]
  <2>1. /\ pc[s] = "check" /\ \A t \in Senders \ {s} : pc'[t] = pc[t]
        /\ UNCHANGED <<body, intents, sent, mails>>
    BY <1>5 DEF InnerCheck, Goto, RecordInv, TypeOK
  <2>2. CASE Verdict(s) # "clear"
    <3>1. ~Ready(s)'
      BY <1>5, <2>2, VerdictStates DEF InnerCheck, Goto, Ready, RecordInv, TypeOK
    <3>2. QED
      BY <1>1, <2>1, <3>1 DEF Ready
  <2>3. CASE Verdict(s) = "clear"
    <3>1. pc'[s] = "intent"
      BY <1>5, <2>3 DEF InnerCheck, Goto, RecordInv, TypeOK
    <3>2. /\ body[s] \notin sent[k] /\ intents[k] \subseteq sent[k]
          /\ sent[k] # {} => s \in Approved
      BY <2>3, VerdictStates DEF OpenIntents
    <3>3. \A t \in Senders : Ready(t) => SentinelOf[t] # k
      <4>1. SUFFICES ASSUME NEW t \in Senders, Ready(t), SentinelOf[t] = k PROVE FALSE
        OBVIOUS
      <4>2. CASE pc[t] \in Critical
        BY <2>1, <4>1, <4>2 DEF Exclusive, Ready, Critical
      <4>3. CASE pc[t] \notin Critical
        BY <3>2, <4>1, <4>3 DEF OneAttempt, Ready, Critical
      <4>4. QED
        BY <4>2, <4>3
    <3>4. \A i \in 1 .. Len(mails) : SentinelOf[mails[i].by] = k =>
             mails[i].body # body[s] /\ s \in Approved
      BY <3>2 DEF RecordInv, EveryEmailOnRecord
    <3>5. \A t \in Senders \ {s} : Ready(t)' <=> Ready(t)
      BY <2>1 DEF Ready
    <3>6. \A t, u \in Senders : Ready(t)' /\ Ready(u)' /\ SentinelOf[t] = SentinelOf[u] => t = u
      BY <3>3, <3>5 DEF OneAttempt
    <3>7. QED
      BY <2>1, <3>1, <3>2, <3>4, <3>5, <3>6 DEF OneAttempt
  <2>4. QED
    BY <2>2, <2>3
<1>6. ASSUME NEW s \in Senders, Unlock(s)
      PROVE  OneAttempt'
  <2>1. /\ pc[s] = "unlock" /\ pc'[s] = "dial" /\ \A t \in Senders \ {s} : pc'[t] = pc[t]
        /\ UNCHANGED <<body, intents, sent, mails>>
    BY <1>6 DEF Unlock, Goto, RecordInv, TypeOK
  <2>2. QED
    BY <1>1, <2>1 DEF Ready
<1>7. ASSUME NEW s \in Senders, MarkIntent(s)
      PROVE  OneAttempt'
  <2>1. /\ pc[s] = "intent" /\ pc'[s] = "unlock" /\ \A t \in Senders \ {s} : pc'[t] = pc[t]
        /\ \A h \in Sentinels : intents[h] \subseteq intents'[h]
        /\ body[s] \in intents'[SentinelOf[s]]
        /\ UNCHANGED <<body, sent, mails>>
    BY <1>7 DEF MarkIntent, Goto, RecordInv, TypeOK
  <2>2. \A t \in Senders : Ready(t)' <=> Ready(t)
    BY <2>1 DEF Ready
  <2>3. QED
    BY <2>1, <2>2 DEF OneAttempt
<1>8. ASSUME NEW s \in Senders, Dial(s)
      PROVE  OneAttempt'
  <2>1. /\ pc[s] = "dial" /\ pc'[s] \in {"mark", "smtp_error"} /\ \A t \in Senders \ {s} : pc'[t] = pc[t]
        /\ UNCHANGED <<body, intents, sent>>
        /\ UNCHANGED mails \/ mails' = Append(mails, Mail(s))
    BY <1>8 DEF Dial, Goto, RecordInv, TypeOK
  <2>2. ~Ready(s)' /\ \A t \in Senders : Ready(t)' => Ready(t) /\ SentinelOf[t] # SentinelOf[s]
    BY <2>1 DEF Ready, OneAttempt
  <2>3. CASE UNCHANGED mails
    BY <1>1, <2>1, <2>2, <2>3 DEF Ready
  <2>4. CASE mails' = Append(mails, Mail(s))
    <3>1. /\ \A i \in 1 .. Len(mails') : i \in 1 .. Len(mails) \/ i = Len(mails')
          /\ \A i \in 1 .. Len(mails) : mails'[i] = mails[i]
          /\ mails'[Len(mails')].by = s
      BY <2>4, MoreMails DEF RecordInv
    <3>2. \A t \in Senders : Ready(t)' =>
             \A i \in 1 .. Len(mails') : SentinelOf[mails'[i].by] = SentinelOf[t] =>
                i \in 1 .. Len(mails) /\ mails'[i] = mails[i]
      BY <2>2, <3>1
    <3>3. \A t, u \in Senders : Ready(t)' /\ Ready(u)' /\ SentinelOf[t] = SentinelOf[u] => t = u
      BY <2>2 DEF OneAttempt
    <3>4. \A t \in Senders : Ready(t)' => pc'[t] = pc[t]
      BY <2>1, <2>2
    <3>5. QED
      BY <2>1, <2>2, <3>2, <3>3, <3>4 DEF OneAttempt
  <2>5. QED
    BY <2>1, <2>3, <2>4
<1>9. ASSUME NEW s \in Senders, MarkSent(s)
      PROVE  OneAttempt'
  <2>1. /\ \A k \in Sentinels : \A d \in sent'[k] :
                d \in sent[k] \/ (k = SentinelOf[s] /\ d = body[s])
        /\ pc[s] = "mark" /\ pc'[s] = "sent" /\ \A t \in Senders \ {s} : pc'[t] = pc[t]
        /\ UNCHANGED <<body, intents, mails>>
    BY <1>9 DEF MarkSent, Goto, RecordInv, TypeOK
  <2>2. PICK i \in 1 .. Len(mails) : SentinelOf[mails[i].by] = SentinelOf[s] /\ mails[i].body = body[s]
    BY <2>1 DEF RecordInv, AttemptOnRecord, MailedAs
  <2>3. \A t \in Senders : Ready(t)' => Ready(t) /\ pc'[t] = pc[t]
    BY <2>1 DEF Ready
  <2>4. \A t \in Senders : Ready(t) /\ SentinelOf[t] = SentinelOf[s] => body[t] # body[s]
    BY <2>2 DEF OneAttempt
  <2>5. \A t \in Senders : Ready(t)' => body[t] \notin sent'[SentinelOf[t]]
    BY <2>1, <2>3, <2>4 DEF OneAttempt
  <2>6. \A t, u \in Senders : Ready(t)' /\ Ready(u)' /\ SentinelOf[t] = SentinelOf[u] => t = u
    BY <2>3 DEF OneAttempt
  <2>7. QED
    BY <2>1, <2>3, <2>5, <2>6 DEF OneAttempt
<1>10. ASSUME NEW p \in Procs, Crash(p) \/ Relaunch(p)
       PROVE  OneAttempt'
  <2>1. \A t \in Senders : pc'[t] = pc[t] \/ pc'[t] \in {"crashed", "new"}
    BY <1>10 DEF Crash, Relaunch
  <2>2. UNCHANGED <<body, intents, sent, mails>>
    BY <1>10 DEF Crash, Relaunch, files
  <2>3. QED
    BY <1>1, <2>1, <2>2 DEF Ready
<1>11. ASSUME NEW k \in Sentinels, Age(k)
       PROVE  OneAttempt'
  BY <1>1, <1>11 DEF Age, Ready
<1>12. ASSUME NEW k \in Sentinels, OperatorClears(k)
       PROVE  OneAttempt'
  <2>1. PICK d \in OpenIntents(k) :
          /\ \A s \in Senders : SentinelOf[s] = k /\ body[s] = d =>
                pc[s] \notin {"intent", "unlock", "dial", "mark"}
          /\ intents' = [intents EXCEPT ![k] = @ \ {d}]
          /\ UNCHANGED <<pc, body, sent, mails>>
    BY <1>12 DEF OperatorClears
  <2>2. \A s \in Senders : Ready(s)' <=> Ready(s)
    BY <2>1 DEF Ready
  <2>3. \A s \in Senders : Ready(s) /\ body[s] \in intents[SentinelOf[s]] =>
           body[s] \in intents'[SentinelOf[s]]
    BY <2>1 DEF Ready, RecordInv, TypeOK
  <2>4. QED
    BY <2>1, <2>2, <2>3 DEF OneAttempt
<1>13. CASE UNCHANGED vars
  BY <1>1, <1>13 DEF vars, files, Ready
<1>14. QED
  BY StepCases, <1>2, <1>3, <1>4, <1>5, <1>6, <1>7, <1>8, <1>9, <1>10, <1>11, <1>12, <1>13

(* The mail a ready attempt adds differs from all earlier ones of its report*)
(* : with one source of drafts they come from its own sentinel.             *)
LEMMA OneEmailStep ==
    ASSUME OneSource, OnceInv, [Next]_vars
    PROVE  OneEmail'
<1> USE SendAssumption
<1>1. CASE UNCHANGED mails
  BY <1>1 DEF OnceInv, OneEmail
<1>2. ASSUME NEW s \in Senders, Dial(s), mails' = Append(mails, Mail(s))
      PROVE  OneEmail'
  <2>1. /\ \A i \in 1 .. Len(mails') : i \in 1 .. Len(mails) \/ i = Len(mails')
        /\ \A i \in 1 .. Len(mails) : mails'[i] = mails[i] /\ i < Len(mails')
        /\ Len(mails') \in Nat
        /\ mails'[Len(mails')].by = s /\ mails'[Len(mails')].scope = ScopeOf[s]
        /\ mails'[Len(mails')].body = body[s]
    BY <1>2, MoreMails DEF OnceInv, RecordInv
  <2>2. Ready(s) /\ Stored[s] # {}
    BY <1>2 DEF Dial, Ready, Running, OnceInv, DraftsOnly
  <2>3. ASSUME NEW i \in 1 .. Len(mails), mails[i].scope = ScopeOf[s]
        PROVE  mails[i].body # body[s] /\ s \in Approved
    <3>1. mails[i].by \in Senders /\ ScopeOf[mails[i].by] = ScopeOf[s] /\ Stored[mails[i].by] # {}
      BY <2>3, MailTypes DEF OnceInv, RecordInv, DraftsOnly
    <3>2. SentinelOf[mails[i].by] = SentinelOf[s]
      BY <2>2, <3>1 DEF OneSource
    <3>3. QED
      BY <2>2, <3>2 DEF OnceInv, OneAttempt
  <2>4. \A i, j \in 1 .. Len(mails') : i < j /\ j # Len(mails') => i \in 1 .. Len(mails) /\ j \in 1 .. Len(mails)
    BY <2>1
  <2>5. \A i, j \in 1 .. Len(mails') : i < j /\ j = Len(mails') => i \in 1 .. Len(mails)
    BY <2>1
  <2>6. QED
    BY <2>1, <2>3, <2>4, <2>5 DEF OnceInv, OneEmail
<1>3. \/ UNCHANGED mails
      \/ \E s \in Senders : Dial(s) /\ mails' = Append(mails, Mail(s))
  BY StepCases
  DEF SendReport, SendBonus, OuterCheck, EnterThunk, PollTimeout, SeeStale, JudgeStale, CreateLockfile,
      Reclaim, InnerCheck, Unlock, MarkIntent, Dial, MarkSent, Crash, Relaunch, Age, OperatorClears, vars
<1>4. QED
  BY <1>1, <1>2, <1>3

(* Nothing was sent, nobody holds anything at the start. *)
LEMMA OnceInit ==
    ASSUME Init
    PROVE  OnceInv
<1>1. "new" \in States /\ "new" \notin Running /\ "new" \notin Critical
  BY DEF States, Running, Critical
<1>2. TypeOK
  BY <1>1, SendAssumption, NoneAssumption DEF Init, TypeOK, Copies, NoLockfile, Lockfiles
<1>3. AttemptOnRecord /\ EveryEmailOnRecord
  BY DEF Init, AttemptOnRecord, EveryEmailOnRecord
<1>4. DraftsOnly /\ Exclusive /\ OneAttempt /\ OneEmail
  BY <1>1 DEF Init, DraftsOnly, Exclusive, OneAttempt, Ready, OneEmail
<1>5. QED
  BY <1>2, <1>3, <1>4 DEF OnceInv, RecordInv

(* While nobody unlinks a live lockfile, each step keeps all of it. *)
LEMMA OnceStep ==
    ASSUME OneSource, OnceInv, NoReclaimRace, [Next]_vars
    PROVE  OnceInv'
BY RecordStep, DraftsOnlyStep, ExclusiveStep, AttemptStep, OneEmailStep DEF OnceInv, RecordInv

(* The reclaim race is the only way to a second email: while no process     *)
(* unlinks a live lockfile, a report is never mailed twice and a second     *)
(* body of it only with approval, from however many processes it is sent,   *)
(* whatever crashes, relaunches and repairs there are.                      *)
THEOREM OnlyTheRaceRepeats ==
    ASSUME OneSource
    PROVE  Spec /\ []NoReclaimRace => []OneEmail
<1>1. Init => OnceInv
  BY OnceInit
<1>2. OnceInv /\ NoReclaimRace /\ [Next]_vars => OnceInv'
  BY OnceStep
<1>3. OnceInv => OneEmail
  BY DEF OnceInv
<1>4. QED
  BY <1>1, <1>2, <1>3, PTL DEF Spec
-----------------------------------------------------------------------------
(* A deployment without the race: what may die with a sentinel's lockfile   *)
(* is started once, and what is left of that sentinel's senders is one      *)
(* process, run again as often as it likes.                                 *)
SingleReclaimer ==
    \A c \in Senders : ProcOf[c] \in Crashable =>
        /\ MaxLaunches[ProcOf[c]] = 1
        /\ \A s, t \in Senders :
              /\ SentinelOf[s] = SentinelOf[c] /\ ProcOf[s] # ProcOf[c]
              /\ SentinelOf[t] = SentinelOf[c] /\ ProcOf[t] # ProcOf[c]
              => ProcOf[s] = ProcOf[t]

(* From the poll loop to the unlock a thread holds the LOCK of its process. *)
InThreadLock == {"poll", "judge", "reclaim"} \union Critical
ThreadsExclude == \A s \in Senders : pc[s] \in InThreadLock => lock[ProcOf[s]] = s

(* A dead process stays dead with all of its threads. *)
DeadForGood ==
    \A c \in Senders : pc[c] = "crashed" =>
        /\ ProcOf[c] \in Crashable
        /\ \A s \in Senders : ProcOf[s] = ProcOf[c] => pc[s] \in Settled

(* A lockfile is that of a thread in the critical section or of a dead one, *)
(* an old one of a dead one; who judges a lockfile has found a dead one's.  *)
DeadOn(k) == \E c \in Senders : SentinelOf[c] = k /\ pc[c] = "crashed"
LockfilesExplained ==
    /\ \A k \in Sentinels : lockfile[k] # NoLockfile =>
          /\ lockfile[k].by \in Senders /\ SentinelOf[lockfile[k].by] = k
          /\ pc[lockfile[k].by] \in Critical \/ pc[lockfile[k].by] = "crashed"
          /\ lockfile[k].old => pc[lockfile[k].by] = "crashed"
    /\ \A s \in Senders : pc[s] \in {"judge", "reclaim"} => DeadOn(SentinelOf[s])

NoRaceInv == TypeOK /\ Exclusive /\ ThreadsExclude /\ DeadForGood /\ LockfilesExplained

(* The race needs two live threads on one sentinel beside a dead one: with  *)
(* a single reclaimer they share a process, whose LOCK lets one of them in. *)
LEMMA NoRace ==
    ASSUME SingleReclaimer, NoRaceInv
    PROVE  NoReclaimRace
<1> USE SendAssumption
<1>1. SUFFICES ASSUME NEW s \in Senders, NEW t \in Senders,
                      pc[s] = "reclaim", SentinelOf[t] = SentinelOf[s], pc[t] \in Critical
               PROVE  FALSE
  BY DEF NoReclaimRace
<1>2. PICK c \in Senders : SentinelOf[c] = SentinelOf[s] /\ pc[c] = "crashed"
  BY <1>1 DEF NoRaceInv, LockfilesExplained, DeadOn
<1>3. ProcOf[s] # ProcOf[c] /\ ProcOf[t] # ProcOf[c]
  BY <1>1, <1>2 DEF NoRaceInv, DeadForGood, Settled, Critical
<1>4. ProcOf[c] \in Crashable
  BY <1>2 DEF NoRaceInv, DeadForGood
<1>5. ProcOf[s] = ProcOf[t]
  BY <1>1, <1>2, <1>3, <1>4 DEF SingleReclaimer
<1>6. lock[ProcOf[s]] = s /\ lock[ProcOf[t]] = t
  BY <1>1 DEF NoRaceInv, ThreadsExclude, InThreadLock
<1>7. QED
  BY <1>1, <1>5, <1>6 DEF Critical

(* The thread LOCK excludes, and the dead stay dead.                        *)
LEMMA ThreadsStep ==
    ASSUME TypeOK, ThreadsExclude, DeadForGood, [Next]_vars
    PROVE  ThreadsExclude' /\ DeadForGood'
<1> USE SendAssumption, NoneAssumption
<1> DEFINE Alone(s) ==
      /\ pc[s] \notin Settled /\ pc'[s] # "crashed"
      /\ \A t \in Senders \ {s} : pc'[t] = pc[t]
<1>1. ASSUME NEW s \in Senders, Alone(s)
      PROVE  DeadForGood'
  BY <1>1 DEF DeadForGood, Settled
<1>2. ASSUME NEW s \in Senders, Alone(s), UNCHANGED lock,
             pc'[s] \in InThreadLock => pc[s] \in InThreadLock
      PROVE  ThreadsExclude' /\ DeadForGood'
  BY <1>1, <1>2 DEF ThreadsExclude
<1>3. ASSUME NEW s \in Senders, Alone(s), ReleaseThreadLock(s),
             pc[s] \in InThreadLock, pc'[s] \notin InThreadLock
      PROVE  ThreadsExclude' /\ DeadForGood'
  <2>1. \A t \in Senders : pc'[t] \in InThreadLock => ProcOf[t] # ProcOf[s]
    BY <1>3 DEF ThreadsExclude
  <2>2. \A p \in Procs \ {ProcOf[s]} : lock'[p] = lock[p]
    BY <1>3 DEF ReleaseThreadLock, TypeOK
  <2>3. ThreadsExclude'
    BY <1>3, <2>1, <2>2 DEF ThreadsExclude
  <2>4. QED
    BY <1>1, <1>3, <2>3
<1>4. ASSUME NEW s \in Senders, SendReport(s) \/ SendBonus(s)
      PROVE  ThreadsExclude' /\ DeadForGood'
  <2>1. pc[s] = "new" /\ pc'[s] \in {"first", "invalid"} /\ \A t \in Senders \ {s} : pc'[t] = pc[t]
    BY <1>4 DEF SendReport, SendBonus, Start, Goto, TypeOK
  <2>2. QED
    BY <1>2, <1>4, <2>1 DEF SendReport, SendBonus, InThreadLock, Critical, Settled
<1>5. ASSUME NEW s \in Senders, EnterThunk(s)
      PROVE  ThreadsExclude' /\ DeadForGood'
  <2>1. /\ pc[s] = "thunk" /\ pc'[s] = "poll" /\ \A t \in Senders \ {s} : pc'[t] = pc[t]
        /\ lock[ProcOf[s]] = None /\ lock'[ProcOf[s]] = s
        /\ \A p \in Procs \ {ProcOf[s]} : lock'[p] = lock[p]
    BY <1>5 DEF EnterThunk, ThreadLockFree, Goto, TypeOK
  <2>2. ThreadsExclude'
    BY <2>1 DEF ThreadsExclude
  <2>3. QED
    BY <1>1, <2>1, <2>2 DEF Settled
<1>6. ASSUME NEW s \in Senders,
             \/ OuterCheck(s) \/ SeeStale(s) \/ CreateLockfile(s) \/ Reclaim(s)
             \/ MarkIntent(s) \/ Dial(s) \/ MarkSent(s)
      PROVE  ThreadsExclude' /\ DeadForGood'
  <2>1. /\ pc[s] \notin Settled /\ pc'[s] # "crashed" /\ \A t \in Senders \ {s} : pc'[t] = pc[t]
        /\ pc'[s] \in InThreadLock => pc[s] \in InThreadLock
    BY <1>6, VerdictStates
    DEF OuterCheck, SeeStale, CreateLockfile, Reclaim, MarkIntent, Dial, MarkSent, Goto, TypeOK,
        InThreadLock, Critical, Settled
  <2>2. UNCHANGED lock
    BY <1>6 DEF OuterCheck, SeeStale, CreateLockfile, Reclaim, MarkIntent, Dial, MarkSent
  <2>3. QED
    BY <1>2, <2>1, <2>2
<1>7. ASSUME NEW s \in Senders, PollTimeout(s) \/ JudgeStale(s) \/ InnerCheck(s) \/ Unlock(s)
      PROVE  ThreadsExclude' /\ DeadForGood'
  <2>1. /\ pc[s] \in {"poll", "judge", "check", "unlock"}
        /\ pc'[s] \in {"refused", "blocked", "already_sent", "reclaim", "intent", "dial"}
        /\ \A t \in Senders \ {s} : pc'[t] = pc[t]
    BY <1>7, VerdictStates DEF PollTimeout, JudgeStale, InnerCheck, Unlock, Goto, TypeOK
  <2>2. IF pc'[s] \in {"reclaim", "intent"} THEN UNCHANGED lock ELSE ReleaseThreadLock(s)
    BY <1>7, VerdictStates DEF PollTimeout, JudgeStale, InnerCheck, Unlock, Goto, TypeOK
  <2>3. Alone(s) /\ pc[s] \in InThreadLock
    BY <2>1 DEF Settled, InThreadLock, Critical
  <2>4. CASE pc'[s] \in {"reclaim", "intent"}
    BY <1>2, <2>2, <2>3, <2>4
  <2>5. CASE pc'[s] \notin {"reclaim", "intent"}
    BY <1>3, <2>1, <2>2, <2>3, <2>5 DEF InThreadLock, Critical
  <2>6. QED
    BY <2>4, <2>5
<1>8. ASSUME NEW p \in Procs, Crash(p)
      PROVE  ThreadsExclude' /\ DeadForGood'
  <2>1. /\ p \in Crashable
        /\ \A t \in Senders : ProcOf[t] = p => pc'[t] \in Settled
        /\ \A t \in Senders : ProcOf[t] # p => pc'[t] = pc[t]
        /\ \A q \in Procs \ {p} : lock'[q] = lock[q]
    BY <1>8 DEF Crash, TypeOK, Settled
  <2>2. ThreadsExclude'
    BY <2>1 DEF ThreadsExclude, InThreadLock, Critical, Settled
  <2>3. DeadForGood'
    BY <2>1 DEF DeadForGood
  <2>4. QED
    BY <2>2, <2>3
<1>9. ASSUME NEW p \in Procs, Relaunch(p)
      PROVE  ThreadsExclude' /\ DeadForGood'
  <2>1. \A t \in Senders : pc'[t] = IF ProcOf[t] = p THEN "new" ELSE pc[t]
    BY <1>9 DEF Relaunch
  <2>2. UNCHANGED lock
    BY <1>9 DEF Relaunch
  <2>3. QED
    BY <2>1, <2>2 DEF ThreadsExclude, DeadForGood, InThreadLock, Critical
<1>10. CASE UNCHANGED <<pc, lock>>
  BY <1>10 DEF ThreadsExclude, DeadForGood
<1>11. QED
  BY StepCases, <1>4, <1>5, <1>6, <1>7, <1>8, <1>9, <1>10 DEF Age, OperatorClears, vars

(* Where every lockfile comes from, and what a judge of it has seen.        *)
LEMMA LockfilesStep ==
    ASSUME SingleReclaimer, NoRaceInv, [Next]_vars
    PROVE  LockfilesExplained'
<1> USE SendAssumption, NoneAssumption DEF NoRaceInv
<1> DEFINE Explained(k) ==
      lockfile[k] # NoLockfile =>
          /\ lockfile[k].by \in Senders /\ SentinelOf[lockfile[k].by] = k
          /\ pc[lockfile[k].by] \in Critical \/ pc[lockfile[k].by] = "crashed"
          /\ lockfile[k].old => pc[lockfile[k].by] = "crashed"
<1>1. ASSUME \A k \in Sentinels : lockfile'[k] = lockfile[k] \/ lockfile'[k] = NoLockfile,
             \A s \in Senders : pc[s] = "crashed" => pc'[s] = "crashed",
             \A s \in Senders : pc[s] \in Critical /\ lockfile'[SentinelOf[s]] # NoLockfile =>
                 pc'[s] \in Critical \/ pc'[s] = "crashed",
             \A s \in Senders : pc'[s] \in {"judge", "reclaim"} =>
                 pc[s] \in {"judge", "reclaim"} \/ DeadOn(SentinelOf[s])
      PROVE  LockfilesExplained'
  <2>1. \A k \in Sentinels : DeadOn(k) => DeadOn(k)'
    BY <1>1 DEF DeadOn
  <2>2. \A k \in Sentinels : Explained(k)'
    BY <1>1 DEF LockfilesExplained
  <2>3. QED
    BY <1>1, <2>1, <2>2 DEF LockfilesExplained
<1>2. ASSUME NEW s \in Senders, SendReport(s) \/ SendBonus(s)
      PROVE  LockfilesExplained'
  <2>1. pc[s] = "new" /\ pc'[s] \in {"first", "invalid"} /\ \A t \in Senders \ {s} : pc'[t] = pc[t]
    BY <1>2 DEF SendReport, SendBonus, Start, Goto, TypeOK
  <2>2. UNCHANGED lockfile
    BY <1>2 DEF SendReport, SendBonus, files
  <2>3. QED
    BY <1>1, <2>1, <2>2 DEF Critical
<1>3. ASSUME NEW s \in Senders, SeeStale(s)
      PROVE  LockfilesExplained'
  <2>1. /\ pc[s] = "poll" /\ pc'[s] = "judge" /\ \A t \in Senders \ {s} : pc'[t] = pc[t]
        /\ UNCHANGED lockfile /\ lockfile[SentinelOf[s]].old
    BY <1>3 DEF SeeStale, Goto, TypeOK, files
  <2>2. DeadOn(SentinelOf[s])
    BY <2>1 DEF LockfilesExplained, DeadOn, NoLockfile
  <2>3. QED
    BY <1>1, <2>1, <2>2 DEF Critical
<1>4. ASSUME NEW s \in Senders, OuterCheck(s) \/ EnterThunk(s) \/ PollTimeout(s) \/ JudgeStale(s)
      PROVE  LockfilesExplained'
  <2>1. /\ pc[s] \in {"first", "thunk", "poll", "judge"}
        /\ pc'[s] \in {"judge", "reclaim"} => pc[s] = "judge"
        /\ \A t \in Senders \ {s} : pc'[t] = pc[t]
    BY <1>4, VerdictStates DEF OuterCheck, EnterThunk, PollTimeout, JudgeStale, Goto, TypeOK
  <2>2. UNCHANGED lockfile
    BY <1>4 DEF OuterCheck, EnterThunk, PollTimeout, JudgeStale, files
  <2>3. QED
    BY <1>1, <2>1, <2>2 DEF Critical
<1>5. ASSUME NEW s \in Senders, CreateLockfile(s)
      PROVE  LockfilesExplained'
  <2>1. /\ pc[s] = "poll" /\ pc'[s] = "check" /\ \A t \in Senders \ {s} : pc'[t] = pc[t]
        /\ lockfile'[SentinelOf[s]].by = s /\ ~lockfile'[SentinelOf[s]].old
        /\ \A k \in Sentinels \ {SentinelOf[s]} : lockfile'[k] = lockfile[k]
    BY <1>5 DEF CreateLockfile, Goto, TypeOK
  <2>2. \A k \in Sentinels : DeadOn(k) => DeadOn(k)'
    BY <2>1 DEF DeadOn
  <2>3. Explained(SentinelOf[s])'
    BY <2>1 DEF Critical
  <2>4. \A k \in Sentinels \ {SentinelOf[s]} : Explained(k)'
    BY <2>1 DEF LockfilesExplained
  <2>5. QED
    BY <2>1, <2>2, <2>3, <2>4 DEF LockfilesExplained
<1>6. ASSUME NEW s \in Senders, Reclaim(s) \/ InnerCheck(s) \/ Unlock(s)
      PROVE  LockfilesExplained'
  <2>1. /\ pc[s] \in {"reclaim", "check", "unlock"}
        /\ pc'[s] \notin {"judge", "reclaim"}
        /\ \A t \in Senders \ {s} : pc'[t] = pc[t]
    BY <1>6, VerdictStates DEF Reclaim, InnerCheck, Unlock, Goto, TypeOK
  <2>2. \A k \in Sentinels : lockfile'[k] = lockfile[k] \/ lockfile'[k] = NoLockfile
    BY <1>6 DEF Reclaim, InnerCheck, Unlock, Unlink, TypeOK
  <2>3. pc'[s] = "intent" \/ lockfile'[SentinelOf[s]] = NoLockfile
    BY <1>6 DEF Reclaim, InnerCheck, Unlock, Unlink, Goto, TypeOK
  <2>4. QED
    BY <1>1, <2>1, <2>2, <2>3 DEF Critical
<1>7. ASSUME NEW s \in Senders, MarkIntent(s) \/ Dial(s) \/ MarkSent(s)
      PROVE  LockfilesExplained'
  <2>1. /\ pc[s] \in {"intent", "dial", "mark"} /\ pc'[s] \in {"unlock", "mark", "smtp_error", "sent"}
        /\ pc[s] = "intent" => pc'[s] = "unlock"
        /\ \A t \in Senders \ {s} : pc'[t] = pc[t]
    BY <1>7 DEF MarkIntent, Dial, MarkSent, Goto, TypeOK
  <2>2. UNCHANGED lockfile
    BY <1>7 DEF MarkIntent, Dial, MarkSent
  <2>3. QED
    BY <1>1, <2>1, <2>2 DEF Critical
<1>8. ASSUME NEW p \in Procs, Crash(p)
      PROVE  LockfilesExplained'
  <2>1. \A t \in Senders : pc'[t] = pc[t] \/ pc'[t] = "crashed"
    BY <1>8 DEF Crash
  <2>2. QED
    BY <1>1, <1>8, <2>1 DEF Crash, files
<1>9. ASSUME NEW p \in Procs, Relaunch(p)
      PROVE  LockfilesExplained'
  <2>1. MaxLaunches[p] # 1
    BY <1>9 DEF Relaunch, TypeOK
  <2>2. \A t \in Senders : ProcOf[t] = p => pc[t] \in Settled /\ pc[t] # "crashed"
    BY <1>9, <2>1 DEF Relaunch, SingleReclaimer, DeadForGood
  <2>3. \A t \in Senders : pc'[t] = IF ProcOf[t] = p THEN "new" ELSE pc[t]
    BY <1>9 DEF Relaunch
  <2>4. QED
    BY <1>1, <1>9, <2>2, <2>3 DEF Relaunch, files, Critical, Settled
<1>10. ASSUME NEW k \in Sentinels, Age(k)
       PROVE  LockfilesExplained'
  <2>1. /\ UNCHANGED pc /\ lockfile[k] # NoLockfile /\ pc[lockfile[k].by] \notin Critical
        /\ lockfile'[k].by = lockfile[k].by
        /\ \A h \in Sentinels \ {k} : lockfile'[h] = lockfile[h]
    BY <1>10 DEF Age, TypeOK, Lockfiles
  <2>2. Explained(k)'
    BY <2>1 DEF LockfilesExplained
  <2>3. \A h \in Sentinels \ {k} : Explained(h)'
    BY <2>1 DEF LockfilesExplained
  <2>4. QED
    BY <2>1, <2>2, <2>3 DEF LockfilesExplained, DeadOn
<1>11. ASSUME NEW k \in Sentinels, OperatorClears(k)
       PROVE  LockfilesExplained'
  <2>1. UNCHANGED pc /\ \A h \in Sentinels : lockfile'[h] = lockfile[h] \/ lockfile'[h] = NoLockfile
    BY <1>11 DEF OperatorClears, TypeOK
  <2>2. QED
    BY <1>1, <2>1
<1>12. CASE UNCHANGED vars
  BY <1>1, <1>12 DEF vars, files
<1>13. QED
  BY StepCases, <1>2, <1>3, <1>4, <1>5, <1>6, <1>7, <1>8, <1>9, <1>10, <1>11, <1>12

(* The explanation of the lockfiles and the exclusion they give are kept    *)
(* together: each needs the other.                                          *)
LEMMA NoRaceStep ==
    ASSUME SingleReclaimer, NoRaceInv, [Next]_vars
    PROVE  NoRaceInv'
BY NoRace, TypeStep, ExclusiveStep, ThreadsStep, LockfilesStep DEF NoRaceInv

(* Without a second reclaimer no live lockfile is ever unlinked.            *)
THEOREM SingleReclaimerNoRace ==
    ASSUME SingleReclaimer
    PROVE  Spec => []NoReclaimRace
<1>1. Init => NoRaceInv
  <2>1. Init => TypeOK /\ Exclusive
    BY OnceInit DEF OnceInv, RecordInv
  <2>2. Init => ThreadsExclude /\ DeadForGood /\ LockfilesExplained
    BY DEF Init, ThreadsExclude, DeadForGood, LockfilesExplained, InThreadLock, Critical
  <2>3. QED
    BY <2>1, <2>2 DEF NoRaceInv
<1>2. NoRaceInv /\ [Next]_vars => NoRaceInv'
  BY NoRaceStep
<1>3. NoRaceInv => NoReclaimRace
  BY NoRace
<1>4. QED
  BY <1>1, <1>2, <1>3, PTL DEF Spec

(* OneEmail for every deployment of that kind: one working copy with the    *)
(* drafts and any number of clones, threads, reports, bodies and launches.  *)
THEOREM EmailedOnce ==
    ASSUME OneSource, SingleReclaimer
    PROVE  Spec => []OneEmail
<1>1. Spec => []NoReclaimRace
  BY SingleReclaimerNoRace
<1>2. Spec /\ []NoReclaimRace => []OneEmail
  BY OnlyTheRaceRepeats
<1>3. QED
  BY <1>1, <1>2, PTL
-----------------------------------------------------------------------------

Admissions == [call : Calls, at : Nat]

(* Where a caller stands that has no decision yet. *)
Undecided == {"new"} \union Locked

GateTypeOK ==
    /\ now \in Nat /\ queue \in Seq(Calls)
    /\ outcome \in [Calls -> {"undecided", "run", "defer", "reject"}]
    /\ thread \in [Calls -> Undecided \union {"running"} \union Returned]

(* Tokens spent since t, and from t to u. *)
Since(A, t) == {i \in 1 .. Len(A) : t <= A[i].at}
Within(A, t, u) == {i \in 1 .. Len(A) : t <= A[i].at /\ A[i].at <= u}

(* A bucket of tok units as of time when, the tokens of A having been spent.*)
(* RateLimited speaks of closed windows; an open one is inductive only with *)
(* what is left in the bucket counted as if it were spent.                  *)
BucketOK(A, tok, when) ==
    /\ A \in Seq(Admissions) /\ tok \in 0 .. Capacity /\ when \in Nat
    /\ \A i \in 1 .. Len(A) : A[i].at <= when
    /\ \A t \in 0 .. when :
          Cardinality(Since(A, t)) * Cost + tok <= Capacity + (when - t) * PerTick
    /\ \A t, u \in 0 .. when : t <= u =>
          Cardinality(Within(A, t, u)) * Cost <= Capacity + (u - t) * PerTick

BucketInv == last <= now /\ BucketOK(admitted, tokens, last)

(* A caller is undecided until it lets go of the lock, and the lock is had  *)
(* in the order of the callers, by one at a time.                           *)
InTurn ==
    /\ \A c \in Calls : thread[c] \in Undecided <=> outcome[c] = "undecided"
    /\ \A c, d \in Calls : c < d /\ thread[c] \in Undecided => thread[d] = "new"
-----------------------------------------------------------------------------
(* What the limits of the gatekeeper are. *)
LEMMA Limits ==
    /\ NumCalls \in Nat /\ Cost \in Nat \ {0} /\ PerTick \in Nat \ {0} /\ MaxQueue \in Nat \ {0}
    /\ Capacity \in Nat
<1>1. \A m, n \in Nat : m * n \in Nat
  OBVIOUS
<1>2. QED
  BY <1>1, GatekeeperAssumption DEF Capacity

(* More tokens cost more. *)
LEMMA CostMonotone ==
    ASSUME NEW m \in Nat, NEW n \in Nat, m <= n, NEW b \in Nat
    PROVE  m * b \in Nat /\ n * b \in Nat /\ m * b <= n * b
<1>1. PICK d \in Nat : n = m + d
  <2>1. n - m \in Nat /\ n = m + (n - m)
    OBVIOUS
  <2>2. QED
    BY <2>1
<1>2. n * b = m * b + d * b /\ m * b \in Nat /\ d * b \in Nat
  BY <1>1
<1>3. QED
  BY <1>2

(* The tokens of a window are finitely many, and no more than those since   *)
(* it opened.                                                               *)
LEMMA Counted ==
    ASSUME NEW A \in Seq(Admissions), NEW t, NEW u
    PROVE  /\ IsFiniteSet(Since(A, t)) /\ Cardinality(Since(A, t)) \in Nat
           /\ IsFiniteSet(Within(A, t, u)) /\ Cardinality(Within(A, t, u)) \in Nat
           /\ Cardinality(Within(A, t, u)) <= Cardinality(Since(A, t))
<1>1. IsFiniteSet(1 .. Len(A))
  BY FS_Interval
<1>2. Since(A, t) \in SUBSET (1 .. Len(A))
  BY DEF Since
<1>3. IsFiniteSet(Since(A, t))
  BY <1>1, <1>2, FS_Subset
<1>4. Within(A, t, u) \in SUBSET Since(A, t)
  BY DEF Since, Within
<1>5. QED
  BY <1>3, <1>4, FS_Subset, FS_CardinalityType

(* try_consume's refill: what the bucket gains is what the windows that are *)
(* still open gain, and no token was spent in the time that passed.         *)
LEMMA RefillOK ==
    ASSUME NEW A, NEW tok, NEW when, BucketOK(A, tok, when), NEW d \in Nat
    PROVE  BucketOK(A, Smaller(Capacity, tok + d * PerTick), when + d)
<1>1. /\ A \in Seq(Admissions) /\ tok \in 0 .. Capacity /\ when \in Nat
      /\ \A i \in 1 .. Len(A) : A[i] \in Admissions
      /\ \A i \in 1 .. Len(A) : A[i].at \in Nat /\ A[i].at <= when
  <2>1. /\ A \in Seq(Admissions) /\ tok \in 0 .. Capacity /\ when \in Nat
        /\ \A i \in 1 .. Len(A) : A[i].at <= when
    BY DEF BucketOK
  <2>2. \A i \in 1 .. Len(A) : A[i] \in Admissions
    BY <2>1
  <2>3. QED
    BY <2>1, <2>2 DEF Admissions
<1>2. PerTick \in Nat /\ Cost \in Nat /\ Capacity \in Nat
  BY Limits
<1>3. PICK g \in Nat, tok1 \in 0 .. Capacity :
         g = d * PerTick /\ tok1 = Smaller(Capacity, tok + g) /\ tok1 <= tok + g
  <2>1. PICK g \in Nat : g = d * PerTick
    BY <1>2
  <2>2. QED
    BY <1>1, <1>2, <2>1 DEF Smaller
<1>4. ASSUME NEW t \in 0 .. when + d, ~(t <= when)
      PROVE  Since(A, t) = {} /\ \A u : Within(A, t, u) = {}
  BY <1>1, <1>4 DEF Since, Within
<1>5. \A t \in 0 .. when : ((when + d) - t) * PerTick = (when - t) * PerTick + g
  <2>1. TAKE t \in 0 .. when
  <2>2. PICK m \in Nat : m = when - t
    BY <1>1
  <2>3. (m + d) * PerTick = m * PerTick + d * PerTick
    BY <1>2
  <2>4. (when + d) - t = m + d
    BY <1>1, <2>2
  <2>5. QED
    BY <1>3, <2>2, <2>3, <2>4
<1>6. ASSUME NEW t \in 0 .. when + d
      PROVE  Cardinality(Since(A, t)) * Cost + tok1 <= Capacity + ((when + d) - t) * PerTick
  <2>1. CASE t <= when
    <3>1. t \in 0 .. when
      BY <1>1, <2>1
    <3>2. Cardinality(Since(A, t)) * Cost + tok <= Capacity + (when - t) * PerTick
      BY <3>1 DEF BucketOK
    <3>3. PICK x \in Nat, y \in Nat :
             x = Cardinality(Since(A, t)) * Cost /\ y = (when - t) * PerTick
      <4>1. Cardinality(Since(A, t)) \in Nat /\ when - t \in Nat
        <5>1. Cardinality(Since(A, t)) \in Nat
          BY <1>1, Counted
        <5>2. QED
          BY <1>1, <3>1, <5>1
      <4>2. \A m, n \in Nat : m * n \in Nat
        OBVIOUS
      <4>3. QED
        BY <1>2, <4>1, <4>2
    <3>4. ((when + d) - t) * PerTick = y + g
      BY <1>5, <3>1, <3>3
    <3>5. x + tok <= Capacity + y
      BY <3>2, <3>3
    <3>6. x + tok1 <= Capacity + (y + g)
      <4>1. tok1 <= tok + g /\ tok \in Nat /\ tok1 \in Nat
        BY <1>1, <1>2, <1>3
      <4>2. QED
        BY <1>2, <3>5, <4>1
    <3>7. QED
      BY <3>3, <3>4, <3>6
  <2>2. CASE ~(t <= when)
    <3>1. Cardinality(Since(A, t)) = 0
      BY <1>4, <2>2, FS_EmptySet
    <3>2. PICK m \in Nat : m = (when + d) - t
      BY <1>1, <2>2
    <3>3. m * PerTick \in Nat /\ 0 * Cost = 0
      BY <1>2
    <3>4. QED
      BY <1>2, <1>3, <3>1, <3>2, <3>3
  <2>3. QED
    BY <2>1, <2>2
<1>7. ASSUME NEW t \in 0 .. when + d, NEW u \in 0 .. when + d, t <= u
      PROVE  Cardinality(Within(A, t, u)) * Cost <= Capacity + (u - t) * PerTick
  <2>1. CASE u <= when
    <3>1. t \in 0 .. when /\ u \in 0 .. when
      BY <1>1, <1>7, <2>1
    <3>2. QED
      BY <1>7, <3>1 DEF BucketOK
  <2>2. CASE t <= when /\ ~(u <= when)
    <3>1. t \in 0 .. when
      BY <1>1, <2>2
    <3>2. Cardinality(Since(A, t)) * Cost + tok <= Capacity + (when - t) * PerTick
      BY <3>1 DEF BucketOK
    <3>3. PICK m \in Nat, n \in Nat : m = when - t /\ n = u - t /\ m <= n
      BY <1>1, <1>7, <2>2, <3>1
    <3>4. m * PerTick <= n * PerTick /\ m * PerTick \in Nat /\ n * PerTick \in Nat
      BY <1>2, <3>3, CostMonotone
    <3>5. PICK v \in Nat, w \in Nat :
             v = Cardinality(Within(A, t, u)) /\ w = Cardinality(Since(A, t)) /\ v <= w
      BY <1>1, Counted
    <3>6. v * Cost <= w * Cost /\ v * Cost \in Nat /\ w * Cost \in Nat
      BY <1>2, <3>5, CostMonotone
    <3>7. QED
      <4>1. PICK x1 \in Nat, x2 \in Nat, y1 \in Nat, y2 \in Nat :
               /\ x1 = v * Cost /\ x2 = w * Cost /\ y1 = m * PerTick /\ y2 = n * PerTick
               /\ x1 <= x2 /\ y1 <= y2
        BY <3>4, <3>6
      <4>2. x2 + tok <= Capacity + y1
        BY <3>2, <3>3, <3>5, <4>1
      <4>3. x1 <= x2 /\ y1 <= y2 /\ tok \in Nat
        BY <1>1, <1>2, <4>1
      <4>4. x1 <= Capacity + y2
        BY <1>2, <4>2, <4>3
      <4>5. QED
        BY <3>3, <3>5, <4>1, <4>4
  <2>3. CASE ~(t <= when)
    <3>1. Cardinality(Within(A, t, u)) = 0
      BY <1>4, <2>3, FS_EmptySet
    <3>2. PICK m \in Nat : m = u - t
      BY <1>1, <1>7
    <3>3. m * PerTick \in Nat /\ 0 * Cost = 0
      BY <1>2
    <3>4. QED
      BY <1>2, <3>1, <3>2, <3>3
  <2>4. QED
    BY <2>1, <2>2, <2>3
<1>8. \A i \in 1 .. Len(A) : A[i].at <= when + d
  BY <1>1
<1>9. BucketOK(A, tok1, when + d)
  BY <1>1, <1>6, <1>7, <1>8 DEF BucketOK
<1>10. QED
  BY <1>3, <1>9

(* try_consume's spending: every window that is still open counts the       *)
(* tokens, and they are gone from the bucket.                               *)
LEMMA SpendOK ==
    ASSUME NEW A, NEW tok, NEW when, BucketOK(A, tok, when),
           NEW X \in Seq(Admissions), \A i \in 1 .. Len(X) : X[i].at = when,
           Len(X) * Cost <= tok
    PROVE  BucketOK(A \o X, tok - Len(X) * Cost, when)
<1>1. /\ A \in Seq(Admissions) /\ tok \in 0 .. Capacity /\ when \in Nat
      /\ \A i \in 1 .. Len(A) : A[i].at <= when
  BY DEF BucketOK
<1>2. PerTick \in Nat /\ Cost \in Nat /\ Capacity \in Nat
  BY Limits
<1>3. PICK n \in Nat, paid \in Nat : n = Len(X) /\ paid = n * Cost
  <2>1. Len(X) \in Nat
    OBVIOUS
  <2>2. \A m, k \in Nat : m * k \in Nat
    OBVIOUS
  <2>3. QED
    BY <1>2, <2>1, <2>2
<1> DEFINE B == A \o X
<1>4. /\ B \in Seq(Admissions) /\ Len(B) = Len(A) + n /\ Len(A) \in Nat
      /\ \A i \in 1 .. Len(A) : B[i] = A[i]
      /\ \A i \in Len(A) + 1 .. Len(A) + n : B[i] = X[i - Len(A)]
  BY <1>1, <1>3
<1> HIDE DEF B
<1>5. \A i \in Len(A) + 1 .. Len(A) + n : B[i].at = when
  <2>1. \A i \in Len(A) + 1 .. Len(A) + n : i - Len(A) \in 1 .. Len(X)
    BY <1>3, <1>4
  <2>2. QED
    BY <1>4, <2>1
<1> DEFINE new == Len(A) + 1 .. Len(A) + n
<1>6. IsFiniteSet(new) /\ Cardinality(new) = n
  <2>1. PICK a \in Int, b \in Int : a = Len(A) + 1 /\ b = Len(A) + n
    BY <1>4
  <2>2. IsFiniteSet(a .. b) /\ Cardinality(a .. b) = IF a > b THEN 0 ELSE b - a + 1
    BY FS_Interval
  <2>3. QED
    BY <1>4, <2>1, <2>2
<1>7. \A i : i \in 1 .. Len(B) <=> i \in 1 .. Len(A) \/ i \in new
  BY <1>4
<1>8. ASSUME NEW t \in 0 .. when
      PROVE  Since(B, t) = Since(A, t) \union new /\ Since(A, t) \intersect new = {}
  <2>1. \A i \in new : t <= B[i].at
    BY <1>1, <1>5
  <2>2. \A i \in 1 .. Len(A) : B[i] = A[i]
    BY <1>4
  <2>3. \A i \in 1 .. Len(A) : i \notin new
    BY <1>4
  <2> HIDE DEF new
  <2>4. QED
    BY <1>7, <2>1, <2>2, <2>3 DEF Since
<1>9. ASSUME NEW t \in 0 .. when
      PROVE  Cardinality(Since(B, t)) = Cardinality(Since(A, t)) + n
  <2>1. IsFiniteSet(Since(A, t)) /\ Cardinality(Since(A, t)) \in Nat
    BY <1>1, Counted
  <2> HIDE DEF new
  <2>2. Cardinality(Since(A, t) \union new)
          = Cardinality(Since(A, t)) + Cardinality(new) - Cardinality(Since(A, t) \intersect new)
    BY <1>6, <2>1, FS_Union
  <2>3. Cardinality(Since(A, t) \intersect new) = 0
    BY <1>8, FS_EmptySet
  <2>4. Cardinality(Since(A, t) \union new) = Cardinality(Since(A, t)) + n
    <3>1. \A k, m \in Nat : k + m - 0 = k + m
      OBVIOUS
    <3>2. QED
      BY <1>6, <2>1, <2>2, <2>3, <3>1
  <2>5. QED
    BY <1>8, <2>4
<1>10. ASSUME NEW t \in 0 .. when
       PROVE  Cardinality(Since(B, t)) * Cost + (tok - paid) <= Capacity + (when - t) * PerTick
  <2>1. PICK w \in Nat : w = Cardinality(Since(A, t))
    BY <1>1, Counted
  <2>2. (w + n) * Cost = w * Cost + paid /\ w * Cost \in Nat
    BY <1>2, <1>3
  <2>3. w * Cost + tok <= Capacity + (when - t) * PerTick
    BY <2>1 DEF BucketOK
  <2>4. PICK m \in Nat : m = (when - t) * PerTick
    <3>1. when - t \in Nat
      BY <1>1
    <3>2. \A k, l \in Nat : k * l \in Nat
      OBVIOUS
    <3>3. QED
      BY <1>2, <3>1, <3>2
  <2>5. PICK x \in Nat, y \in Nat : x = w * Cost /\ y = (w + n) * Cost /\ y = x + paid
    <3>1. w + n \in Nat /\ (w + n) * Cost \in Nat
      BY <1>2
    <3>2. QED
      BY <2>2, <3>1
  <2>6. x + tok <= Capacity + m
    BY <2>3, <2>4, <2>5
  <2>7. y + (tok - paid) <= Capacity + m
    <3>1. y = x + paid /\ tok \in Nat
      BY <1>1, <1>2, <2>5
    <3>2. QED
      BY <1>2, <2>6, <3>1
  <2>8. Cardinality(Since(B, t)) * Cost = y
    BY <1>9, <2>1, <2>5
  <2>9. QED
    BY <2>4, <2>7, <2>8
<1>11. ASSUME NEW t \in 0 .. when, NEW u \in 0 .. when, t <= u
       PROVE  Cardinality(Within(B, t, u)) * Cost <= Capacity + (u - t) * PerTick
  <2>1. CASE u < when
    <3>1. \A i \in new : ~(B[i].at <= u)
      BY <1>1, <1>5, <2>1
    <3>2. \A i \in 1 .. Len(A) : B[i] = A[i]
      BY <1>4
    <3> HIDE DEF new
    <3>3. Within(B, t, u) = Within(A, t, u)
      BY <1>7, <3>1, <3>2 DEF Within
    <3>4. QED
      BY <1>11, <3>3 DEF BucketOK
  <2>2. CASE ~(u < when)
    <3>1. u = when
      BY <1>1, <2>2
    <3>2. PICK v \in Nat, w \in Nat :
             v = Cardinality(Within(B, t, u)) /\ w = Cardinality(Since(B, t)) /\ v <= w
      BY <1>4, Counted
    <3>3. v * Cost <= w * Cost /\ v * Cost \in Nat /\ w * Cost \in Nat
      BY <1>2, <3>2, CostMonotone
    <3>4. w * Cost + (tok - paid) <= Capacity + (when - t) * PerTick
      BY <1>10, <3>2
    <3>5. tok - paid >= 0
      BY <1>1, <1>3
    <3>6. PICK m \in Nat : m = (when - t) * PerTick
      <4>1. when - t \in Nat
        BY <1>1
      <4>2. \A k, l \in Nat : k * l \in Nat
        OBVIOUS
      <4>3. QED
        BY <1>2, <4>1, <4>2
    <3>7. PICK x \in Nat, y \in Nat : x = v * Cost /\ y = w * Cost /\ x <= y
      BY <3>3
    <3>8. PICK r \in Nat : r = tok - paid
      <4>1. tok \in Nat
        BY <1>1, <1>2
      <4>2. QED
        BY <3>5, <4>1
    <3>9. y + r <= Capacity + m
      BY <3>4, <3>6, <3>7, <3>8
    <3>10. x <= Capacity + m
      <4>1. x <= y
        BY <3>7
      <4>2. QED
        BY <1>2, <3>9, <4>1
    <3>11. QED
      BY <3>1, <3>2, <3>6, <3>7, <3>10
  <2>3. QED
    BY <2>1, <2>2
<1>12. \A i \in 1 .. Len(B) : B[i].at <= when
  BY <1>1, <1>4, <1>5, <1>7
<1>13. tok - paid \in 0 .. Capacity
  BY <1>1, <1>2, <1>3
<1>14. BucketOK(B, tok - paid, when)
  BY <1>1, <1>4, <1>10, <1>11, <1>12, <1>13 DEF BucketOK
<1>15. QED
  BY <1>3, <1>14 DEF B
-----------------------------------------------------------------------------
(* A sequence is its entries. *)
LEMMA SameEntries ==
    ASSUME NEW S, NEW a \in Seq(S), NEW b \in Seq(S), Len(a) = Len(b),
           \A i \in 1 .. Len(a) : a[i] = b[i]
    PROVE  a = b
<1>1. a = [i \in 1 .. Len(a) |-> a[i]]
  OBVIOUS
<1>2. b = [i \in 1 .. Len(b) |-> b[i]]
  OBVIOUS
<1>3. QED
  BY <1>1, <1>2

(* A concatenation, entry by entry. *)
Joined(s, a, b) ==
    /\ Len(s) = Len(a) + Len(b)
    /\ \A i \in 1 .. Len(a) : s[i] = a[i]
    /\ \A i \in 1 .. Len(b) : s[Len(a) + i] = b[i]

(* That is what \o does. *)
LEMMA ConcatAt ==
    ASSUME NEW S, NEW a \in Seq(S), NEW b \in Seq(S)
    PROVE  a \o b \in Seq(S) /\ Joined(a \o b, a, b)
<1>1. /\ a \o b \in Seq(S) /\ Len(a \o b) = Len(a) + Len(b)
      /\ \A i \in 1 .. Len(a) : (a \o b)[i] = a[i]
      /\ \A i \in Len(a) + 1 .. Len(a) + Len(b) : (a \o b)[i] = b[i - Len(a)]
  OBVIOUS
<1>2. \A i \in 1 .. Len(b) : Len(a) + i \in Len(a) + 1 .. Len(a) + Len(b) /\ (Len(a) + i) - Len(a) = i
  OBVIOUS
<1>3. \A i \in 1 .. Len(b) : (a \o b)[Len(a) + i] = b[i]
  <2>1. TAKE i \in 1 .. Len(b)
  <2>2. PICK j \in Len(a) + 1 .. Len(a) + Len(b) : j = Len(a) + i /\ j - Len(a) = i
    BY <1>2
  <2>3. (a \o b)[j] = b[j - Len(a)]
    BY <1>1
  <2>4. QED
    BY <2>2, <2>3
<1>4. QED
  BY <1>1, <1>3 DEF Joined

(* A sequence and one more, entry by entry. *)
Extended(s, a, x) == Len(s) = Len(a) + 1 /\ s[Len(a) + 1] = x /\ \A i \in 1 .. Len(a) : s[i] = a[i]

(* That is what Append does, and \o of one. *)
LEMMA AppendAt ==
    ASSUME NEW S, NEW a \in Seq(S), NEW x \in S
    PROVE  /\ Append(a, x) \in Seq(S) /\ Extended(Append(a, x), a, x)
           /\ a \o <<x>> = Append(a, x)
<1>1. Append(a, x) \in Seq(S)
  OBVIOUS
<1>2. Len(Append(a, x)) = Len(a) + 1 /\ Append(a, x)[Len(a) + 1] = x
  OBVIOUS
<1>3. \A i \in 1 .. Len(a) : Append(a, x)[i] = a[i]
  OBVIOUS
<1>4. a \o <<x>> = Append(a, x)
  OBVIOUS
<1>5. QED
  BY <1>1, <1>2, <1>3, <1>4 DEF Extended

-----------------------------------------------------------------------------
(* The bucket after the refill up to now. *)
LEMMA RefilledOK ==
    ASSUME GateTypeOK, BucketInv
    PROVE  /\ now \in Nat /\ Refilled \in Nat /\ tokens \in Nat /\ admitted \in Seq(Admissions)
           /\ BucketOK(admitted, Refilled, now)
<1>1. now \in Nat /\ last \in Nat /\ last <= now /\ Capacity \in Nat
  BY Limits DEF GateTypeOK, BucketInv, BucketOK
<1>2. PICK A, tok, when : A = admitted /\ tok = tokens /\ when = last
  OBVIOUS
<1>3. PICK d \in Nat : d = now - last /\ last + d = now
  <2>1. now - last \in Nat /\ last + (now - last) = now
    BY <1>1
  <2>2. QED
    BY <2>1
<1>4. BucketOK(A, tok, when)
  BY <1>2 DEF BucketInv
<1>5. BucketOK(A, Smaller(Capacity, tok + d * PerTick), when + d)
  BY <1>4, RefillOK
<1>6. BucketOK(admitted, Refilled, now)
  BY <1>2, <1>3, <1>5 DEF Refilled
<1>7. Refilled \in 0 .. Capacity /\ tokens \in 0 .. Capacity /\ admitted \in Seq(Admissions)
  BY <1>2, <1>4, <1>6 DEF BucketOK
<1>8. QED
  BY <1>1, <1>6, <1>7

(* try_consume keeps the books when it refuses. *)
LEMMA RefillKeeps ==
    ASSUME GateTypeOK, BucketInv, Refill, UNCHANGED <<now, admitted>>
    PROVE  BucketInv'
<1>1. BucketOK(admitted, Refilled, now) /\ now \in Nat
  BY RefilledOK
<1>2. tokens' = Refilled /\ last' = now /\ admitted' = admitted /\ now' = now
  BY DEF Refill
<1>3. BucketOK(admitted', tokens', last') /\ last' <= now'
  BY <1>1, <1>2
<1>4. QED
  BY <1>3 DEF BucketInv, BucketOK, Since, Within

(* try_consume keeps the books when it spends a token. *)
LEMMA ConsumeKeeps ==
    ASSUME GateTypeOK, BucketInv, NEW c \in Calls, Refilled >= Cost, Consume(c), UNCHANGED now
    PROVE  BucketInv'
<1>1. /\ BucketOK(admitted, Refilled, now) /\ now \in Nat /\ Refilled \in Nat
      /\ admitted \in Seq(Admissions)
  BY RefilledOK
<1>2. PICK x \in Admissions : x = [call |-> c, at |-> now] /\ x.at = now
  <2>1. [call |-> c, at |-> now] \in Admissions
    BY <1>1 DEF Admissions
  <2>2. QED
    BY <2>1
<1>3. admitted' = admitted \o <<x>>
  <2>1. admitted' = Append(admitted, x)
    BY <1>2 DEF Consume
  <2>2. QED
    BY <1>1, <2>1, AppendAt
<1>4. PICK A, tok, when : A = admitted /\ tok = Refilled /\ when = now
  OBVIOUS
<1>5. PICK X \in Seq(Admissions) : X = <<x>> /\ Len(X) = 1 /\ (\A i \in 1 .. Len(X) : X[i].at = when)
  <2>1. PICK X \in Seq(Admissions) : X = <<x>> /\ Len(X) = 1 /\ X[1] = x
    <3>1. <<x>> \in Seq(Admissions) /\ Len(<<x>>) = 1 /\ <<x>>[1] = x
      OBVIOUS
    <3>2. QED
      BY <3>1
  <2>2. \A i \in 1 .. Len(X) : X[i] = x
    BY <2>1
  <2>3. x.at = when
    BY <1>2, <1>4
  <2>4. QED
    BY <2>1, <2>2, <2>3
<1>6. Len(X) * Cost = Cost
  <2>1. 1 * Cost = Cost
    BY Limits
  <2>2. QED
    BY <1>5, <2>1
<1>7. BucketOK(A \o X, tok - Len(X) * Cost, when)
  <2>1. Len(X) * Cost <= tok
    BY <1>1, <1>4, <1>6, Limits
  <2>2. QED
    BY <1>1, <1>4, <1>5, <2>1, SpendOK
<1>8. admitted' = A \o X /\ tokens' = tok - Len(X) * Cost /\ last' = when /\ now' = when
  BY <1>3, <1>4, <1>5, <1>6 DEF Consume
<1>9. BucketOK(admitted', tokens', last') /\ last' <= now'
  BY <1>1, <1>4, <1>7, <1>8
<1>10. QED
  BY <1>9 DEF BucketInv, BucketOK, Since, Within
-----------------------------------------------------------------------------
(* The calls accepted, in the order in which they are let through. *)
Order(A, q) == [i \in DOMAIN A |-> A[i].call] \o q

(* Entry by entry. *)
InOrder(o, A, q) ==
    /\ Len(o) = Len(A) + Len(q)
    /\ \A i \in 1 .. Len(A) : o[i] = A[i].call
    /\ \A i \in 1 .. Len(q) : o[Len(A) + i] = q[i]

(* It is a sequence of calls. *)
LEMMA OrderAt ==
    ASSUME NEW A \in Seq(Admissions), NEW q \in Seq(Calls)
    PROVE  Order(A, q) \in Seq(Calls) /\ InOrder(Order(A, q), A, q)
<1>1. PICK n \in Nat : n = Len(A) /\ DOMAIN A = 1 .. n
  OBVIOUS
<1>2. \A i \in 1 .. n : A[i] \in Admissions
  BY <1>1
<1>3. \A i \in 1 .. n : A[i].call \in Calls
  BY <1>2 DEF Admissions
<1>4. PICK f : f = [i \in DOMAIN A |-> A[i].call]
  OBVIOUS
<1>5. f \in [1 .. n -> Calls] /\ \A i \in 1 .. n : f[i] = A[i].call
  BY <1>1, <1>3, <1>4
<1>6. f \in Seq(Calls) /\ Len(f) = n
  BY <1>5
<1>7. /\ f \o q \in Seq(Calls) /\ Len(f \o q) = n + Len(q)
      /\ \A i \in 1 .. n : (f \o q)[i] = f[i]
      /\ \A i \in 1 .. Len(q) : (f \o q)[n + i] = q[i]
  <2>1. /\ f \o q \in Seq(Calls) /\ Len(f \o q) = Len(f) + Len(q)
        /\ \A i \in 1 .. Len(f) : (f \o q)[i] = f[i]
        /\ \A i \in 1 .. Len(q) : (f \o q)[Len(f) + i] = q[i]
    <3>1. f \o q \in Seq(Calls) /\ Joined(f \o q, f, q)
      BY <1>6, ConcatAt
    <3>2. QED
      BY <3>1 DEF Joined
  <2>2. QED
    BY <1>6, <2>1, Zenon
<1>8. QED
  BY <1>1, <1>4, <1>5, <1>7 DEF Order, InOrder

(* Draining the queue's head changes nothing about the order. *)
LEMMA DrainKeepsOrder ==
    ASSUME NEW A \in Seq(Admissions), NEW q \in Seq(Calls), q # <<>>,
           NEW x \in Admissions, x.call = Head(q)
    PROVE  Order(Append(A, x), Tail(q)) = Order(A, q)
<1>1. PICK n \in Nat : n = Len(A)
  OBVIOUS
<1>2. PICK k \in Nat, t \in Seq(Calls) : /\ t = Tail(q) /\ Len(t) = k /\ Len(q) = k + 1
                                         /\ \A i \in 1 .. k : t[i] = q[i + 1]
  <2>1. PICK m \in Nat : m = Len(q) /\ m > 0
    OBVIOUS
  <2>2. m - 1 \in Nat /\ (m - 1) + 1 = m
    BY <2>1
  <2>3. Tail(q) \in Seq(Calls) /\ Len(Tail(q)) = Len(q) - 1
    OBVIOUS
  <2>4. \A i \in 1 .. m - 1 : Tail(q)[i] = q[i + 1]
    BY <2>1
  <2>5. QED
    BY <2>1, <2>2, <2>3, <2>4
<1>3. Head(q) = q[1]
  OBVIOUS
<1>4. PICK B \in Seq(Admissions) : /\ B = Append(A, x) /\ Len(B) = n + 1 /\ B[n + 1] = x
                                   /\ \A i \in 1 .. n : B[i] = A[i]
  <2>1. Append(A, x) \in Seq(Admissions) /\ Extended(Append(A, x), A, x)
    BY AppendAt
  <2>2. QED
    BY <1>1, <2>1 DEF Extended
<1>5. PICK o \in Seq(Calls) : /\ o = Order(B, t) /\ Len(o) = n + 1 + k
                              /\ \A i \in 1 .. n + 1 : o[i] = B[i].call
                              /\ \A i \in 1 .. k : o[n + 1 + i] = t[i]
  <2>1. Order(B, t) \in Seq(Calls) /\ InOrder(Order(B, t), B, t)
    BY OrderAt
  <2>2. PICK m \in Nat : m = Len(B) /\ m = n + 1
    BY <1>4
  <2>3. Len(t) = k
    BY <1>2
  <2>4. /\ Len(Order(B, t)) = m + k
        /\ \A i \in 1 .. m : Order(B, t)[i] = B[i].call
        /\ \A i \in 1 .. k : Order(B, t)[m + i] = t[i]
    BY <2>1, <2>2, <2>3, Zenon DEF InOrder
  <2>5. QED
    BY <2>1, <2>2, <2>4, Zenon
<1>6. PICK p \in Seq(Calls) : /\ p = Order(A, q) /\ Len(p) = n + (k + 1)
                              /\ \A i \in 1 .. n : p[i] = A[i].call
                              /\ \A i \in 1 .. k + 1 : p[n + i] = q[i]
  <2>1. Order(A, q) \in Seq(Calls) /\ InOrder(Order(A, q), A, q)
    BY OrderAt
  <2>2. QED
    BY <1>1, <1>2, <2>1 DEF InOrder
<1>7. \A i \in 1 .. n + 1 + k : o[i] = p[i]
  <2>1. TAKE i \in 1 .. n + 1 + k
  <2>2. CASE i <= n
    <3>1. i \in 1 .. n /\ i \in 1 .. n + 1
      BY <2>2
    <3>2. o[i] = B[i].call /\ B[i] = A[i] /\ p[i] = A[i].call
      BY <1>4, <1>5, <1>6, <3>1
    <3>3. QED
      BY <3>2
  <2>3. CASE i = n + 1
    <3>1. 1 \in 1 .. k + 1 /\ n + 1 \in 1 .. n + 1
      OBVIOUS
    <3>2. p[n + 1] = q[1] /\ o[n + 1] = B[n + 1].call
      BY <1>5, <1>6, <3>1
    <3>3. QED
      BY <1>3, <1>4, <2>3, <3>2
  <2>4. CASE n + 1 < i
    <3>1. PICK j \in 1 .. k : i = n + 1 + j /\ i = n + (j + 1) /\ j + 1 \in 1 .. k + 1
      <4>1. i - (n + 1) \in 1 .. k /\ i = n + 1 + (i - (n + 1))
        BY <2>4
      <4>2. PICK j \in 1 .. k : i = n + 1 + j
        BY <4>1
      <4>3. i = n + (j + 1) /\ j + 1 \in 1 .. k + 1
        BY <4>2
      <4>4. QED
        BY <4>2, <4>3
    <3>2. o[i] = t[j] /\ t[j] = q[j + 1]
      BY <1>2, <1>5, <3>1
    <3>3. p[i] = q[j + 1]
      BY <1>6, <3>1
    <3>4. QED
      BY <3>2, <3>3
  <2>5. QED
    BY <2>2, <2>3, <2>4
<1>8. o = p
  <2>1. Len(o) = Len(p) /\ Len(o) = n + 1 + k
    BY <1>5, <1>6
  <2>2. \A i \in 1 .. Len(o) : o[i] = p[i]
    BY <1>7, <2>1
  <2>3. QED
    BY <2>1, <2>2, SameEntries
<1>9. QED
  BY <1>2, <1>4, <1>5, <1>6, <1>8

(* A call that is put off goes to the end of the order. *)
LEMMA DeferredLast ==
    ASSUME NEW A \in Seq(Admissions), NEW q \in Seq(Calls), NEW c \in Calls
    PROVE  Order(A, Append(q, c)) = Append(Order(A, q), c)
<1>1. PICK n \in Nat, k \in Nat : n = Len(A) /\ k = Len(q)
  OBVIOUS
<1>2. PICK r \in Seq(Calls) : /\ r = Append(q, c) /\ Len(r) = k + 1 /\ r[k + 1] = c
                              /\ \A i \in 1 .. k : r[i] = q[i]
  <2>1. Append(q, c) \in Seq(Calls) /\ Extended(Append(q, c), q, c)
    BY AppendAt
  <2>2. QED
    BY <1>1, <2>1 DEF Extended
<1>3. PICK o \in Seq(Calls) : /\ o = Order(A, q) /\ Len(o) = n + k
                              /\ \A i \in 1 .. n : o[i] = A[i].call
                              /\ \A i \in 1 .. k : o[n + i] = q[i]
  <2>1. Order(A, q) \in Seq(Calls) /\ InOrder(Order(A, q), A, q)
    BY OrderAt
  <2>2. QED
    BY <1>1, <2>1 DEF InOrder
<1>4. PICK p \in Seq(Calls) : /\ p = Order(A, r) /\ Len(p) = n + (k + 1)
                              /\ \A i \in 1 .. n : p[i] = A[i].call
                              /\ \A i \in 1 .. k + 1 : p[n + i] = r[i]
  <2>1. Order(A, r) \in Seq(Calls) /\ InOrder(Order(A, r), A, r)
    BY OrderAt
  <2>2. QED
    BY <1>1, <1>2, <2>1 DEF InOrder
<1>5. PICK e \in Seq(Calls) : /\ e = Append(o, c) /\ Len(e) = n + k + 1 /\ e[n + k + 1] = c
                              /\ \A i \in 1 .. n + k : e[i] = o[i]
  <2>1. Append(o, c) \in Seq(Calls) /\ Extended(Append(o, c), o, c)
    BY AppendAt
  <2>2. QED
    BY <1>3, <2>1 DEF Extended
<1>6. \A i \in 1 .. n + k + 1 : p[i] = e[i]
  <2>1. TAKE i \in 1 .. n + k + 1
  <2>2. CASE i <= n
    <3>1. i \in 1 .. n /\ i \in 1 .. n + k
      BY <2>2
    <3>2. QED
      BY <1>3, <1>4, <1>5, <3>1
  <2>3. CASE n < i /\ i <= n + k
    <3>1. PICK j \in 1 .. k : i = n + j
      <4>1. i - n \in 1 .. k /\ i = n + (i - n)
        BY <2>3
      <4>2. QED
        BY <4>1
    <3>2. p[n + j] = r[j] /\ r[j] = q[j] /\ o[n + j] = q[j] /\ e[n + j] = o[n + j]
      BY <1>2, <1>3, <1>4, <1>5, <3>1
    <3>3. QED
      BY <3>1, <3>2
  <2>4. CASE i = n + k + 1
    <3>1. PICK j \in 1 .. k + 1 : j = k + 1 /\ i = n + j
      BY <2>4
    <3>2. p[n + j] = r[j] /\ r[j] = c
      BY <1>2, <1>4, <3>1
    <3>3. e[i] = c
      BY <1>5, <2>4
    <3>4. QED
      BY <3>1, <3>2, <3>3
  <2>5. i <= n \/ (n < i /\ i <= n + k) \/ i = n + k + 1
    OBVIOUS
  <2>6. QED
    BY <2>2, <2>3, <2>4, <2>5
<1>7. Len(p) = n + k + 1 /\ Len(e) = n + k + 1
  BY <1>4, <1>5
<1>8. p = e
  BY <1>6, <1>7, SameEntries
<1>9. QED
  BY <1>2, <1>3, <1>4, <1>5, <1>8

(* So does a call that runs with nobody waiting. *)
LEMMA RunLast ==
    ASSUME NEW A \in Seq(Admissions), NEW x \in Admissions
    PROVE  Order(A \o <<x>>, <<>>) = Append(Order(A, <<>>), x.call)
<1>1. PICK n \in Nat : n = Len(A)
  OBVIOUS
<1>2. PICK z \in Seq(Calls) : z = <<>> /\ Len(z) = 0
  <2>1. <<>> \in Seq(Calls) /\ Len(<<>>) = 0
    OBVIOUS
  <2>2. QED
    BY <2>1
<1>3. PICK B \in Seq(Admissions) : /\ B = A \o <<x>> /\ Len(B) = n + 1 /\ B[n + 1] = x
                                   /\ \A i \in 1 .. n : B[i] = A[i]
  <2>1. /\ Append(A, x) \in Seq(Admissions) /\ Extended(Append(A, x), A, x)
        /\ A \o <<x>> = Append(A, x)
    BY AppendAt
  <2>2. QED
    BY <1>1, <2>1 DEF Extended
<1>4. x.call \in Calls
  BY DEF Admissions
<1>5. PICK o \in Seq(Calls) : /\ o = Order(A, z) /\ Len(o) = n
                              /\ \A i \in 1 .. n : o[i] = A[i].call
  <2>1. Order(A, z) \in Seq(Calls) /\ InOrder(Order(A, z), A, z)
    BY OrderAt
  <2>2. n + 0 = n
    OBVIOUS
  <2>3. QED
    BY <1>1, <1>2, <2>1, <2>2 DEF InOrder
<1>6. PICK p \in Seq(Calls) : /\ p = Order(B, z) /\ Len(p) = n + 1
                              /\ \A i \in 1 .. n + 1 : p[i] = B[i].call
  <2>1. Order(B, z) \in Seq(Calls) /\ InOrder(Order(B, z), B, z)
    BY OrderAt
  <2>2. (n + 1) + 0 = n + 1
    OBVIOUS
  <2>3. Len(B) = n + 1 /\ Len(z) = 0
    BY <1>2, <1>3, Zenon
  <2>4. QED
    BY <2>1, <2>2, <2>3 DEF InOrder
<1>7. PICK e \in Seq(Calls) : /\ e = Append(o, x.call) /\ Len(e) = n + 1 /\ e[n + 1] = x.call
                              /\ \A i \in 1 .. n : e[i] = o[i]
  <2>1. PICK c \in Calls : c = x.call
    BY <1>4
  <2>2. Append(o, c) \in Seq(Calls) /\ Extended(Append(o, c), o, c)
    BY AppendAt
  <2>3. QED
    BY <1>5, <2>1, <2>2 DEF Extended
<1>8. \A i \in 1 .. n + 1 : p[i] = e[i]
  <2>1. TAKE i \in 1 .. n + 1
  <2>2. p[i] = B[i].call
    BY <1>6
  <2>3. CASE i \in 1 .. n
    <3>1. B[i] = A[i] /\ e[i] = o[i] /\ o[i] = A[i].call
      BY <1>3, <1>5, <1>7, <2>3
    <3>2. QED
      BY <2>2, <3>1
  <2>4. CASE i = n + 1
    <3>1. B[i] = x /\ e[i] = x.call
      BY <1>3, <1>7, <2>4
    <3>2. QED
      BY <2>2, <3>1
  <2>5. QED
    BY <2>3, <2>4
<1>9. p = e
  BY <1>6, <1>7, <1>8, SameEntries
<1>10. QED
  BY <1>2, <1>3, <1>5, <1>6, <1>7, <1>9

(* The accepted calls in the order in which they came. *)
Fifo(o, S) == Range(o) = S /\ \A i, j \in DOMAIN o : i < j => o[i] < o[j]
Accepted == {c \in Calls : outcome[c] \in {"run", "defer"}}

(* A newcomer is the last. *)
LEMMA NewcomerLast ==
    ASSUME NEW o \in Seq(Calls), NEW S, Fifo(o, S), NEW c \in Calls, \A d \in S : d < c
    PROVE  Fifo(Append(o, c), S \union {c})
<1>1. PICK n \in Nat : n = Len(o) /\ DOMAIN o = 1 .. n
  OBVIOUS
<1>2. PICK e \in Seq(Calls) : /\ e = Append(o, c) /\ DOMAIN e = 1 .. n + 1 /\ e[n + 1] = c
                              /\ \A i \in 1 .. n : e[i] = o[i]
  <2>1. Append(o, c) \in Seq(Calls) /\ Extended(Append(o, c), o, c)
    BY AppendAt
  <2>2. Append(o, c) \in Seq(Calls) => DOMAIN Append(o, c) = 1 .. Len(Append(o, c))
    OBVIOUS
  <2>3. QED
    BY <1>1, <2>1, <2>2 DEF Extended
<1>3. S = {o[i] : i \in 1 .. n}
  BY <1>1 DEF Fifo, Range
<1>4. \A i \in 1 .. n + 1 : i \in 1 .. n \/ i = n + 1
  OBVIOUS
<1>5. Range(e) = S \union {c}
  <2>1. \A i \in 1 .. n : i \in 1 .. n + 1
    OBVIOUS
  <2>2. n + 1 \in 1 .. n + 1
    OBVIOUS
  <2>3. QED
    BY <1>2, <1>3, <1>4, <2>1, <2>2 DEF Range
<1>6. \A i, j \in 1 .. n + 1 : i < j => e[i] < e[j]
  <2>1. TAKE i, j \in 1 .. n + 1
  <2>2. HAVE i < j
  <2>3. i \in 1 .. n
    BY <2>2
  <2>4. CASE j \in 1 .. n
    BY <1>1, <1>2, <2>2, <2>3, <2>4 DEF Fifo
  <2>5. CASE j = n + 1
    BY <1>2, <1>3, <2>3, <2>5
  <2>6. QED
    BY <1>4, <2>4, <2>5
<1>7. QED
  BY <1>2, <1>5, <1>6 DEF Fifo

-----------------------------------------------------------------------------
(* The invariant of a channel. *)
GateInv == GateTypeOK /\ BucketInv /\ InTurn /\ FifoAdmission /\ WorkConserving

(* It holds of a full bucket that nobody has asked. *)
LEMMA GateInvInit == GateInit => GateInv
<1>1. SUFFICES ASSUME GateInit PROVE GateInv
  OBVIOUS
<1>2. /\ now = 0 /\ last = 0 /\ tokens = Capacity /\ queue = <<>> /\ admitted = <<>>
      /\ thread = [c \in Calls |-> "new"] /\ outcome = [c \in Calls |-> "undecided"]
  BY <1>1 DEF GateInit
<1>3. <<>> \in Seq(Calls) /\ <<>> \in Seq(Admissions) /\ Len(<<>>) = 0
  OBVIOUS
<1>4. GateTypeOK
  BY <1>2, <1>3 DEF GateTypeOK, Undecided
<1>5. BucketInv
  <2>1. Capacity \in Nat /\ PerTick \in Nat /\ Cost \in Nat
    BY Limits
  <2>2. PICK A \in Seq(Admissions) : A = admitted /\ Len(A) = 0
    BY <1>2, <1>3
  <2>3. \A t, u : Since(A, t) = {} /\ Within(A, t, u) = {}
    BY <2>2 DEF Since, Within
  <2>4. \A t, u : Cardinality(Since(A, t)) = 0 /\ Cardinality(Within(A, t, u)) = 0
    BY <2>3, FS_EmptySet
  <2>5. 0 * Cost = 0 /\ (0 - 0) * PerTick = 0
    BY <2>1
  <2>6. \A t \in 0 .. 0 : t = 0
    OBVIOUS
  <2>7. BucketOK(A, Capacity, 0)
    <3>1. \A i \in 1 .. Len(A) : A[i].at <= 0
      BY <2>2
    <3>2. \A t \in 0 .. 0 : Cardinality(Since(A, t)) * Cost + Capacity <= Capacity + (0 - t) * PerTick
      BY <2>1, <2>4, <2>5, <2>6
    <3>3. \A t, u \in 0 .. 0 : t <= u =>
             Cardinality(Within(A, t, u)) * Cost <= Capacity + (u - t) * PerTick
      BY <2>1, <2>4, <2>5, <2>6
    <3>4. QED
      BY <2>1, <2>2, <3>1, <3>2, <3>3 DEF BucketOK
  <2>8. QED
    BY <1>2, <2>2, <2>7 DEF BucketInv
<1>6. InTurn
  BY <1>2 DEF InTurn, Undecided
<1>7. FifoAdmission
  <2>1. PICK A \in Seq(Admissions), q \in Seq(Calls) : A = admitted /\ q = queue /\ Len(A) = 0 /\ Len(q) = 0
    BY <1>2, <1>3
  <2>2. PICK o \in Seq(Calls) : o = Order(A, q) /\ Len(o) = 0
    <3>1. Order(A, q) \in Seq(Calls) /\ InOrder(Order(A, q), A, q)
      BY OrderAt
    <3>2. 0 + 0 = 0
      OBVIOUS
    <3>3. QED
      BY <2>1, <3>1, <3>2 DEF InOrder
  <2>3. DOMAIN o = {}
    BY <2>2
  <2>4. Accepted = {}
    BY <1>2 DEF Accepted
  <2>5. Fifo(o, Accepted)
    BY <2>3, <2>4 DEF Fifo, Range
  <2>6. QED
    BY <2>1, <2>2, <2>5 DEF FifoAdmission, Fifo, Order, Accepted
<1>8. WorkConserving
  BY <1>2, <1>3, Limits DEF WorkConserving
<1>9. QED
  BY <1>4, <1>5, <1>6, <1>7, <1>8 DEF GateInv

(* Whoever moves on keeps the turns, unless an earlier caller is undecided. *)
LEMMA TurnKept ==
    ASSUME GateTypeOK, InTurn, NEW c \in Calls,
           NEW x \in Locked \union {"running"} \union Returned,
           thread' = [thread EXCEPT ![c] = x],
           \A d \in Calls : d # c => outcome'[d] = outcome[d],
           x \in Locked <=> outcome'[c] = "undecided",
           x \in Locked => thread[c] \in Undecided,
           \A d \in Calls : d < c => thread[d] \notin Undecided
    PROVE  thread' \in [Calls -> Undecided \union {"running"} \union Returned] /\ InTurn'
<1>1. \A d \in Calls : thread'[d] = (IF d = c THEN x ELSE thread[d])
  BY DEF GateTypeOK
<1>2. thread' \in [Calls -> Undecided \union {"running"} \union Returned]
  BY DEF GateTypeOK, Undecided
<1>3. x \in Undecided <=> x \in Locked
  BY DEF Undecided, Locked, Returned
<1>4. \A d \in Calls : thread'[d] \in Undecided <=> outcome'[d] = "undecided"
  BY <1>1, <1>3 DEF InTurn
<1>5. ASSUME NEW a \in Calls, NEW b \in Calls, a < b, thread'[a] \in Undecided
      PROVE  thread'[b] = "new"
  <2>1. thread[a] \in Undecided
    BY <1>1, <1>3, <1>5
  <2>2. thread[b] = "new" /\ b # c
    BY <1>5, <2>1 DEF InTurn
  <2>3. QED
    BY <1>1, <2>2
<1>6. QED
  BY <1>2, <1>4, <1>5 DEF InTurn

(* A caller gets the lock. *)
LEMMA LockStep ==
    ASSUME GateInv, NEW c \in Calls, Lock(c)
    PROVE  GateInv'
<1>1. GateTypeOK /\ BucketInv /\ InTurn /\ FifoAdmission /\ WorkConserving
  BY DEF GateInv
<1>2. /\ thread[c] = "new" /\ thread' = [thread EXCEPT ![c] = "draining"]
      /\ UNCHANGED <<now, tokens, last, queue, outcome, admitted>>
  BY DEF Lock
<1>3. \A d \in Calls : d < c => thread[d] \notin Undecided
  <2>1. \A d \in Calls : d < c => d \in 1 .. c - 1
    BY Limits DEF Calls
  <2>2. QED
    BY <2>1 DEF Lock, Undecided
<1>4. thread' \in [Calls -> Undecided \union {"running"} \union Returned] /\ InTurn'
  <2>1. thread[c] \in Undecided /\ "draining" \in Locked
    BY <1>2 DEF Undecided, Locked
  <2>2. outcome'[c] = "undecided"
    BY <1>1, <1>2, <2>1 DEF InTurn
  <2>3. QED
    BY <1>1, <1>2, <1>3, <2>1, <2>2, TurnKept
<1>5. GateTypeOK'
  BY <1>1, <1>2, <1>4 DEF GateTypeOK
<1>6. BucketInv'
  BY <1>1, <1>2 DEF BucketInv, BucketOK, Since, Within
<1>7. FifoAdmission'
  BY <1>1, <1>2 DEF FifoAdmission
<1>8. WorkConserving'
  <2>1. thread'[c] = "draining"
    BY <1>1, <1>2 DEF GateTypeOK
  <2>2. QED
    BY <1>1, <1>2, <2>1 DEF WorkConserving
<1>9. QED
  BY <1>4, <1>5, <1>6, <1>7, <1>8 DEF GateInv

(* It drains a deferred call. *)
LEMMA DrainStep ==
    ASSUME GateInv, NEW c \in Calls, DrainOne(c)
    PROVE  GateInv'
<1>1. GateTypeOK /\ BucketInv /\ InTurn /\ FifoAdmission /\ WorkConserving
  BY DEF GateInv
<1>2. /\ thread[c] = "draining" /\ queue # <<>> /\ Refilled >= Cost /\ Consume(Head(queue))
      /\ queue' = Tail(queue) /\ UNCHANGED <<now, thread, outcome>>
  BY DEF DrainOne, Drainable
<1>3. PICK q \in Seq(Calls) : q = queue /\ q # <<>>
  BY <1>1, <1>2 DEF GateTypeOK
<1>4. Head(q) \in Calls /\ Tail(q) \in Seq(Calls) /\ Len(Tail(q)) = Len(q) - 1
  BY <1>3
<1>5. GateTypeOK'
  BY <1>1, <1>2, <1>3, <1>4 DEF GateTypeOK
<1>6. BucketInv'
  BY <1>1, <1>2, <1>3, <1>4, ConsumeKeeps
<1>7. InTurn'
  BY <1>1, <1>2 DEF InTurn
<1>8. FifoAdmission'
  <2>1. PICK A \in Seq(Admissions) : A = admitted
    BY <1>1, RefilledOK
  <2>2. PICK x \in Admissions : x = [call |-> Head(q), at |-> now] /\ x.call = Head(q)
    <3>1. now \in Nat
      BY <1>1 DEF GateTypeOK
    <3>2. [call |-> Head(q), at |-> now] \in Admissions
      BY <1>4, <3>1 DEF Admissions
    <3>3. QED
      BY <3>2
  <2>3. admitted' = Append(A, x)
    BY <1>2, <1>3, <2>1, <2>2 DEF Consume
  <2>4. Order(Append(A, x), Tail(q)) = Order(A, q)
    BY <1>3, <2>2, DrainKeepsOrder
  <2>5. Order(admitted', queue') = Order(admitted, queue)
    BY <1>2, <1>3, <2>1, <2>3, <2>4
  <2>6. QED
    BY <1>1, <1>2, <2>5 DEF FifoAdmission, Order
<1>9. WorkConserving'
  <2>1. Len(q) \in Nat /\ Len(q) <= MaxQueue
    BY <1>1, <1>3 DEF WorkConserving
  <2>2. Len(Tail(q)) <= MaxQueue
    BY <1>4, <2>1, Limits
  <2>3. QED
    BY <1>2, <1>3, <2>2 DEF WorkConserving
<1>10. QED
  BY <1>5, <1>6, <1>7, <1>8, <1>9 DEF GateInv

(* It stops draining. *)
LEMMA DrainEndsStep ==
    ASSUME GateInv, NEW c \in Calls, DrainEnds(c)
    PROVE  GateInv'
<1>1. GateTypeOK /\ BucketInv /\ InTurn /\ FifoAdmission /\ WorkConserving
  BY DEF GateInv
<1>2. /\ thread[c] = "draining" /\ thread' = [thread EXCEPT ![c] = "deciding"]
      /\ UNCHANGED <<now, queue, outcome, admitted>>
  BY DEF DrainEnds
<1>3. \/ queue = <<>> /\ UNCHANGED <<tokens, last>>
      \/ queue # <<>> /\ Refill /\ ~(Refilled >= Cost)
  BY DEF DrainEnds, Drainable
<1>4. thread[c] \in Undecided /\ thread[c] # "new" /\ "deciding" \in Locked
  BY <1>2 DEF Undecided, Locked
<1>5. \A d \in Calls : d < c => thread[d] \notin Undecided
  BY <1>1, <1>4 DEF InTurn
<1>6. thread' \in [Calls -> Undecided \union {"running"} \union Returned] /\ InTurn'
  <2>1. outcome'[c] = "undecided"
    BY <1>1, <1>2, <1>4 DEF InTurn
  <2>2. QED
    BY <1>1, <1>2, <1>4, <1>5, <2>1, TurnKept
<1>7. GateTypeOK'
  BY <1>1, <1>2, <1>6 DEF GateTypeOK
<1>8. BucketInv'
  <2>1. CASE UNCHANGED <<tokens, last>>
    BY <1>1, <1>2, <2>1 DEF BucketInv, BucketOK, Since, Within
  <2>2. CASE Refill
    BY <1>1, <1>2, <2>2, RefillKeeps
  <2>3. QED
    BY <1>3, <2>1, <2>2
<1>9. FifoAdmission'
  BY <1>1, <1>2 DEF FifoAdmission
<1>10. WorkConserving'
  <2>1. queue' # <<>> => tokens' < Cost
    <3>1. Refilled \in Nat
      BY <1>1, RefilledOK
    <3>2. QED
      BY <1>2, <1>3, <3>1, Limits DEF Refill
  <2>2. QED
    BY <1>1, <1>2, <2>1 DEF WorkConserving
<1>11. QED
  BY <1>6, <1>7, <1>8, <1>9, <1>10 DEF GateInv

(* The caller that decides is accepted last or not at all. *)
LEMMA DecideFifo ==
    ASSUME GateInv, NEW c \in Calls, NEW choice, choice = Decision(Len(queue), Refilled),
           thread[c] = "deciding", outcome' = [outcome EXCEPT ![c] = choice],
           choice = "run" => Consume(c), choice # "run" => UNCHANGED admitted,
           queue' = IF choice = "defer" THEN Append(queue, c) ELSE queue
    PROVE  FifoAdmission'
<1>1. GateTypeOK /\ BucketInv /\ InTurn /\ FifoAdmission
  BY DEF GateInv
<1>2. PICK A \in Seq(Admissions), q \in Seq(Calls) : A = admitted /\ q = queue
  BY <1>1, RefilledOK DEF GateTypeOK
<1>3. PICK S : S = Accepted
  OBVIOUS
<1>4. PICK o \in Seq(Calls) : o = Order(A, q) /\ Fifo(o, S)
  <2>1. Order(A, q) \in Seq(Calls)
    BY OrderAt
  <2>2. Fifo(Order(admitted, queue), Accepted)
    BY <1>1 DEF FifoAdmission, Fifo, Order, Accepted
  <2>3. QED
    BY <1>2, <1>3, <2>1, <2>2
<1>5. thread[c] \in Undecided
  BY DEF Undecided, Locked
<1>6. \A d \in S : d < c
  <2>1. TAKE d \in S
  <2>2. d \in Calls /\ outcome[d] # "undecided"
    BY <1>3 DEF Accepted
  <2>3. thread[d] \notin Undecided /\ thread[d] # "new"
    BY <1>1, <2>2 DEF InTurn, Undecided
  <2>4. d # c /\ ~(c < d)
    BY <1>1, <1>5, <2>2, <2>3 DEF InTurn
  <2>5. QED
    BY <2>2, <2>4, Limits DEF Calls
<1>7. \A d \in Calls : outcome'[d] = (IF d = c THEN choice ELSE outcome[d])
  BY <1>1 DEF GateTypeOK
<1>8. c \notin S
  BY <1>1, <1>3, <1>5 DEF Accepted, InTurn
<1>9. Accepted' = (IF choice \in {"run", "defer"} THEN S \union {c} ELSE S)
  <2>1. Accepted' = {d \in Calls : outcome'[d] \in {"run", "defer"}}
    BY DEF Accepted
  <2>2. CASE choice \in {"run", "defer"}
    BY <1>3, <1>7, <2>1, <2>2 DEF Accepted
  <2>3. CASE choice \notin {"run", "defer"}
    BY <1>3, <1>7, <1>8, <2>1, <2>3 DEF Accepted
  <2>4. QED
    BY <2>2, <2>3
<1>10. Order(admitted', queue') = (IF choice \in {"run", "defer"} THEN Append(o, c) ELSE o)
  <2>1. CASE choice = "run"
    <3>1. Len(q) = 0
      BY <1>2, <2>1 DEF Decision
    <3>2. q = <<>> /\ queue' = <<>>
      BY <1>2, <2>1, <3>1
    <3>3. PICK x \in Admissions : x = [call |-> c, at |-> now] /\ x.call = c
      <4>1. now \in Nat
        BY <1>1 DEF GateTypeOK
      <4>2. [call |-> c, at |-> now] \in Admissions
        BY <4>1 DEF Admissions
      <4>3. QED
        BY <4>2
    <3>4. admitted' = A \o <<x>>
      <4>1. admitted' = Append(A, x)
        BY <1>2, <2>1, <3>3 DEF Consume
      <4>2. QED
        BY <4>1, AppendAt
    <3>5. Order(A \o <<x>>, <<>>) = Append(Order(A, <<>>), x.call)
      BY RunLast
    <3>6. QED
      BY <1>4, <2>1, <3>2, <3>3, <3>4, <3>5
  <2>2. CASE choice = "defer"
    <3>1. admitted' = A /\ queue' = Append(q, c)
      BY <1>2, <2>2
    <3>2. Order(A, Append(q, c)) = Append(Order(A, q), c)
      BY DeferredLast
    <3>3. QED
      BY <1>4, <2>2, <3>1, <3>2
  <2>3. CASE choice \notin {"run", "defer"}
    <3>1. admitted' = A /\ queue' = q
      BY <1>2, <2>3
    <3>2. QED
      BY <1>4, <2>3, <3>1
  <2>4. QED
    BY <2>1, <2>2, <2>3
<1>11. Fifo(Order(admitted', queue'), Accepted')
  <2>1. Fifo(Append(o, c), S \union {c})
    BY <1>4, <1>6, NewcomerLast
  <2>2. QED
    BY <1>4, <1>9, <1>10, <2>1
<1>12. QED
  BY <1>11 DEF FifoAdmission, Fifo, Order, Accepted

(* What waits when a caller has decided waits for a token. *)
LEMMA DecideWaits ==
    ASSUME GateInv, NEW c \in Calls, Decide(c)
    PROVE  Len(queue') <= MaxQueue /\ (queue' # <<>> => tokens' < Cost)
<1>1. GateTypeOK /\ BucketInv /\ InTurn /\ WorkConserving
  BY DEF GateInv
<1>2. PICK choice : choice = Decision(Len(queue), Refilled)
  OBVIOUS
<1>3. /\ thread[c] = "deciding"
      /\ queue' = IF choice = "defer" THEN Append(queue, c) ELSE queue
      /\ \/ choice = "run"
         \/ choice # "run" /\ queue = <<>> /\ tokens' = Refilled
         \/ choice # "run" /\ queue # <<>> /\ tokens' = tokens
  BY <1>2 DEF Decide, Refill
<1>4. PICK q \in Seq(Calls) : q = queue
  BY <1>1 DEF GateTypeOK
<1>5. \A d \in Calls : thread[d] # "draining"
  <2>1. TAKE d \in Calls
  <2>2. thread[c] \in Undecided /\ thread[c] # "new"
    BY <1>3 DEF Undecided, Locked
  <2>3. d < c => thread[d] \notin Undecided
    BY <1>1, <2>2 DEF InTurn
  <2>4. c < d => thread[d] = "new"
    BY <1>1, <2>2 DEF InTurn
  <2>5. d < c \/ c < d \/ d = c
    BY Limits DEF Calls
  <2>6. QED
    BY <1>3, <2>3, <2>4, <2>5 DEF Undecided, Locked
<1>6. Len(q) \in Nat /\ Len(q) <= MaxQueue /\ (q # <<>> => tokens < Cost)
  BY <1>1, <1>4, <1>5 DEF WorkConserving
<1>7. Refilled \in Nat /\ (q = <<>> <=> Len(q) = 0)
  BY <1>1, RefilledOK
<1>8. CASE choice = "run"
  <2>1. queue' = q /\ q = <<>>
    BY <1>2, <1>3, <1>4, <1>7, <1>8 DEF Decision
  <2>2. QED
    BY <1>6, <2>1
<1>9. CASE choice # "run"
  <2>1. tokens' < Cost
    <3>1. CASE q = <<>>
      <4>1. ~(Refilled >= Cost)
        BY <1>2, <1>4, <1>7, <1>9, <3>1 DEF Decision
      <4>2. QED
        BY <1>3, <1>4, <1>7, <1>9, <3>1, <4>1, Limits
    <3>2. CASE q # <<>>
      BY <1>3, <1>4, <1>6, <1>9, <3>2
    <3>3. QED
      BY <3>1, <3>2
  <2>2. Len(queue') <= MaxQueue
    <3>1. CASE choice = "defer"
      <4>1. Len(q) < MaxQueue
        BY <1>2, <1>4, <1>6, <3>1, Limits DEF Decision
      <4>2. queue' = Append(q, c) /\ Len(Append(q, c)) = Len(q) + 1
        BY <1>3, <1>4, <3>1
      <4>3. QED
        BY <1>6, <4>1, <4>2, Limits
    <3>2. CASE choice # "defer"
      BY <1>3, <1>4, <1>6, <3>2
    <3>3. QED
      BY <3>1, <3>2
  <2>3. QED
    BY <2>1, <2>2
<1>10. QED
  BY <1>8, <1>9

(* The caller's own call is run, rejected or put off. *)
LEMMA DecideStep ==
    ASSUME GateInv, NEW c \in Calls, Decide(c)
    PROVE  GateInv'
<1>1. GateTypeOK /\ BucketInv /\ InTurn /\ FifoAdmission /\ WorkConserving
  BY DEF GateInv
<1>2. PICK choice : choice = Decision(Len(queue), Refilled)
  OBVIOUS
<1>3. /\ thread[c] = "deciding" /\ thread' = [thread EXCEPT ![c] = "running"]
      /\ outcome' = [outcome EXCEPT ![c] = choice]
      /\ queue' = IF choice = "defer" THEN Append(queue, c) ELSE queue
      /\ now' = now
  BY <1>2 DEF Decide
<1>4. \/ choice = "run" /\ Consume(c)
      \/ choice # "run" /\ Refill /\ UNCHANGED admitted
      \/ choice # "run" /\ UNCHANGED <<tokens, last, admitted>>
  BY <1>2 DEF Decide
<1>5. choice \in {"run", "defer", "reject"}
  BY <1>2 DEF Decision
<1>6. \A d \in Calls : outcome'[d] = (IF d = c THEN choice ELSE outcome[d])
  BY <1>1, <1>3 DEF GateTypeOK
<1>7. thread' \in [Calls -> Undecided \union {"running"} \union Returned] /\ InTurn'
  <2>1. thread[c] \in Undecided /\ thread[c] # "new" /\ "running" \notin Locked
    BY <1>3 DEF Undecided, Locked
  <2>2. \A d \in Calls : d < c => thread[d] \notin Undecided
    BY <1>1, <2>1 DEF InTurn
  <2>3. outcome'[c] # "undecided"
    BY <1>5, <1>6
  <2>4. QED
    BY <1>1, <1>3, <1>6, <2>1, <2>2, <2>3, TurnKept
<1>8. GateTypeOK'
  <2>1. queue' \in Seq(Calls)
    BY <1>1, <1>3 DEF GateTypeOK
  <2>2. outcome' \in [Calls -> {"undecided", "run", "defer", "reject"}]
    BY <1>1, <1>3, <1>5 DEF GateTypeOK
  <2>3. QED
    BY <1>1, <1>3, <1>7, <2>1, <2>2 DEF GateTypeOK
<1>9. BucketInv'
  <2>1. CASE choice = "run" /\ Consume(c)
    <3>1. Refilled >= Cost
      BY <1>2, <2>1 DEF Decision
    <3>2. QED
      BY <1>1, <1>3, <2>1, <3>1, ConsumeKeeps
  <2>2. CASE Refill /\ UNCHANGED admitted
    BY <1>1, <1>3, <2>2, RefillKeeps
  <2>3. CASE UNCHANGED <<tokens, last, admitted>>
    BY <1>1, <1>3, <2>3 DEF BucketInv, BucketOK, Since, Within
  <2>4. QED
    BY <1>4, <2>1, <2>2, <2>3
<1>10. FifoAdmission'
  <2>1. (choice = "run" => Consume(c)) /\ (choice # "run" => UNCHANGED admitted)
    BY <1>4
  <2>2. QED
    BY <1>2, <1>3, <2>1, DecideFifo
<1>11. WorkConserving'
  BY DecideWaits DEF WorkConserving
<1>12. QED
  BY <1>7, <1>8, <1>9, <1>10, <1>11 DEF GateInv

(* Every step keeps it: off the lock the bucket and the order stay alone.   *)
LEMMA GateInvStep == GateInv /\ [GateNext]_gateVars => GateInv'
<1>1. SUFFICES ASSUME GateInv, [GateNext]_gateVars PROVE GateInv'
  OBVIOUS
<1>2. GateTypeOK /\ BucketInv /\ InTurn /\ FifoAdmission /\ WorkConserving
  BY <1>1 DEF GateInv
<1>3. ASSUME UNCHANGED <<tokens, last, queue, outcome, admitted>>, now' \in Nat, now <= now',
             thread' = thread
      PROVE  GateInv'
  <2>1. GateTypeOK'
    BY <1>2, <1>3 DEF GateTypeOK
  <2>2. BucketInv'
    <3>1. BucketOK(admitted, tokens, last)' /\ last \in Nat /\ last <= now /\ now \in Nat
      BY <1>2, <1>3 DEF BucketInv, BucketOK, Since, Within, GateTypeOK
    <3>2. last' <= now'
      BY <1>3, <3>1
    <3>3. QED
      BY <3>1, <3>2 DEF BucketInv
  <2>3. InTurn' /\ FifoAdmission' /\ WorkConserving'
    BY <1>2, <1>3 DEF InTurn, FifoAdmission, WorkConserving
  <2>4. QED
    BY <2>1, <2>2, <2>3 DEF GateInv
<1>4. now \in Nat /\ now <= now
  BY <1>2 DEF GateTypeOK
<1>5. CASE Tick
  <2>1. now' \in Nat /\ now <= now'
    BY <1>4, <1>5 DEF Tick
  <2>2. QED
    BY <1>3, <1>5, <2>1 DEF Tick
<1>6. ASSUME NEW c \in Calls, RunIsolated(c) PROVE GateInv'
  BY <1>3, <1>4, <1>6 DEF RunIsolated
<1>7. ASSUME NEW c \in Calls, Return(c) PROVE GateInv'
  <2>1. PICK end \in Returned : thread' = [thread EXCEPT ![c] = end]
    BY <1>7 DEF Return, Returned
  <2>2. /\ thread[c] = "running" /\ UNCHANGED <<now, tokens, last, queue, outcome, admitted>>
    BY <1>7 DEF Return
  <2>3. thread[c] \notin Undecided /\ thread[c] # "new" /\ end \notin Locked
    BY <2>1, <2>2 DEF Undecided, Locked, Returned
  <2>4. thread' \in [Calls -> Undecided \union {"running"} \union Returned] /\ InTurn'
    <3>1. \A d \in Calls : d < c => thread[d] \notin Undecided
      BY <1>2, <2>3 DEF InTurn
    <3>2. outcome'[c] # "undecided"
      BY <1>2, <2>2, <2>3 DEF InTurn
    <3>3. QED
      BY <1>2, <2>1, <2>2, <2>3, <3>1, <3>2, TurnKept
  <2>5. GateTypeOK' /\ BucketInv' /\ FifoAdmission'
    <3>1. GateTypeOK'
      BY <1>2, <2>2, <2>4 DEF GateTypeOK
    <3>2. BucketInv'
      BY <1>2, <2>2 DEF BucketInv, BucketOK, Since, Within
    <3>3. FifoAdmission'
      BY <1>2, <2>2 DEF FifoAdmission
    <3>4. QED
      BY <3>1, <3>2, <3>3
  <2>6. WorkConserving'
    <3>1. \A d \in Calls : thread'[d] = (IF d = c THEN end ELSE thread[d])
      BY <1>2, <2>1 DEF GateTypeOK
    <3>2. \A d \in Calls : thread[d] = "draining" => thread'[d] = "draining"
      BY <2>2, <3>1
    <3>3. QED
      BY <1>2, <2>2, <3>2 DEF WorkConserving
  <2>7. QED
    BY <2>4, <2>5, <2>6 DEF GateInv
<1>8. CASE UNCHANGED gateVars
  BY <1>3, <1>4, <1>8 DEF gateVars
<1>9. QED
  BY <1>1, <1>5, <1>6, <1>7, <1>8, LockStep, DrainStep, DrainEndsStep, DecideStep
     DEF GateNext, Thread, Quiet

(* It holds throughout. *)
THEOREM ChannelInvariance == GateSpec => []GateInv
<1>1. GateInit => GateInv
  BY GateInvInit
<1>2. GateInv /\ [GateNext]_gateVars => GateInv'
  BY GateInvStep
<1>3. QED
  BY <1>1, <1>2, PTL DEF GateSpec

(* The rate limit over any window of time, for any bucket, any number of    *)
(* callers and any interleaving of theirs.                                  *)
THEOREM RateIsLimited == GateSpec => []RateLimited
<1>1. ASSUME GateInv PROVE RateLimited
  <2>1. SUFFICES ASSUME NEW t \in 0 .. now, NEW u \in 0 .. now, t <= u
                 PROVE  Cardinality(AdmittedIn(t, u)) * Cost <= Capacity + (u - t) * PerTick
    BY DEF RateLimited
  <2>2. now \in Nat /\ last <= now
    BY <1>1 DEF GateInv, GateTypeOK, BucketInv
  <2>3. PICK A, tok, when : A = admitted /\ tok = tokens /\ when = last
    OBVIOUS
  <2>4. BucketOK(A, tok, when) /\ when \in Nat /\ A \in Seq(Admissions)
    BY <1>1, <2>3 DEF GateInv, BucketInv, BucketOK
  <2>5. PICK d \in Nat : when + d = now
    <3>1. now - last \in Nat /\ last + (now - last) = now
      BY <2>2, <2>3, <2>4
    <3>2. QED
      BY <2>3, <3>1
  <2>6. BucketOK(A, Smaller(Capacity, tok + d * PerTick), when + d)
    BY <2>4, RefillOK
  <2>7. Cardinality(Within(A, t, u)) * Cost <= Capacity + (u - t) * PerTick
    <3>1. t \in 0 .. when + d /\ u \in 0 .. when + d
      BY <2>5
    <3>2. QED
      BY <2>1, <2>6, <3>1 DEF BucketOK
  <2>8. AdmittedIn(t, u) = Within(A, t, u)
    BY <2>3, <2>4 DEF AdmittedIn, Within
  <2>9. QED
    BY <2>7, <2>8
<1>2. QED
  BY <1>1, ChannelInvariance, PTL

(* Tokens are spent in the order of arrival. *)
THEOREM AdmissionIsFifo == GateSpec => []FifoAdmission
<1>1. GateInv => FifoAdmission
  BY DEF GateInv
<1>2. QED
  BY <1>1, ChannelInvariance, PTL

(* Nothing waits while it could go, and never more than the queue holds. *)
THEOREM NothingWaitsInVain == GateSpec => []WorkConserving
<1>1. GateInv => WorkConserving
  BY DEF GateInv
<1>2. QED
  BY <1>1, ChannelInvariance, PTL
=============================================================================
