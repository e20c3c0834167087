----------------------------- MODULE Gatekeeper -----------------------------
(***************************************************************************)
(* One egress channel of ApiGatekeeper (src/src/api/gatekeeper.py): a      *)
(* token bucket with a bounded FIFO overflow queue, called from several    *)
(* threads.  Under the lock a caller drains the queue and then decides     *)
(* about its own call, reading the clock for every token; the thunks, its  *)
(* own and the ones it drained, run after the lock is released.  Channels  *)
(* share nothing but the lock, so one is enough.                           *)
(***************************************************************************)
EXTENDS Integers, Sequences, FiniteSets, Functions

CONSTANTS
    NumCalls,   \* calls of execute(), each by a thread of its own (bound)
    Failing,    \* calls whose thunk raises
    Burst,      \* capacity in tokens
    Cost,       \* units a token is worth
    PerTick,    \* units refilled per tick of the clock
    MaxQueue,   \* max_queue
    MaxTime     \* bound on the clock

(* Callers are numbered in the order in which they get the lock.            *)
Calls == 1 .. NumCalls

ASSUME GatekeeperAssumption ==
    /\ NumCalls \in Nat /\ Failing \subseteq Calls
    /\ Burst \in Nat \ {0} /\ Cost \in Nat \ {0} /\ PerTick \in Nat \ {0}
    /\ MaxQueue \in Nat \ {0} /\ MaxTime \in Nat

VARIABLES
    now,        \* the clock
    tokens,     \* _tokens, in units, as of the last refill
    last,       \* _last: when that was
    queue,      \* the deferred calls, oldest first
    thread,     \* where each caller stands
    outcome,    \* what was decided for it under the lock
    batch,      \* batch[c]: deferred calls c drained and has not run yet
    admitted,   \* [call, at] of every token spent, in that order
    ran         \* calls whose thunk was started, in that order

gateVars == <<now, tokens, last, queue, thread, outcome, batch, admitted, ran>>

Capacity == Burst * Cost
Locked == {"draining", "deciding"}
Returned == {"returned", "raised", "rejected", "deferred"}

GateInit ==
    /\ now = 0 /\ last = 0
    /\ tokens = Capacity
    /\ queue = <<>> /\ admitted = <<>> /\ ran = <<>>
    /\ thread = [c \in Calls |-> "new"]
    /\ outcome = [c \in Calls |-> "undecided"]
    /\ batch = [c \in Calls |-> <<>>]

Tick ==
    /\ now < MaxTime
    /\ now' = now + 1
    /\ UNCHANGED <<tokens, last, queue, thread, outcome, batch, admitted, ran>>

-----------------------------------------------------------------------------
Smaller(x, y) == IF x <= y THEN x ELSE y

(* try_consume: what the bucket holds after the refill up to now.           *)
Refilled == Smaller(Capacity, tokens + (now - last) * PerTick)

Refill == tokens' = Refilled /\ last' = now

(* try_consume when there is a token: after the refill it goes to call c.   *)
Consume(c) ==
    /\ tokens' = Refilled - Cost /\ last' = now
    /\ admitted' = Append(admitted, [call |-> c, at |-> now])

(* execute() takes the lock, which is free.                                 *)
Lock(c) ==
    /\ thread[c] = "new" /\ \A d \in 1 .. c - 1 : thread[d] \notin {"new"} \union Locked
    /\ thread' = [thread EXCEPT ![c] = "draining"]
    /\ UNCHANGED <<now, tokens, last, queue, outcome, batch, admitted, ran>>

\* Mutant: "if" for "while".
DrainableOnce(c) == batch[c] = <<>> /\ queue # <<>> /\ Refilled >= Cost

(* The condition of _drain_collect's loop.                                  *)
Drainable(c) == queue # <<>> /\ Refilled >= Cost

(* A round of it: the call that waited longest gets the token.              *)
DrainOne(c) ==
    /\ thread[c] = "draining" /\ Drainable(c)
    /\ Consume(Head(queue))
    /\ queue' = Tail(queue)
    /\ batch' = [batch EXCEPT ![c] = Append(@, Head(queue))]
    /\ UNCHANGED <<now, thread, outcome, ran>>

(* Its end: nobody waits, and then the bucket is not asked, or it refused.  *)
DrainEnds(c) ==
    /\ thread[c] = "draining" /\ ~Drainable(c)
    /\ thread' = [thread EXCEPT ![c] = "deciding"]
    /\ \/ queue = <<>> /\ UNCHANGED <<tokens, last>>
       \/ queue # <<>> /\ Refill
    /\ UNCHANGED <<now, queue, outcome, batch, admitted, ran>>

\* Mutants: any fraction of a token will do; a newcomer need not wait its turn.
DecisionOnFraction(waiting, left) ==
    IF waiting = 0 /\ left > 0 THEN "run"
    ELSE IF waiting >= MaxQueue THEN "reject" ELSE "defer"
DecisionUnfair(waiting, left) ==
    IF left >= Cost THEN "run" ELSE IF waiting >= MaxQueue THEN "reject" ELSE "defer"

(* What execute() decides with "waiting" calls queued and "left" units.     *)
Decision(waiting, left) ==
    IF waiting = 0 /\ left >= Cost THEN "run"
    ELSE IF waiting >= MaxQueue THEN "reject" ELSE "defer"

(* The caller's own call: run, reject or enqueue it, and release the lock.  *)
(* The bucket is asked only if nobody waits.                                *)
Decide(c) ==
    LET choice == Decision(Len(queue), Refilled)
    IN  /\ thread[c] = "deciding"
        /\ thread' = [thread EXCEPT ![c] = "running"]
        /\ outcome' = [outcome EXCEPT ![c] = choice]
        /\ \/ choice = "run" /\ Consume(c)
           \/ choice # "run" /\ queue = <<>> /\ Refill /\ UNCHANGED admitted
           \/ choice # "run" /\ queue # <<>> /\ UNCHANGED <<tokens, last, admitted>>
        /\ queue' = IF choice = "defer" THEN Append(queue, c) ELSE queue
        /\ UNCHANGED <<now, batch, ran>>

\* Mutant of _run_isolated: the batch given up at a failure.
RunUntilFailure(c) ==
    /\ thread[c] = "running" /\ batch[c] # <<>>
    /\ ran' = Append(ran, Head(batch[c]))
    /\ batch' = [batch EXCEPT ![c] = IF Head(@) \in Failing THEN <<>> ELSE Tail(@)]
    /\ UNCHANGED <<now, tokens, last, queue, thread, outcome, admitted>>

(* _run_isolated: a drained call is some earlier caller's, so whether its   *)
(* thunk raises changes nothing for the caller that runs it.                *)
RunIsolated(c) ==
    /\ thread[c] = "running" /\ batch[c] # <<>>
    /\ ran' = Append(ran, Head(batch[c]))
    /\ batch' = [batch EXCEPT ![c] = Tail(@)]
    /\ UNCHANGED <<now, tokens, last, queue, thread, outcome, admitted>>

(* The batch is done: run the caller's own thunk, raise, or say DEFERRED.   *)
Return(c) ==
    /\ thread[c] = "running" /\ batch[c] = <<>>
    /\ ran' = IF outcome[c] = "run" THEN Append(ran, c) ELSE ran
    /\ thread' = [thread EXCEPT ![c] = CASE outcome[c] = "reject" -> "rejected"
                                     [] outcome[c] = "defer" -> "deferred"
                                     [] OTHER -> IF c \in Failing THEN "raised" ELSE "returned"]
    /\ UNCHANGED <<now, tokens, last, queue, outcome, batch, admitted>>

Thread(c) == DrainOne(c) \/ DrainEnds(c) \/ Decide(c) \/ RunIsolated(c) \/ Return(c)

(* Every call was made and answered; what is queued waits for a later one.  *)
Quiet == now = MaxTime /\ (\A c \in Calls : thread[c] \in Returned) /\ UNCHANGED gateVars

GateNext == Tick \/ (\E c \in Calls : Lock(c) \/ Thread(c)) \/ Quiet

GateSpec == GateInit /\ [][GateNext]_gateVars

(* A caller that has got the lock is not suspended for good: it is held for *)
(* as long as the queue is drained, and a thunk returns or raises.          *)
FairGateSpec == GateSpec /\ \A c \in Calls : WF_gateVars(Thread(c))

-----------------------------------------------------------------------------
AdmittedIn(t, u) == {i \in DOMAIN admitted : t <= admitted[i].at /\ admitted[i].at <= u}

(* The rate limit itself: over any window of time, however the threads      *)
(* interleave and however long the bucket was idle before, no more calls    *)
(* are let through than the burst plus what the window refills.             *)
RateLimited ==
    \A t, u \in 0 .. now : t <= u =>
        Cardinality(AdmittedIn(t, u)) * Cost <= Capacity + (u - t) * PerTick

(* FIFO-fair: tokens are spent in the order of arrival, a newcomer never    *)
(* overtakes a deferred call, and no accepted call drops out.               *)
FifoAdmission ==
    LET order    == [i \in DOMAIN admitted |-> admitted[i].call] \o queue
        accepted == {c \in Calls : outcome[c] \in {"run", "defer"}}
    IN  /\ Range(order) = accepted
        /\ \A i, j \in DOMAIN order : i < j => order[i] < order[j]

(* Nothing waits while it could go, and the queue stays within max_queue:   *)
(* once a caller has drained, a queue that is not empty means less than one *)
(* token, and so it stays until the next caller refills the bucket.         *)
WorkConserving ==
    /\ Len(queue) <= MaxQueue
    /\ (\A c \in Calls : thread[c] # "draining") /\ queue # <<>> => tokens < Cost

(* A call that took a token is eventually started, and only once, also when *)
(* another caller drained it and the calls drained with it raise.           *)
AdmittedRuns ==
    \A c \in Calls :
        (\E i \in DOMAIN admitted : admitted[i].call = c)
            ~> [](Cardinality({i \in DOMAIN ran : ran[i] = c}) = 1)
=============================================================================
