------------------------------ MODULE Bulkhead ------------------------------
(***************************************************************************)
(* Bulkhead and executeWithPolicy of                                       *)
(* packages/resilience-engine/src/resilience-engine.ts on the event loop.  *)
(*                                                                         *)
(* Code between two awaits is one step.  A waiter whose item is resolved   *)
(* does not run at once: it resumes in a microtask, after the code that    *)
(* was queued before it and before what is queued later, so a new run()    *)
(* may take the slot in between.                                           *)
(***************************************************************************)
EXTENDS Naturals, Sequences, SequencesExt, FiniteSets

CONSTANTS
    Callers,           \* each one calls executeWithPolicy once
    maxConcurrent,
    QueueLimit,        \* 100 in the code
    maxRetries

ASSUME BulkheadAssumption ==
    /\ maxConcurrent \in Nat \ {0}
    /\ QueueLimit \in Nat
    /\ maxRetries \in Nat

ASSUME CallersAssumption == IsFiniteSet(Callers)

VARIABLES
    active,     \* slots the bulkhead counts as taken
    queue,      \* waiting items: their caller, and whether ttlMs has passed
    pc,         \* where each caller's executor is
    attempt,    \* retries made so far
    behind      \* resumptions queued ahead of anything this caller does next

bulkheadVars == <<active, queue, pc, attempt, behind>>

Item == [caller : Callers, expired : BOOLEAN]

(***************************************************************************)
(* idle: not called.  waiting: at the queue's promise.  resumed: the item  *)
(* was resolved and the microtask is due.  rejected: likewise, to throw.   *)
(* running: at the race with the timeout.  backoff: at the retry delay.    *)
(***************************************************************************)
BulkheadTypeOK ==
    /\ active \in 0..Cardinality(Callers)
    /\ queue \in Seq(Item)
    /\ Len(queue) <= QueueLimit
    /\ pc \in [Callers -> {"idle", "waiting", "resumed", "rejected",
                           "running", "backoff", "done", "failed"}]
    /\ attempt \in [Callers -> 0..maxRetries]
    /\ behind \in [Callers -> SUBSET Callers]

BulkheadInit ==
    /\ active = 0
    /\ queue = <<>>
    /\ pc = [c \in Callers |-> "idle"]
    /\ attempt = [c \in Callers |-> 0]
    /\ behind = [c \in Callers |-> {}]

At(where) == {c \in Callers : pc[c] = where}

-----------------------------------------------------------------------------
\* evictExpired: the items go, and nobody settles their promises.  ttlMs is
\* one for all, so the expired items are the oldest.
unexpired(items) ==
    LET gone == {i \in DOMAIN items : items[i].expired}
    IN  SubSeq(items, Cardinality(gone) + 1, Len(items))

kept == unexpired(queue)

\* run(fn) threw at caller c, everybody else being as in where:
\* executeWithPolicy gives up or waits to try again.
throws(c, where) ==
    IF attempt[c] >= maxRetries
    THEN /\ pc' = [where EXCEPT ![c] = "failed"]
         /\ UNCHANGED attempt
    ELSE /\ pc' = [where EXCEPT ![c] = "backoff"]
         /\ attempt' = [attempt EXCEPT ![c] = @ + 1]

\* run(fn) ended at caller c with a value, or threw: an error, the timeout or
\* an undefined result.
answers(c, ok, where) ==
    IF ok THEN pc' = [where EXCEPT ![c] = "done"] /\ UNCHANGED attempt
          ELSE throws(c, where)

full(items) == Len(items) >= QueueLimit

\* run(fn) from its first line to its first await.
Enter(c) ==
    IF active < maxConcurrent
    THEN /\ active' = active + 1
         /\ pc' = [pc EXCEPT ![c] = "running"]
         /\ behind' = [behind EXCEPT ![c] = At("resumed")]
         /\ UNCHANGED <<queue, attempt>>
    ELSE IF full(kept)
    THEN /\ queue' = kept
         /\ throws(c, pc)
         /\ UNCHANGED <<active, behind>>
    ELSE /\ queue' = Append(kept, [caller |-> c, expired |-> FALSE])
         /\ pc' = [pc EXCEPT ![c] = "waiting"]
         /\ UNCHANGED <<active, attempt, behind>>

\* executeWithPolicy starts, or tries again after its delay: a timer, so no
\* microtask is left when it does.
Call(c) ==
    /\ pc[c] = "idle"
    /\ Enter(c)

Retry(c) ==
    /\ pc[c] = "backoff"
    /\ At("resumed") = {}
    /\ Enter(c)

\* A resumed waiter takes its slot without looking at the limit again.
takesSlot(c) == active' = active + 1

Resume(c) ==
    /\ pc[c] = "resumed"
    /\ takesSlot(c)
    /\ pc' = [pc EXCEPT ![c] = "running"]
    /\ behind' = [d \in Callers |-> behind[d] \ {c}]
    /\ UNCHANGED <<queue, attempt>>

\* A waiter whose expired item was popped throws out of run().
Expel(c) ==
    /\ pc[c] = "rejected"
    /\ throws(c, pc)
    /\ UNCHANGED <<active, queue, behind>>

\* Mutant: only a successful run wakes the next waiter.
wakes_OnSuccess(ok) == ok /\ queue # <<>>

\* Whether a run that gave its slot back looks at the queue.
wakes(ok) == queue # <<>>

\* The queue once its head is taken.
shifted == Tail(queue)

\* The race is decided: the slot is given back and one item is popped.  If
\* the item has expired its caller is rejected and fn is run once more.
Settle(c, ok) ==
    /\ pc[c] = "running"
    /\ behind[c] = {}
    /\ IF ~wakes(ok)
       THEN /\ active' = active - 1
            /\ answers(c, ok, pc)
            /\ UNCHANGED <<queue, behind>>
       ELSE LET next == Head(queue).caller IN
            /\ ~Head(queue).expired
            /\ active' = active - 1
            /\ queue' = shifted
            /\ answers(c, ok, [pc EXCEPT ![next] = "resumed"])
            /\ UNCHANGED behind

\* The popped item has expired: `return this.run(fn)' finds the slot that was
\* just given back, or queues behind newcomers.
SettleAndRerun(c, ok) ==
    /\ pc[c] = "running"
    /\ behind[c] = {}
    /\ wakes(ok)
    /\ Head(queue).expired
    /\ LET left == unexpired(shifted)
           told == [pc EXCEPT ![Head(queue).caller] = "rejected"]
       IN  IF active - 1 < maxConcurrent
           THEN /\ queue' = shifted
                /\ pc' = told
                /\ behind' = [behind EXCEPT ![c] = At("resumed")]
                /\ UNCHANGED <<active, attempt>>
           ELSE /\ active' = active - 1
                /\ UNCHANGED behind
                /\ IF full(left)
                   THEN /\ queue' = left
                        /\ throws(c, told)
                   ELSE /\ queue' = Append(left, [caller |-> c, expired |-> FALSE])
                        /\ pc' = [told EXCEPT ![c] = "waiting"]
                        /\ UNCHANGED attempt

\* ttlMs passes for the oldest item still fresh.
Expire ==
    /\ \E i \in DOMAIN queue :
          /\ ~queue[i].expired
          /\ \A j \in 1..(i - 1) : queue[j].expired
          /\ queue' = [queue EXCEPT ![i].expired = TRUE]
    /\ UNCHANGED <<active, pc, attempt, behind>>

Step(c) ==
    \/ Retry(c)
    \/ Resume(c)
    \/ Expel(c)
    \/ \E ok \in BOOLEAN : Settle(c, ok) \/ SettleAndRerun(c, ok)

BulkheadNext == Expire \/ \E c \in Callers : Call(c) \/ Step(c)

\* Microtasks and timers run; the race has a timeout; nobody has to call.
BulkheadFairness == \A c \in Callers : WF_bulkheadVars(Step(c))

BulkheadSpec == BulkheadInit /\ [][BulkheadNext]_bulkheadVars /\ BulkheadFairness

-----------------------------------------------------------------------------
(***************************************************************************)
(* The counter is the number of runs that hold a slot, whatever settles,   *)
(* throws, times out or is run again: no slot leaks and none is given back *)
(* twice.                                                                  *)
(***************************************************************************)
SlotsConserved == active = Cardinality(At("running"))

\* evictExpired dropped the item c waits for, and settled nothing.
abandoned(c) ==
    pc[c] = "waiting" /\ \A i \in DOMAIN queue : queue[i].caller # c

(***************************************************************************)
(* Every call ends, with an answer or after its retries, unless its item   *)
(* is dropped from the queue: no other way to wait for ever, although      *)
(* slots are overtaken, runs fail and retry, and expired items run again.  *)
(***************************************************************************)
EveryCallEnds ==
    \A c \in Callers :
        pc[c] # "idle" ~> (pc[c] \in {"done", "failed"} \/ abandoned(c))

(***************************************************************************)
(* "should limit concurrent calls" (resilience-engine.test.ts:4).          *)
(***************************************************************************)
LimitHolds == active <= maxConcurrent
=============================================================================
