-------------------------- MODULE ProviderBulkhead --------------------------
(***************************************************************************)
(* GeminiProviderAdapter: complete and structured, which retry, and        *)
(* stream, which does not, behind one semaphore.                           *)
(*                                                                         *)
(* A call takes a slot for each attempt and gives it back before it sleeps *)
(* between attempts.  A stream keeps its slot for as long as its client    *)
(* reads.  The timeout bounds an attempt and the opening of a stream; the  *)
(* wait for a slot and the reading of a stream are not bounded.  A caller  *)
(* may be cancelled at any await.  What the model answers is left open.    *)
(***************************************************************************)
EXTENDS Naturals, Sequences, FiniteSets, SequencesExt

CONSTANTS
    Calls,            \* uses of complete and structured
    Streams,          \* uses of stream
    MaxConcurrency,   \* max_concurrency
    MaxAttempts       \* _MAX_ATTEMPTS

ASSUME BulkheadAssumption ==
    /\ IsFiniteSet(Calls) /\ IsFiniteSet(Streams)
    /\ Calls \intersect Streams = {}
    /\ MaxConcurrency \in Nat \ {0} /\ MaxAttempts \in Nat \ {0}

Users == Calls \union Streams

VARIABLES
    at,        \* the await at which each use of the provider is suspended
    attempt,   \* how many attempts it has begun
    line,      \* the waiters of the semaphore, woken in order
    free       \* the value of the semaphore

vars == <<at, attempt, line, free>>

\* "opening" and "trying" are inside wait_for; a stream is at "chunk" while it
\* waits for the model, at "yield" while the client reads, and "dropped" when it
\* was suspended there and its reader went away.
Holding == {"trying", "opening", "chunk", "yield", "dropped"}
Over == {"answered", "failed", "cancelled"}
Places == {"new", "waiting", "backoff"} \union Holding \union Over

TypeOK ==
    /\ at \in [Users -> Places]
    /\ attempt \in [Users -> 0..MaxAttempts]
    /\ line \in Seq(Users)
    /\ free \in 0..MaxConcurrency

Init ==
    /\ at = [u \in Users |-> "new"]
    /\ attempt = [u \in Users |-> 0]
    /\ line = <<>>
    /\ free = MaxConcurrency

-----------------------------------------------------------------------------
\* async with self._gate

\* Variant: the slot stays taken.
Keep == free

\* The slot is given back.
Release == free + 1

Join(u) ==
    /\ at' = [at EXCEPT ![u] = "waiting"]
    /\ line' = Append(line, u)
    /\ UNCHANGED <<attempt, free>>

Begin(u) == at[u] = "new" /\ Join(u)

Acquire ==
    /\ line # <<>> /\ free > 0
    /\ LET u == Head(line)
       IN  /\ at' = [at EXCEPT ![u] = IF u \in Calls THEN "trying" ELSE "opening"]
           /\ attempt' = [attempt EXCEPT ![u] = @ + 1]
    /\ line' = Tail(line)
    /\ free' = free - 1

\* The block is left, for good or between attempts.
Leave(u, place) ==
    /\ at' = [at EXCEPT ![u] = place]
    /\ free' = Release
    /\ UNCHANGED <<attempt, line>>

-----------------------------------------------------------------------------
\* complete and structured: _with_retry

Answer(c) == at[c] = "trying" /\ Leave(c, "answered")

MayRetry(c) == attempt[c] < MaxAttempts

\* The timeout, and every error whose text has a retryable marker.
FailForNow(c) ==
    /\ at[c] = "trying"
    /\ Leave(c, IF MayRetry(c) THEN "backoff" ELSE "failed")

FailForGood(c) == at[c] = "trying" /\ Leave(c, "failed")

WakeFromBackoff(c) == at[c] = "backoff" /\ Join(c)

-----------------------------------------------------------------------------
\* stream

Open(s) ==
    /\ at[s] = "opening"
    /\ at' = [at EXCEPT ![s] = "chunk"]
    /\ UNCHANGED <<attempt, line, free>>

\* The timeout or an error: partial output may have been seen, no retry.
FailToOpen(s) == at[s] = "opening" /\ Leave(s, "failed")

Yield(s) ==
    /\ at[s] = "chunk"
    /\ at' = [at EXCEPT ![s] = "yield"]
    /\ UNCHANGED <<attempt, line, free>>

AskForMore(s) ==
    /\ at[s] = "yield"
    /\ at' = [at EXCEPT ![s] = "chunk"]
    /\ UNCHANGED <<attempt, line, free>>

EndStream(s) == at[s] = "chunk" /\ \E how \in {"answered", "failed"} : Leave(s, how)

\* The reader is cancelled, or fails, while the generator is suspended at its
\* yield: nothing tells the generator, which keeps its slot.
Drop(s) ==
    /\ at[s] = "yield"
    /\ at' = [at EXCEPT ![s] = "dropped"]
    /\ UNCHANGED <<attempt, line, free>>

\* Variant: an abandoned generator is never closed.
LeftOpen(s) == FALSE

\* Its finalizer has the event loop close it.
Close(s) == at[s] = "dropped" /\ Leave(s, "cancelled")

-----------------------------------------------------------------------------
\* The task that made the call is cancelled at one of its own awaits.

\* Variant: the waiter stays in the line.
CancelInLine(u) ==
    /\ at[u] = "waiting"
    /\ at' = [at EXCEPT ![u] = "cancelled"]
    /\ UNCHANGED <<attempt, line, free>>

CancelWaiting(u) ==
    /\ at[u] = "waiting"
    /\ \E i \in DOMAIN line : line[i] = u /\ line' = RemoveAt(line, i)
    /\ at' = [at EXCEPT ![u] = "cancelled"]
    /\ UNCHANGED <<attempt, free>>

CancelAsleep(u) ==
    /\ at[u] = "backoff"
    /\ at' = [at EXCEPT ![u] = "cancelled"]
    /\ UNCHANGED <<attempt, line, free>>

CancelAtWork(u) == at[u] \in {"trying", "opening", "chunk"} /\ Leave(u, "cancelled")

Cancel(u) == CancelWaiting(u) \/ CancelAsleep(u) \/ CancelAtWork(u)

CallStep(c) == Answer(c) \/ FailForNow(c) \/ FailForGood(c) \/ WakeFromBackoff(c)
StreamStep(s) == \/ Open(s) \/ FailToOpen(s) \/ Yield(s) \/ AskForMore(s)
                 \/ EndStream(s) \/ Drop(s) \/ Close(s)

Next ==
    \/ \E u \in Users : Begin(u) \/ Cancel(u)
    \/ Acquire
    \/ \E c \in Calls : CallStep(c)
    \/ \E s \in Streams : StreamStep(s)

Spec == Init /\ [][Next]_vars

\* The semaphore wakes its waiters, wait_for ends what it bounds, sleeps end and
\* finalizers run.  Nothing is assumed of models that send chunks nor of readers.
Fairness ==
    /\ WF_vars(Acquire)
    /\ \A c \in Calls : WF_vars(CallStep(c))
    /\ \A s \in Streams : WF_vars(Open(s) \/ FailToOpen(s)) /\ WF_vars(Close(s))

FairSpec == Spec /\ Fairness

-----------------------------------------------------------------------------
\* The slots taken are those of attempts under way and of streams not yet
\* closed: none leaks by a timeout, an error, a cancellation or a reader that
\* went away, none is given back twice, and none is held through a backoff.
Holders == {u \in Users : at[u] \in Holding}
SlotsAccounted == free + Cardinality(Holders) = MaxConcurrency

\* Who waits is in the line, once, and nobody else is.
Waiting == {u \in Users : at[u] = "waiting"}
LineHoldsTheWaiting ==
    /\ Range(line) = Waiting
    /\ IsInjective(line)

\* A stream is begun once, since its client may have seen some of it.
StreamsNeverReplayed == \A s \in Streams : attempt[s] <= 1

\* Whoever waits for a slot is in the end answered or refused, or reads its
\* stream, if the streams being read leave a slot now and then: neither retries
\* nor backoffs nor abandoned streams take the slots away for ever.
Reading == {s \in Streams : at[s] \in {"chunk", "yield"}}
EveryoneIsServed ==
    ([]<>(Cardinality(Reading) < MaxConcurrency)) =>
        \A u \in Users : at[u] = "waiting" ~> at[u] \in Over \union {"chunk"}

-----------------------------------------------------------------------------
\* What was tried so far: whoever may still join the line has an attempt left,
\* and a stream has used none.
AttemptsLeft ==
    /\ \A u \in Users : at[u] \in {"new", "waiting", "backoff"} => attempt[u] < MaxAttempts
    /\ \A s \in Streams : /\ at[s] # "backoff"
                          /\ at[s] \in {"new", "waiting"} => attempt[s] = 0

\* Places, attempts, the line and the slots agree, whoever fails, is cancelled
\* or goes away: nobody is tried more often than allowed or waits unnoticed.
BulkheadInvariant ==
    /\ TypeOK
    /\ SlotsAccounted
    /\ LineHoldsTheWaiting
    /\ StreamsNeverReplayed
    /\ AttemptsLeft
=============================================================================
