---------------------------- MODULE HttpRequests ----------------------------
(***************************************************************************)
(* warcraft_api/http.py: request_with_retries and the HostRateLimiter the  *)
(* threads of a process share.  The limiter hands out slots under its lock *)
(* and the thread sleeps until its slot outside of it, so other threads    *)
(* reserve later slots meanwhile; a thread may wake late.  Time is counted *)
(* down: every clock is relative to now, so no bound on it is needed.      *)
(***************************************************************************)
EXTENDS Integers, FiniteSets, Functions

CONSTANTS
  Caller,        \* threads calling request_with_retries
  Host,          \* hosts
  HostOf,        \* the host each caller requests from
  Interval,      \* min_interval_seconds, in ticks
  Tries,      \* retry_attempts
  RetryAfters,   \* what Retry-After headers ask for, 0 for none
  RetryAfterCap, \* MAX_RETRY_AFTER_SECONDS
  BackoffCap,    \* the longest backoff
  MaxLate        \* how late a sleeping thread may wake

ASSUME RequestAssumption ==
  /\ IsFiniteSet(Caller)
  /\ HostOf \in [Caller -> Host]
  /\ Interval \in Nat
  /\ Tries \in Nat \ {0}
  /\ RetryAfters \subseteq Nat
  /\ RetryAfterCap \in Nat
  /\ BackoffCap \in Nat
  /\ MaxLate \in Nat

VARIABLES
  free,      \* _next_allowed_at of each host, in ticks from now, 0 when passed
  phase,        \* where each caller is
  wakes,       \* when each sleeping caller's sleep is over, negative when it is late
  tries,   \* the attempt each caller is at
  since,     \* history: ticks since the last request to each host, up to Interval
  owed       \* history: ticks each caller has yet to wait for its last Retry-After

requesting == <<free, phase, wakes, tries, since, owed>>

Least(a, b) == IF a < b THEN a ELSE b
Greatest(a, b) == IF a > b THEN a ELSE b

Step(c, from, to) == phase[c] = from /\ phase' = [phase EXCEPT ![c] = to]

RequestsInit ==
  /\ free = [h \in Host |-> 0]
  /\ phase = [c \in Caller |-> "idle"]
  /\ wakes = [c \in Caller |-> 0]
  /\ tries = [c \in Caller |-> 1]
  /\ since = [h \in Host |-> Interval]
  /\ owed = [c \in Caller |-> 0]

(* Every sleep ends a tick earlier.  No thread that is due stays asleep for *)
(* more than MaxLate ticks.                                                 *)
Moment ==
  /\ \A c \in Caller : phase[c] = "paced" => wakes[c] > -MaxLate
  /\ free' = [h \in Host |-> Greatest(0, free[h] - 1)]
  /\ wakes' = [c \in Caller |-> IF phase[c] = "paced" THEN wakes[c] - 1
                             ELSE IF phase[c] = "backoff" THEN Greatest(0, wakes[c] - 1)
                             ELSE wakes[c]]
  /\ since' = [h \in Host |-> Least(Interval, since[h] + 1)]
  /\ owed' = [c \in Caller |-> Greatest(0, owed[c] - 1)]
  /\ UNCHANGED <<phase, tries>>

(* A new call of request_with_retries. *)
Call(c) ==
  /\ Step(c, "idle", "limiter")
  /\ tries' = [tries EXCEPT ![c] = 1]
  /\ owed' = [owed EXCEPT ![c] = 0]
  /\ UNCHANGED <<free, wakes, since>>

(* wait: under the lock the caller takes the host's next slot and moves the *)
(* following one an interval on.                                            *)
Wait(c) ==
  /\ Step(c, "limiter", "paced")
  /\ wakes' = [wakes EXCEPT ![c] = free[HostOf[c]]]
  /\ free' = [free EXCEPT ![HostOf[c]] = @ + Interval]
  /\ UNCHANGED <<tries, since, owed>>

(* The sleep is over and the request goes out. *)
Start(c) ==
  /\ Step(c, "paced", "sent")
  /\ wakes[c] <= 0
  /\ wakes' = [wakes EXCEPT ![c] = 0]
  /\ since' = [since EXCEPT ![HostOf[c]] = 0]
  /\ UNCHANGED <<free, tries, owed>>

(* The last answer is returned or raised, whatever it is; so is any answer  *)
(* that is no reason to retry.                                              *)
End(c) ==
  /\ Step(c, "sent", "idle")
  /\ UNCHANGED <<free, wakes, tries, since, owed>>

(* backoff_seconds doubles with every attempt up to its cap; its jitter is *)
(* below a tick.                                                           *)
Backoff(n) == Least(2 ^ (n - 1), BackoffCap)

\* Mutant: the header only counts when it asks for less than the backoff.
RetryPauseShort(n, retryAfter) ==
  IF retryAfter = 0 THEN Backoff(n) ELSE Least(Backoff(n), Least(retryAfter, RetryAfterCap))

(* retry_after_seconds(response) or backoff_seconds(attempt).               *)
RetryPause(n, retryAfter) ==
  IF Least(retryAfter, RetryAfterCap) = 0 THEN Backoff(n) ELSE Least(retryAfter, RetryAfterCap)

\* Mutant: a retry does not count as an attempt.
RetryForever(c, retryAfter) ==
  /\ Step(c, "sent", "backoff")
  /\ tries[c] < Tries
  /\ wakes' = [wakes EXCEPT ![c] = RetryPause(tries[c], retryAfter)]
  /\ owed' = [owed EXCEPT ![c] = Least(retryAfter, RetryAfterCap)]
  /\ UNCHANGED <<free, tries, since>>

(* A transport failure (which carries no Retry-After) or a retryable status, *)
(* with attempts left: sleep, then try again.                                *)
Retry(c, retryAfter) ==
  /\ Step(c, "sent", "backoff")
  /\ tries[c] < Tries
  /\ wakes' = [wakes EXCEPT ![c] = RetryPause(tries[c], retryAfter)]
  /\ owed' = [owed EXCEPT ![c] = Least(retryAfter, RetryAfterCap)]
  /\ tries' = [tries EXCEPT ![c] = @ + 1]
  /\ UNCHANGED <<free, since>>

\* Mutant: the retry goes out in the slot of the first attempt.
AgainUnpaced(c) ==
  /\ Step(c, "backoff", "paced")
  /\ wakes[c] <= 0
  /\ UNCHANGED <<free, wakes, tries, since, owed>>

(* The next attempt asks the limiter for a slot of its own. *)
Again(c) ==
  /\ Step(c, "backoff", "limiter")
  /\ wakes[c] <= 0
  /\ UNCHANGED <<free, wakes, tries, since, owed>>

GoesOn(c) ==
  \/ Wait(c) \/ Start(c) \/ End(c) \/ Again(c)
  \/ \E retryAfter \in RetryAfters \cup {0} : Retry(c, retryAfter)

RequestsNext == Moment \/ \E c \in Caller : Call(c) \/ GoesOn(c)

RequestsSpec == RequestsInit /\ [][RequestsNext]_requesting

-----------------------------------------------------------------------------
(* Properties.                                                              *)

Rivals(c) == {d \in Caller : HostOf[d] = HostOf[c]}

RequestTypes ==
  /\ free \in [Host -> Nat]
  /\ phase \in [Caller -> {"idle", "limiter", "paced", "sent", "backoff"}]
  /\ wakes \in [Caller -> Int]
  /\ \A c \in Caller : phase[c] = "paced" => wakes[c] >= -MaxLate
  /\ tries \in [Caller -> 1..Tries]
  /\ since \in [Host -> 0..Interval]
  /\ owed \in [Caller -> 0..RetryAfterCap]

(* No two threads of the process hold slots closer than the interval, and   *)
(* the next free slot is an interval past every slot held, however threads  *)
(* interleave and however late they wake.                                   *)
SlotsApart ==
  \A c \in Caller : phase[c] = "paced" =>
    /\ free[HostOf[c]] >= wakes[c] + Interval
    /\ \A d \in Rivals(c) \ {c} : phase[d] = "paced" =>
         wakes[c] >= wakes[d] + Interval \/ wakes[d] >= wakes[c] + Interval

Starts(c) == phase[c] = "paced" /\ phase'[c] = "sent"

(* "Minimum interval between request starts" (HostRateLimiter): two starts  *)
(* on one host are an interval apart, less how late a thread may wake.      *)
StartsSpaced == [][\A c \in Caller : Starts(c) => since[HostOf[c]] >= Interval - MaxLate]_requesting

(* A retry never starts before the pause the server asked for is over, with *)
(* the limiter's queue in between.                                          *)
RetryAfterKept == [][\A c \in Caller : Starts(c) => owed[c] = 0]_requesting

(* Every call ends, whatever the host answers and whoever else is queued.   *)
CallsEnd == \A c \in Caller : phase[c] = "limiter" ~> phase[c] = "idle"
=============================================================================
