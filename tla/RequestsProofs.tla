-------------------------- MODULE RequestsProofs ----------------------------
(**************************************************************************)
(* The pacing of HttpRequests for any number of threads and hosts, any    *)
(* interval and any lateness. SlotsApart is inductive with RequestTypes;  *)
(* the spacing of the starts rests on Paced, which says how the time      *)
(* since the last start makes up for what a thread has left to sleep;     *)
(* Retry-After rests on Owing, which says that the sleep covers the       *)
(* pause.                                                                 *)
(**************************************************************************)
EXTENDS HttpRequests, TokenCache, TLAPS

(* The type invariant: every clock and counter stays in its range.         *)
THEOREM RequestTypesCorrect == RequestsSpec => []RequestTypes
<1>1. RequestsInit => RequestTypes
  BY RequestAssumption DEF RequestsInit, RequestTypes
<1>2. RequestTypes /\ [RequestsNext]_requesting => RequestTypes'
  <2> SUFFICES ASSUME RequestTypes, [RequestsNext]_requesting PROVE RequestTypes'
    OBVIOUS
  <2> USE RequestAssumption DEF RequestTypes, Step, Least, Greatest
  <2>1. CASE Moment
    BY <2>1 DEF Moment
  <2>2. ASSUME NEW c \in Caller, Call(c) PROVE RequestTypes'
    BY <2>2 DEF Call
  <2>3. ASSUME NEW c \in Caller, Wait(c) PROVE RequestTypes'
    BY <2>3 DEF Wait
  <2>4. ASSUME NEW c \in Caller, Start(c) PROVE RequestTypes'
    BY <2>4 DEF Start
  <2>5. ASSUME NEW c \in Caller, End(c) PROVE RequestTypes'
    BY <2>5 DEF End
  <2>6. ASSUME NEW c \in Caller, Again(c) PROVE RequestTypes'
    BY <2>6 DEF Again
  <2>7. ASSUME NEW c \in Caller, NEW retryAfter \in RetryAfters \cup {0}, Retry(c, retryAfter)
        PROVE RequestTypes'
    <3>1. RetryPause(tries[c], retryAfter) \in Int
      BY DEF RetryPause, Backoff
    <3>2. QED BY <2>7, <3>1 DEF Retry
  <2>8. CASE UNCHANGED requesting
    BY <2>8 DEF requesting
  <2>9. QED BY <2>1, <2>2, <2>3, <2>4, <2>5, <2>6, <2>7, <2>8 DEF RequestsNext, GoesOn
<1>3. QED BY <1>1, <1>2, PTL DEF RequestsSpec

(* Slots stay apart: what the limiter reserves under its lock is never      *)
(* undone by time passing, threads waking late, or retries.                 *)
THEOREM SlotsStayApart == RequestsSpec => []SlotsApart
<1>1. RequestsInit => SlotsApart
  BY DEF RequestsInit, SlotsApart
<1>2. RequestTypes /\ SlotsApart /\ [RequestsNext]_requesting => SlotsApart'
  <2> SUFFICES ASSUME RequestTypes, SlotsApart, [RequestsNext]_requesting PROVE SlotsApart'
    OBVIOUS
  <2> USE RequestAssumption DEF RequestTypes, SlotsApart, Rivals, Step
  <2>1. CASE Moment
    BY <2>1 DEF Moment, Greatest
  <2>2. ASSUME NEW c \in Caller, Call(c) PROVE SlotsApart'
    BY <2>2 DEF Call
  <2>3. ASSUME NEW c \in Caller, Wait(c) PROVE SlotsApart'
    BY <2>3 DEF Wait
  <2>4. ASSUME NEW c \in Caller, Start(c) PROVE SlotsApart'
    BY <2>4 DEF Start
  <2>5. ASSUME NEW c \in Caller, End(c) \/ Again(c) PROVE SlotsApart'
    BY <2>5 DEF End, Again
  <2>6. ASSUME NEW c \in Caller, NEW retryAfter \in RetryAfters \cup {0}, Retry(c, retryAfter)
        PROVE SlotsApart'
    BY <2>6 DEF Retry
  <2>7. CASE UNCHANGED requesting
    BY <2>7 DEF requesting
  <2>8. QED BY <2>1, <2>2, <2>3, <2>4, <2>5, <2>6, <2>7 DEF RequestsNext, GoesOn
<1>3. QED BY <1>1, <1>2, RequestTypesCorrect, PTL DEF RequestsSpec

(* What a thread has yet to sleep and the time since the host's last start *)
(* add up to the interval, less the lateness; so does the next free slot.  *)
(* A thread may be so late that the next slot has come, but no later slot, *)
(* unless the lateness exceeds the interval and nothing is claimed.        *)
Paced == MaxLate < Interval =>
  /\ \A h \in Host : free[h] + since[h] >= Interval - MaxLate
  /\ \A c \in Caller : phase[c] = "paced" => wakes[c] + since[HostOf[c]] >= Interval - MaxLate

LEMMA PacedHolds == RequestsSpec => []Paced
<1>1. RequestsInit => Paced
  BY RequestAssumption DEF RequestsInit, Paced
<1>2. RequestTypes /\ SlotsApart /\ Paced /\ [RequestsNext]_requesting => Paced'
  <2> SUFFICES ASSUME RequestTypes, SlotsApart, Paced, [RequestsNext]_requesting PROVE Paced'
    OBVIOUS
  <2> USE RequestAssumption DEF RequestTypes, Paced, Step
  <2>1. CASE Moment
    BY <2>1 DEF Moment, Greatest, Least
  <2>2. ASSUME NEW c \in Caller, Call(c) PROVE Paced'
    BY <2>2 DEF Call
  <2>3. ASSUME NEW c \in Caller, Wait(c) PROVE Paced'
    BY <2>3 DEF Wait
  <2>4. ASSUME NEW c \in Caller, Start(c) PROVE Paced'
    <3>1. MaxLate < Interval =>
            \A d \in Caller \ {c} : phase[d] = "paced" /\ HostOf[d] = HostOf[c] =>
              wakes[d] >= Interval - MaxLate
      BY <2>4 DEF Start, SlotsApart, Rivals
    <3>2. free[HostOf[c]] >= Interval - MaxLate
      BY <2>4 DEF Start, SlotsApart, Rivals
    <3>3. QED BY <2>4, <3>1, <3>2 DEF Start
  <2>5. ASSUME NEW c \in Caller, End(c) \/ Again(c) PROVE Paced'
    BY <2>5 DEF End, Again
  <2>6. ASSUME NEW c \in Caller, NEW retryAfter \in RetryAfters \cup {0}, Retry(c, retryAfter)
        PROVE Paced'
    BY <2>6 DEF Retry
  <2>7. CASE UNCHANGED requesting
    BY <2>7 DEF requesting
  <2>8. QED BY <2>1, <2>2, <2>3, <2>4, <2>5, <2>6, <2>7 DEF RequestsNext, GoesOn
<1>3. QED BY <1>1, <1>2, RequestTypesCorrect, SlotsStayApart, PTL DEF RequestsSpec

(* Two starts on a host are the interval apart, less the lateness of one    *)
(* thread, for any number of threads.                                       *)
THEOREM StartsStaySpaced == RequestsSpec => StartsSpaced
<1>1. RequestTypes /\ Paced /\ [RequestsNext]_requesting =>
        [\A c \in Caller : Starts(c) => since[HostOf[c]] >= Interval - MaxLate]_requesting
  <2> SUFFICES ASSUME RequestTypes, Paced, [RequestsNext]_requesting, NEW c \in Caller, Starts(c)
               PROVE since[HostOf[c]] >= Interval - MaxLate
    OBVIOUS
  <2>1. wakes[c] <= 0
    BY DEF Starts, RequestTypes, RequestsNext, GoesOn, Moment, Call, Wait, Start, End, Again, Retry, Step, requesting
  <2>2. QED BY <2>1, RequestAssumption DEF RequestTypes, Paced, Starts
<1>2. QED BY <1>1, RequestTypesCorrect, PacedHolds, PTL DEF RequestsSpec, StartsSpaced

(* A sleeping caller's pause covers what the server asked for, and a caller *)
(* about to take a slot or holding one owes nothing.                        *)
Owing ==
  \A c \in Caller :
    /\ phase[c] = "backoff" => owed[c] = 0 \/ owed[c] <= wakes[c]
    /\ phase[c] \in {"limiter", "paced", "sent"} => owed[c] = 0

LEMMA OwingHolds == RequestsSpec => []Owing
<1>1. RequestsInit => Owing
  BY DEF RequestsInit, Owing
<1>2. RequestTypes /\ Owing /\ [RequestsNext]_requesting => Owing'
  <2> SUFFICES ASSUME RequestTypes, Owing, [RequestsNext]_requesting PROVE Owing'
    OBVIOUS
  <2> USE RequestAssumption DEF RequestTypes, Owing, Step
  <2>1. CASE Moment
    BY <2>1 DEF Moment, Greatest
  <2>2. ASSUME NEW c \in Caller, Call(c) \/ Wait(c) \/ Start(c) \/ End(c) \/ Again(c)
        PROVE Owing'
    BY <2>2 DEF Call, Wait, Start, End, Again
  <2>3. ASSUME NEW c \in Caller, NEW retryAfter \in RetryAfters \cup {0}, Retry(c, retryAfter)
        PROVE Owing'
    <3>1. \/ Least(retryAfter, RetryAfterCap) = 0
          \/ RetryPause(tries[c], retryAfter) = Least(retryAfter, RetryAfterCap)
      BY DEF RetryPause
    <3>2. Least(retryAfter, RetryAfterCap) \in Nat
      BY DEF Least
    <3>3. QED BY <2>3, <3>1, <3>2 DEF Retry
  <2>4. CASE UNCHANGED requesting
    BY <2>4 DEF requesting
  <2>5. QED BY <2>1, <2>2, <2>3, <2>4 DEF RequestsNext, GoesOn
<1>3. QED BY <1>1, <1>2, RequestTypesCorrect, PTL DEF RequestsSpec

(* No retry starts before the server's pause is over.                       *)
THEOREM RetryAfterIsKept == RequestsSpec => RetryAfterKept
<1>1. Owing /\ [RequestsNext]_requesting => [\A c \in Caller : Starts(c) => owed[c] = 0]_requesting
  BY DEF Owing, Starts
<1>2. QED BY <1>1, OwingHolds, PTL DEF RequestsSpec, RetryAfterKept

-----------------------------------------------------------------------------
(***************************************************************************)
(* The token cache for any number of commands, sites and lifetimes.  One   *)
(* inductive invariant carries all of it: Typed adds to the types that an  *)
(* attempt is only counted while a request is made, and Dated dates the    *)
(* token a request is about to be sent with.                               *)
(***************************************************************************)
(* A process that is not yet sending has counted no attempt, and one that   *)
(* will send has an attempt left; what is about to be written is an entry.  *)
Typed ==
  /\ TypeOK
  /\ \A p \in Process :
       /\ pc[p] \in {"idle", "fetching", "opening", "writing"} => attempt[p] = 0
       /\ pc[p] \in {"ready", "pausing"} => attempt[p] < Attempts
       /\ pc[p] \in {"pausing", "flying"} => attempt[p] > 0
       /\ pc[p] \in {"opening", "writing"} => held[p] \in Entries
       /\ pc[p] = "fetching" => looked[p] <= clock

(* A token left by an earlier command is an entry whose expiry is honest. *)
LEMMA LeftoverFacts ==
  ASSUME NEW x \in Leftovers
  PROVE  x.kind = "entry" /\ x.entry \in Entries /\ x.entry.until <= x.entry.dies
<1>1. PICK key \in Key : \E life \in Lives : x = Holding(Entry(key, life, life))
  BY DEF Leftovers
<1>2. PICK life \in Lives : x = Holding(Entry(key, life, life))
  BY <1>1
<1>3. life \in Nat
  BY TokenCacheAssumption
<1>4. QED BY <1>2, <1>3 DEF Holding, Entry, Entries

LEMMA InitTyped == Init => Typed
<1>0. Init => file = NoFile \/ (file.kind = "entry" /\ file.entry \in Entries)
  BY LeftoverFacts DEF Init
<1>1. Init => TypeOK
  BY <1>0, TokenCacheAssumption DEF Init, TypeOK, Resting, Waiting
<1>2. Init => Typed
  BY <1>1 DEF Init, Typed
<1>3. QED BY <1>2

LEMMA EndsTyped ==
  ASSUME Typed, NEW p \in Process, NEW how \in {"done", "failed", "killed"}, Ends(p, how)
  PROVE  Typed'
<1> USE TokenCacheAssumption DEF Typed, TypeOK, Ends, AtOnce, Resting
<1>1. held' \in [Process -> Entries \cup {Nothing}]
  OBVIOUS
<1>2. QED BY <1>1

LEMMA NextTyped == Typed /\ [Next]_vars => Typed'
<1> SUFFICES ASSUME Typed, [Next]_vars PROVE Typed'
  OBVIOUS
<1> USE TokenCacheAssumption DEF Typed, TypeOK, Go, AtOnce, Within, Resting, Waiting
<1>1. CASE Tick
  BY <1>1 DEF Tick
<1>2. ASSUME NEW p \in Process, UseMemory(p) PROVE Typed'
  BY <1>2 DEF UseMemory
<1>3. ASSUME NEW p \in Process, UseFile(p) PROVE Typed'
  <2>1. file.entry \in Entries
    BY <1>3 DEF UseFile, Fits, NoFile, Mixture
  <2>2. QED BY <1>3, <2>1 DEF UseFile
<1>4. ASSUME NEW p \in Process, Fetch(p) PROVE Typed'
  BY <1>4 DEF Fetch
<1>5. ASSUME NEW p \in Process, Fetched(p) PROVE Typed'
  <2>1. PICK life \in Lives, age \in 0..(clock - looked[p]) :
          held' = [held EXCEPT ![p] = Entry(KeyOf[p], clock - age + life, looked[p] + life)]
    BY <1>5 DEF Fetched
  <2>2. clock \in Nat /\ looked[p] \in Nat /\ life \in Nat /\ age \in Nat /\ age <= clock - looked[p]
    BY TokenCacheAssumption
  <2>3. clock - age + life \in Nat /\ looked[p] + life \in Nat
    BY <2>2
  <2>4. KeyOf[p] \in Key
    BY TokenCacheAssumption
  <2>5. Entry(KeyOf[p], clock - age + life, looked[p] + life) \in Entries
    BY <2>3, <2>4 DEF Entry, Entries
  <2>6. QED BY <1>5, <2>1, <2>5 DEF Fetched
<1>6. ASSUME NEW p \in Process, Open(p) PROVE Typed'
  BY <1>6 DEF Open
<1>7. ASSUME NEW p \in Process, Write(p) PROVE Typed'
  <2>1. file' = Holding(held[p]) \/ file' = Mixture
    BY <1>7 DEF Write, Written
  <2>2. held[p] \in Entries
    BY <1>7 DEF Write
  <2>3. file' = NoFile \/ file' = Mixture \/ (file'.kind = "entry" /\ file'.entry \in Entries)
    BY <2>1, <2>2 DEF Holding
  <2>4. QED BY <1>7, <2>3 DEF Write
<1>8. ASSUME NEW p \in Process, CannotWrite(p) PROVE Typed'
  BY <1>8 DEF CannotWrite
<1>9. ASSUME NEW p \in Process, Send(p) PROVE Typed'
  BY <1>9 DEF Send
<1>10. ASSUME NEW p \in Process, Delay(p) \/ Resume(p) PROVE Typed'
  BY <1>10 DEF Delay, Resume
<1>11. ASSUME NEW p \in Process, NextRequest(p) PROVE Typed'
  BY <1>11 DEF NextRequest
<1>12. ASSUME NEW p \in Process, FetchFails(p) \/ Finish(p) \/ Fails(p) \/ Kill(p) PROVE Typed'
  BY <1>12, EndsTyped DEF FetchFails, Finish, Fails, Kill
<1>13. CASE UNCHANGED vars
  BY <1>13 DEF vars
<1>14. QED
  BY <1>1, <1>2, <1>3, <1>4, <1>5, <1>6, <1>7, <1>8, <1>9, <1>10, <1>11, <1>12, <1>13
     DEF Next, Progress

(* The type invariant, for any processes, keys and lifetimes.              *)
THEOREM TokenTypesCorrect == Spec => []TypeOK
<1>1. Spec => []Typed
  BY InitTyped, NextTyped, PTL DEF Spec
<1>2. Typed => TypeOK
  BY DEF Typed
<1>3. QED BY <1>1, <1>2, PTL

-----------------------------------------------------------------------------
(* Whatever the file holds, what a process keeps in memory is its own: the  *)
(* file is only a source of tokens through Fits, and a fetch asks for its   *)
(* own key.  Memory may be empty only while no request is under way.        *)
Keyed ==
  \A p \in Process :
    /\ held[p] = Nothing \/ held[p].key = KeyOf[p]
    /\ pc[p] \in {"opening", "writing", "ready", "flying", "pausing"} => held[p].key = KeyOf[p]

LEMMA NextKeyed == Typed /\ Keyed /\ [Next]_vars => Keyed'
<1> SUFFICES ASSUME Typed, Keyed, [Next]_vars PROVE Keyed'
  OBVIOUS
<1> USE DEF Typed, TypeOK, Keyed, Go, Ends
<1>1. CASE Tick
  BY <1>1 DEF Tick
<1>2. ASSUME NEW p \in Process, UseMemory(p) PROVE Keyed'
  BY <1>2 DEF UseMemory
<1>3. ASSUME NEW p \in Process, UseFile(p) PROVE Keyed'
  BY <1>3 DEF UseFile, Fits
<1>4. ASSUME NEW p \in Process, Fetched(p) PROVE Keyed'
  BY <1>4 DEF Fetched, Entry
<1>5. ASSUME NEW p \in Process, Fetch(p) \/ Open(p) \/ Write(p) \/ CannotWrite(p) PROVE Keyed'
  BY <1>5 DEF Fetch, Open, Write, CannotWrite
<1>6. ASSUME NEW p \in Process, Send(p) \/ Delay(p) \/ Resume(p) \/ NextRequest(p) PROVE Keyed'
  BY <1>6 DEF Send, Delay, Resume, NextRequest
<1>7. ASSUME NEW p \in Process, FetchFails(p) \/ Finish(p) \/ Fails(p) \/ Kill(p) PROVE Keyed'
  BY <1>7 DEF FetchFails, Finish, Fails, Kill
<1>8. CASE UNCHANGED vars
  BY <1>8 DEF vars
<1>9. QED BY <1>1, <1>2, <1>3, <1>4, <1>5, <1>6, <1>7, <1>8 DEF Next, Progress

(* Commands on any number of sites can share the file: none ever sends a    *)
(* token of another site or of other credentials.                           *)
THEOREM TokenAlwaysFits == Spec => []TokenFitsRequest
<1>1. Init => Keyed
  BY DEF Init, Keyed
<1>2. Keyed => TokenFitsRequest
  BY DEF Keyed, TokenFitsRequest
<1>3. QED BY <1>1, <1>2, InitTyped, NextTyped, NextKeyed, PTL DEF Spec

-----------------------------------------------------------------------------
(* The expiry the client records is the server's or earlier, everywhere.    *)
LEMMA NextHonest == Typed /\ NeverOverstated /\ [Next]_vars => NeverOverstated'
<1> SUFFICES ASSUME Typed, NeverOverstated, [Next]_vars PROVE NeverOverstated'
  OBVIOUS
<1> USE TokenCacheAssumption DEF Typed, TypeOK, NeverOverstated, Go, Ends
<1>1. CASE Tick
  BY <1>1 DEF Tick
<1>2. ASSUME NEW p \in Process, UseMemory(p) \/ UseFile(p) \/ Fetch(p) PROVE NeverOverstated'
  BY <1>2 DEF UseMemory, UseFile, Fetch
<1>3. ASSUME NEW p \in Process, Fetched(p) PROVE NeverOverstated'
  <2>1. PICK life \in Lives, age \in 0..(clock - looked[p]) :
          held' = [held EXCEPT ![p] = Entry(KeyOf[p], clock - age + life, looked[p] + life)]
    BY <1>3 DEF Fetched
  <2>2. clock \in Nat /\ looked[p] \in Nat /\ life \in Nat /\ age \in Nat
    <3>1. looked[p] <= clock
      BY <1>3 DEF Fetched
    <3>2. QED BY <3>1
  <2>3. looked[p] + life <= clock - age + life
    BY <2>2
  <2>4. held'[p].until <= held'[p].dies
    BY <2>1, <2>3 DEF Entry
  <2>5. QED BY <1>3, <2>1, <2>4 DEF Fetched
<1>4. ASSUME NEW p \in Process, Open(p) \/ CannotWrite(p) PROVE NeverOverstated'
  BY <1>4 DEF Open, CannotWrite, NoFile, Nothing, Entry
<1>5. ASSUME NEW p \in Process, Write(p) PROVE NeverOverstated'
  <2>1. file' = Holding(held[p]) \/ file' = Mixture
    BY <1>5 DEF Write, Written
  <2>2. file'.entry = held[p] \/ file'.entry = Nothing
    BY <2>1 DEF Holding, Mixture
  <2>3. QED BY <1>5, <2>2 DEF Write, Nothing, Entry
<1>6. ASSUME NEW p \in Process, Send(p) \/ Delay(p) \/ Resume(p) \/ NextRequest(p)
      PROVE NeverOverstated'
  BY <1>6 DEF Send, Delay, Resume, NextRequest
<1>7. ASSUME NEW p \in Process, FetchFails(p) \/ Finish(p) \/ Fails(p) \/ Kill(p)
      PROVE NeverOverstated'
  BY <1>7 DEF FetchFails, Finish, Fails, Kill, Nothing, Entry
<1>8. CASE UNCHANGED vars
  BY <1>8 DEF vars
<1>9. QED BY <1>1, <1>2, <1>3, <1>4, <1>5, <1>6, <1>7, <1>8 DEF Next, Progress

(* No token is taken to live longer than the server lets it.               *)
THEOREM ExpiryNeverOverstated == Spec => []NeverOverstated
<1>1. Init => NeverOverstated
  <2>1. ASSUME Init PROVE file.entry.until <= file.entry.dies
    <3>1. file = NoFile \/ file \in Leftovers
      BY <2>1 DEF Init
    <3>2. QED BY <3>1, LeftoverFacts DEF NoFile, Nothing, Entry
  <2>2. ASSUME Init PROVE \A p \in Process : held[p].until <= held[p].dies
    BY <2>2 DEF Init, Nothing, Entry
  <2>3. QED BY <2>1, <2>2 DEF NeverOverstated
<1>2. QED BY <1>1, InitTyped, NextTyped, NextHonest, PTL DEF Spec

-----------------------------------------------------------------------------
(* What FirstAttemptAlive needs to know while a first attempt is prepared:  *)
(* no time passes between _token's look at the clock and the request when   *)
(* the token was at hand, and a token just fetched is dated from that look. *)
Fresh(p) == \E life \in Lives : held[p].until = looked[p] + life

Dated ==
  /\ FirstAttemptAlive
  /\ \A p \in Process :
       /\ pc[p] \in {"opening", "writing"} => Fresh(p)
       /\ pc[p] = "ready" /\ attempt[p] = 0 => clock + Skew < held[p].dies \/ Fresh(p)

LEMMA NextDated == Typed /\ NeverOverstated /\ Dated /\ [Next]_vars => Dated'
<1> SUFFICES ASSUME Typed, NeverOverstated, Dated, [Next]_vars PROVE Dated'
  OBVIOUS
<1> USE TokenCacheAssumption DEF Typed, TypeOK, Dated, FirstAttemptAlive, Fresh, Go, Ends,
          Waiting, Resting
<1>1. CASE Tick
  BY <1>1 DEF Tick
<1>2. ASSUME NEW p \in Process, UseMemory(p) PROVE Dated'
  <2>1. clock + Skew < held[p].dies
    <3>1. held[p] \in Entries
      BY <1>2 DEF UseMemory
    <3>2. QED BY <1>2, <3>1 DEF UseMemory, StillGood, NeverOverstated, Entries
  <2>2. QED BY <1>2, <2>1 DEF UseMemory
<1>3. ASSUME NEW p \in Process, UseFile(p) PROVE Dated'
  <2>1. clock + Skew < file.entry.dies
    <3>1. file.entry \in Entries
      BY <1>3 DEF UseFile, Fits, NoFile, Mixture
    <3>2. QED BY <1>3, <3>1 DEF UseFile, Fits, StillGood, NeverOverstated, Entries
  <2>2. QED BY <1>3, <2>1 DEF UseFile
<1>4. ASSUME NEW p \in Process, Fetched(p) PROVE Dated'
  BY <1>4 DEF Fetched, Entry
<1>5. ASSUME NEW p \in Process, Fetch(p) \/ Open(p) \/ Write(p) \/ CannotWrite(p) PROVE Dated'
  BY <1>5 DEF Fetch, Open, Write, CannotWrite
<1>6. ASSUME NEW p \in Process, Send(p) PROVE Dated'
  BY <1>6 DEF Send
<1>7. ASSUME NEW p \in Process, Delay(p) \/ Resume(p) \/ NextRequest(p) PROVE Dated'
  BY <1>7 DEF Delay, Resume, NextRequest
<1>8. ASSUME NEW p \in Process, FetchFails(p) \/ Finish(p) \/ Fails(p) \/ Kill(p) PROVE Dated'
  BY <1>8 DEF FetchFails, Finish, Fails, Kill
<1>9. CASE UNCHANGED vars
  BY <1>9 DEF vars
<1>10. QED
  BY <1>1, <1>2, <1>3, <1>4, <1>5, <1>6, <1>7, <1>8, <1>9 DEF Next, Progress

(* The skew does its work for every first attempt, whatever the lifetimes,  *)
(* the pauses and the number of commands.                                   *)
THEOREM FirstAttemptsAreAlive == Spec => []FirstAttemptAlive
<1>1. Init => Dated
  BY DEF Init, Dated, FirstAttemptAlive
<1>2. Dated => FirstAttemptAlive
  BY DEF Dated
<1>3. QED
  BY <1>1, <1>2, InitTyped, NextTyped, NextDated, ExpiryNeverOverstated, PTL DEF Spec

(* Both halves together, for any lifetimes, skew and delays. *)
THEOREM AlwaysInTime == Spec => []InTime
BY ExpiryNeverOverstated, FirstAttemptsAreAlive, PTL DEF InTime
=============================================================================
