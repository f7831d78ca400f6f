----------------------------- MODULE TokenCache -----------------------------
(***************************************************************************)
(* The OAuth client-credentials tokens of Blizzard and Warcraft Logs:      *)
(* ClientTokenCache (warcraft_api/client_credentials.py) over the state    *)
(* file of warcraft_core/auth.py, and _token and the requests that use it  *)
(* in the two clients.  Commands run as processes of their own and share   *)
(* one file, which holds the last token any of them fetched and is written *)
(* in place: opening it empties it, and two writers can leave a mixture.   *)
(* A process can be killed between any two steps.                          *)
(***************************************************************************)
EXTENDS Integers, FiniteSets

CONSTANTS
  Process,      \* the commands
  Key,          \* what a token is good for: a scope (region or site) and credentials
  KeyOf,        \* the key of each command
  SizeOf,       \* how long the file is that holds a token of this key
  Lives,        \* the expires_in values the server answers with
  Skew,         \* TOKEN_SKEW_SECONDS
  Transit,      \* the longest a request is under way before it is answered or times out
  FetchTime,    \* the longest a token request takes, with its retries
  Pause,        \* MAX_RETRY_AFTER_SECONDS
  Attempts,     \* DEFAULT_RETRY_ATTEMPTS
  MaxRequests,  \* bound: requests of each command
  MaxClock      \* bound: the time the run covers

ASSUME TokenCacheAssumption ==
  /\ IsFiniteSet(Process) /\ \A p \in Process : KeyOf[p] \in Key
  /\ SizeOf \in [Key -> Nat]
  /\ Lives \subseteq Nat \ {0}
  /\ Skew \in Nat /\ Transit \in Nat /\ FetchTime \in Nat /\ Pause \in Nat
  /\ Attempts \in Nat \ {0} /\ MaxRequests \in Nat \ {0} /\ MaxClock \in Nat

VARIABLES
  clock,     \* the time, in ticks
  file,      \* what the state file holds
  pc,        \* where each process is
  looked,    \* when it last read the time in _token
  held,      \* its in-memory token, with the expiry it has recorded for it
  attempt,   \* which attempt of the request this is
  requests,  \* how many requests it has begun
  due,       \* when its present step is over at the latest
  sentAt     \* history: when it last sent a request

vars == <<clock, file, pc, looked, held, attempt, requests, due, sentAt>>

(* A token dies when the server says so; until is what the client believes. *)
Entry(key, dies, until) == [key |-> key, dies |-> dies, until |-> until]
Nothing == Entry("none", 0, 0)

(* The file: absent or emptied, a mixture of two writers' bytes, or an entry. *)
NoFile == [kind |-> "empty", entry |-> Nothing]
Mixture == [kind |-> "mixed", entry |-> Nothing]
Holding(e) == [kind |-> "entry", entry |-> e]

(* What an earlier command may have left: a token fetched a moment ago. *)
Leftovers == {Holding(Entry(key, life, life)) : key \in Key, life \in Lives}

Init ==
  /\ clock = 0
  /\ file \in {NoFile} \cup Leftovers
  /\ pc = [p \in Process |-> "idle"]
  /\ looked = [p \in Process |-> 0]
  /\ held = [p \in Process |-> Nothing]
  /\ attempt = [p \in Process |-> 0]
  /\ requests = [p \in Process |-> 0]
  /\ due = [p \in Process |-> 0]
  /\ sentAt = [p \in Process |-> 0]

(* Time passes while every process that is under way or asleep still may be. *)
Waiting == {"fetching", "flying", "pausing"}
Resting == {"idle", "done", "failed", "killed"}

Tick ==
  /\ clock < MaxClock
  /\ \A p \in Process : pc[p] \in Resting \/ (pc[p] \in Waiting /\ clock < due[p])
  /\ clock' = clock + 1
  /\ UNCHANGED <<file, pc, looked, held, attempt, requests, due, sentAt>>

Go(p, from, to) == pc[p] = from /\ pc' = [pc EXCEPT ![p] = to]
Within(p, ticks) == due' = [due EXCEPT ![p] = clock + ticks]
AtOnce(p) == due' = [due EXCEPT ![p] = 0]

(* The process ends, and its memory with it. *)
Ends(p, how) ==
  /\ pc' = [pc EXCEPT ![p] = how]
  /\ looked' = [looked EXCEPT ![p] = 0]
  /\ held' = [held EXCEPT ![p] = Nothing]
  /\ attempt' = [attempt EXCEPT ![p] = 0]
  /\ requests' = [requests EXCEPT ![p] = 0]
  /\ sentAt' = [sentAt EXCEPT ![p] = 0]
  /\ AtOnce(p)
  /\ UNCHANGED <<clock, file>>

-----------------------------------------------------------------------------
(* _token.                                                                  *)

StillGood(until) == clock < until - Skew

\* Mutant: the entry's key is not compared.
FitsAnyone(p) == file.kind = "entry" /\ StillGood(file.entry.until)

(* ClientTokenCache.load: anything but a live entry of this key is no token. *)
Fits(p) ==
  file.kind = "entry" /\ file.entry.key = KeyOf[p] /\ StillGood(file.entry.until)

(* The token in memory is only ever of the process's own key. *)
UseMemory(p) ==
  /\ Go(p, "idle", "ready")
  /\ requests[p] < MaxRequests
  /\ held[p] # Nothing /\ StillGood(held[p].until)
  /\ requests' = [requests EXCEPT ![p] = @ + 1]
  /\ looked' = [looked EXCEPT ![p] = clock]
  /\ UNCHANGED <<clock, file, held, attempt, due, sentAt>>

UseFile(p) ==
  /\ Go(p, "idle", "ready")
  /\ requests[p] < MaxRequests
  /\ ~(held[p] # Nothing /\ StillGood(held[p].until))
  /\ Fits(p)
  /\ requests' = [requests EXCEPT ![p] = @ + 1]
  /\ looked' = [looked EXCEPT ![p] = clock]
  /\ held' = [held EXCEPT ![p] = file.entry]
  /\ UNCHANGED <<clock, file, attempt, due, sentAt>>

\* Mutant: a file that cannot be read stops the command.
FetchUnlessBroken(p) ==
  /\ file.kind # "mixed" /\ Go(p, "idle", "fetching")
  /\ requests[p] < MaxRequests
  /\ ~(held[p] # Nothing /\ StillGood(held[p].until))
  /\ ~Fits(p)
  /\ requests' = [requests EXCEPT ![p] = @ + 1]
  /\ looked' = [looked EXCEPT ![p] = clock]
  /\ Within(p, FetchTime)
  /\ UNCHANGED <<clock, file, held, attempt, sentAt>>

Fetch(p) ==
  /\ Go(p, "idle", "fetching")
  /\ requests[p] < MaxRequests
  /\ ~(held[p] # Nothing /\ StillGood(held[p].until))
  /\ ~Fits(p)
  /\ requests' = [requests EXCEPT ![p] = @ + 1]
  /\ looked' = [looked EXCEPT ![p] = clock]
  /\ Within(p, FetchTime)
  /\ UNCHANGED <<clock, file, held, attempt, sentAt>>

\* Mutant: the token's life is counted from when the answer is in.
FetchedLater(p) ==
  /\ Go(p, "fetching", "opening")
  /\ \E life \in Lives, age \in 0..(clock - looked[p]) :
       held' = [held EXCEPT ![p] = Entry(KeyOf[p], clock - age + life, clock + life)]
  /\ AtOnce(p) /\ UNCHANGED <<clock, file, looked, attempt, requests, sentAt>>

(* The server has minted a token some time since the request began; its     *)
(* life is counted from before the request.                                 *)
Fetched(p) ==
  /\ Go(p, "fetching", "opening")
  /\ \E life \in Lives, age \in 0..(clock - looked[p]) :
       held' = [held EXCEPT ![p] = Entry(KeyOf[p], clock - age + life, looked[p] + life)]
  /\ AtOnce(p) /\ UNCHANGED <<clock, file, looked, attempt, requests, sentAt>>

FetchFails(p) == pc[p] = "fetching" /\ Ends(p, "failed")

(* save_provider_auth_state: O_TRUNC empties the file before it is written. *)
Open(p) ==
  /\ Go(p, "opening", "writing")
  /\ file' = NoFile
  /\ UNCHANGED <<clock, looked, held, attempt, requests, due, sentAt>>

(* The bytes of a longer entry written since stay behind the shorter one.   *)
Written(e) ==
  IF file.kind = "empty" THEN {Holding(e)}
  ELSE IF file.kind = "entry" /\ SizeOf[file.entry.key] <= SizeOf[e.key] THEN {Holding(e)}
  ELSE {Holding(e), Mixture}

Write(p) ==
  /\ Go(p, "writing", "ready")
  /\ file' \in Written(held[p])
  /\ UNCHANGED <<clock, looked, held, attempt, requests, due, sentAt>>

(* A file that cannot be written is no error: the token is used all the same. *)
CannotWrite(p) ==
  /\ pc[p] \in {"opening", "writing"} /\ Go(p, pc[p], "ready")
  /\ UNCHANGED <<clock, file, looked, held, attempt, requests, due, sentAt>>

-----------------------------------------------------------------------------
(* The request, with the token it has got: request_with_retries.            *)

Send(p) ==
  /\ Go(p, "ready", "flying")
  /\ attempt' = [attempt EXCEPT ![p] = @ + 1]
  /\ sentAt' = [sentAt EXCEPT ![p] = clock]
  /\ Within(p, Transit)
  /\ UNCHANGED <<clock, file, looked, held, requests>>

(* A retryable answer or a timeout: the same token is sent again. *)
Delay(p) ==
  /\ Go(p, "flying", "pausing")
  /\ attempt[p] < Attempts
  /\ Within(p, Pause)
  /\ UNCHANGED <<clock, file, looked, held, attempt, requests, sentAt>>

Resume(p) ==
  /\ Go(p, "pausing", "ready")
  /\ AtOnce(p)
  /\ UNCHANGED <<clock, file, looked, held, attempt, requests, sentAt>>

(* Answered: the command goes on to its next request, or is done. *)
NextRequest(p) ==
  /\ Go(p, "flying", "idle")
  /\ requests[p] < MaxRequests
  /\ attempt' = [attempt EXCEPT ![p] = 0]
  /\ looked' = [looked EXCEPT ![p] = 0]
  /\ sentAt' = [sentAt EXCEPT ![p] = 0]
  /\ AtOnce(p)
  /\ UNCHANGED <<clock, file, held, requests>>

Finish(p) == pc[p] = "flying" /\ Ends(p, "done")

Fails(p) == pc[p] = "flying" /\ Ends(p, "failed")

Kill(p) == pc[p] \notin Resting /\ Ends(p, "killed")

Progress(p) ==
  \/ UseMemory(p) \/ UseFile(p) \/ Fetch(p) \/ Fetched(p) \/ FetchFails(p)
  \/ Open(p) \/ Write(p) \/ CannotWrite(p)
  \/ Send(p) \/ Delay(p) \/ Resume(p) \/ NextRequest(p) \/ Finish(p) \/ Fails(p)

Next == Tick \/ \E p \in Process : Progress(p) \/ Kill(p)

(* Requests are answered or time out, pauses end, and a process runs on. *)
Spec == Init /\ [][Next]_vars /\ \A p \in Process : WF_vars(Progress(p))

-----------------------------------------------------------------------------
(* Properties.                                                              *)

Entries == [key : Key, dies : Nat, until : Nat]

TypeOK ==
  /\ clock \in 0..MaxClock
  /\ file = NoFile \/ file = Mixture \/ (file.kind = "entry" /\ file.entry \in Entries)
  /\ pc \in [Process -> Waiting \cup Resting \cup {"ready", "opening", "writing"}]
  /\ looked \in [Process -> 0..MaxClock]
  /\ held \in [Process -> Entries \cup {Nothing}]
  /\ attempt \in [Process -> 0..Attempts]
  /\ requests \in [Process -> 0..MaxRequests]
  /\ due \in [Process -> Nat] /\ sentAt \in [Process -> 0..MaxClock]

(* A request is only ever sent with a token minted for its own scope and    *)
(* credentials, whatever other commands have left in the file they share,   *)
(* and however their writes were interleaved or cut short.                  *)
TokenFitsRequest == \A p \in Process : pc[p] = "flying" => held[p].key = KeyOf[p]

(* No record of a token's expiry, in memory or in the file, is later than   *)
(* the server's, however long the token request took.                       *)
NeverOverstated ==
  /\ \A p \in Process : held[p].until <= held[p].dies
  /\ file.entry.until <= file.entry.dies

(* The first attempt of a request goes out with Skew to spare before its    *)
(* token dies, unless the token was fetched for this very request.          *)
FirstAttemptAlive ==
  \A p \in Process : pc[p] = "flying" /\ attempt[p] = 1 =>
    \/ sentAt[p] + Skew < held[p].dies
    \/ \E life \in Lives : held[p].until = looked[p] + life

(* Expiries are never recorded late, nor used to the last moment.           *)
InTime == NeverOverstated /\ FirstAttemptAlive

(* An unreadable, half-written or unwritable file costs a token request and *)
(* nothing else: every command that is not killed ends.                     *)
CommandsEnd ==
  \A p \in Process : pc[p] = "idle" ~> pc[p] \in {"done", "failed", "killed"}

(* client_credentials.py: a token counts as expired TOKEN_SKEW_SECONDS early *)
(* "so an in-flight request never races the expiry".  Two waits and the      *)
(* time of two answers exceed the skew: a third attempt can break this.      *)
NeverRacesExpiry ==
  \A p \in Process : pc[p] = "flying" => sentAt[p] < held[p].dies \/ held[p].dies - looked[p] <= Skew
=============================================================================
