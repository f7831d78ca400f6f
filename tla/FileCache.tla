----------------------------- MODULE FileCache -----------------------------
(***************************************************************************)
(* warcraft_api/cache.py: FileCacheStore.get and .set and clear_file_cache *)
(* on one key, run by processes that share the cache directory and nothing *)
(* else.  Each file-system call is a step of its own: only os.replace and  *)
(* unlink are atomic, a get or a set is not.                               *)
(***************************************************************************)
EXTENDS Integers, FiniteSetsExt

CONSTANTS
  Reader, Writer, Clearer,   \* processes in get, set and clear_file_cache
  Ttl,                       \* the ttl_seconds a set may ask for
  LastTime,                  \* bound on the clock
  MaxWrites                  \* bound on the sets

ASSUME CacheAssumption ==
  /\ Reader \cap Writer = {} /\ Reader \cap Clearer = {} /\ Writer \cap Clearer = {}
  /\ Ttl \subseteq Int
  /\ LastTime \in Nat /\ MaxWrites \in Nat

VARIABLES
  now,      \* time.time()
  file,     \* the entry's file, or NoFile
  writes,   \* sets begun; a payload is named by the set that stores it
  pc,       \* where each process is
  local,    \* what each process holds of the entry
  reply,    \* what each reader's last get returned
  past      \* history: when each payload was stored and is due, how many
            \* entries were replaced before it, and where each get started

caching == <<now, file, writes, pc, local, reply, past>>

Time == 0..LastTime
Deadline == {t + d : t \in Time, d \in Ttl}
Payload == 0..MaxWrites   \* 0: the entry that was there before, 1..: the sets
Proc == Reader \cup Writer \cup Clearer

(* A file: "entry" is one set's JSON, "broken" does not parse, "odd" parses *)
(* but is not an entry (no dict, no numeric expires_at).                    *)
File == [kind : {"entry", "broken", "odd"}, payload : Payload, expires : Deadline, mtime : Time]
NoFile == [kind |-> "none", payload |-> 0, expires |-> 0, mtime |-> 0]

Miss == [hit |-> FALSE, payload |-> 0, age |-> 0, ttl |-> 0, at |-> 0]
Reply == {Miss} \cup [hit : {TRUE}, payload : Payload, age : Nat, ttl : Nat, at : Time]

AtLeast0(n) == IF n < 0 THEN 0 ELSE n

Goto(p, from, to) == pc[p] = from /\ pc' = [pc EXCEPT ![p] = to]

Keep(p, entry) == local' = [local EXCEPT ![p] = entry]

(* The rank of the newest set that has replaced the entry. *)
Newest == Max({past.rank[n] : n \in Payload})

CacheInit ==
  /\ now = 0
  /\ file \in {NoFile} \cup [kind : {"entry", "broken", "odd"}, payload : {0},
                             expires : Deadline, mtime : {0}]
  /\ writes = 0
  /\ pc = [p \in Proc |-> "idle"]
  /\ local = [p \in Proc |-> NoFile]
  /\ reply = [r \in Reader |-> Miss]
  /\ past = [born |-> [n \in Payload |-> 0], due |-> [n \in Payload |-> file.expires],
             rank |-> [n \in Payload |-> 0], floor |-> [r \in Reader |-> 0]]

Tick ==
  /\ now < LastTime
  /\ now' = now + 1
  /\ UNCHANGED <<file, writes, pc, local, reply, past>>

-----------------------------------------------------------------------------
(* get: exists, read_text, stat, and the deadline checked at the end.       *)
(* "unlink" is the removal of a broken or expired entry before the miss.    *)

Return(r, answer) ==
  /\ reply' = [reply EXCEPT ![r] = answer]
  /\ local' = [local EXCEPT ![r] = NoFile]

Exists(r) ==
  /\ IF file = NoFile THEN Goto(r, "idle", "idle") /\ Return(r, Miss)
                      ELSE Goto(r, "idle", "read") /\ UNCHANGED <<local, reply>>
  /\ past' = [past EXCEPT !.floor[r] = Newest]
  /\ UNCHANGED <<now, file, writes>>

(* read_text of a file that is gone and json.loads of a broken one both   *)
(* raise, and so does stat below: the except clause unlinks.              *)
ReadText(r) ==
  /\ IF file.kind \in {"none", "broken"} THEN Goto(r, "read", "unlink") ELSE Goto(r, "read", "stat")
  /\ Keep(r, file)
  /\ UNCHANGED <<now, file, writes, reply, past>>

Stat(r) ==
  /\ IF file = NoFile THEN Goto(r, "stat", "unlink") /\ UNCHANGED local
     ELSE Goto(r, "stat", "check") /\ Keep(r, [local[r] EXCEPT !.mtime = file.mtime])
  /\ UNCHANGED <<now, file, writes, reply, past>>

Expired(r) == local[r].kind = "entry" /\ local[r].expires <= now

Check(r) ==
  LET entry == local[r] IN
  /\ IF Expired(r) THEN Goto(r, "check", "unlink") /\ UNCHANGED <<local, reply>>
     ELSE /\ Goto(r, "check", "idle")
          /\ Return(r, IF entry.kind = "odd" THEN Miss
                       ELSE [hit |-> TRUE, payload |-> entry.payload,
                             age |-> AtLeast0(now - entry.mtime),
                             ttl |-> AtLeast0(entry.expires - entry.mtime),
                             at |-> now])
  /\ UNCHANGED <<now, file, writes, past>>

Unlink(r) ==
  /\ Goto(r, "unlink", "idle")
  /\ file' = NoFile
  /\ Return(r, Miss)
  /\ UNCHANGED <<now, writes, past>>

-----------------------------------------------------------------------------
(* set: the deadline is computed first, a temporary file of the writer's    *)
(* own is written, then it replaces the entry.  The entry's mtime is when   *)
(* the temporary file was written.                                          *)

Begin(w, ttl) ==
  /\ writes < MaxWrites
  /\ writes' = writes + 1
  /\ Goto(w, "idle", "dump")
  /\ Keep(w, [kind |-> "entry", payload |-> writes', expires |-> now + ttl, mtime |-> 0])
  /\ past' = [past EXCEPT !.due[writes'] = now + ttl]
  /\ UNCHANGED <<now, file, reply>>

WriteTemp(w) ==
  /\ Goto(w, "dump", "replace")
  /\ Keep(w, [local[w] EXCEPT !.mtime = now])
  /\ past' = [past EXCEPT !.born[local[w].payload] = now]
  /\ UNCHANGED <<now, file, writes, reply>>

\* Mutant: the temporary file does not replace an existing entry.
ReplaceIfMissing(w) ==
  /\ Goto(w, "replace", "idle")
  /\ file' = IF file = NoFile THEN local[w] ELSE file
  /\ Keep(w, NoFile)
  /\ past' = [past EXCEPT !.rank[local[w].payload] = Newest + 1]
  /\ UNCHANGED <<now, writes, reply>>

Replace(w) ==
  /\ Goto(w, "replace", "idle")
  /\ file' = local[w]
  /\ Keep(w, NoFile)
  /\ past' = [past EXCEPT !.rank[local[w].payload] = Newest + 1]
  /\ UNCHANGED <<now, writes, reply>>

(* Any OSError or a kill: the entry is as it was, the set is dropped.       *)
Abandon(w) ==
  /\ pc[w] \in {"dump", "replace"}
  /\ Goto(w, pc[w], "idle")
  /\ Keep(w, NoFile)
  /\ UNCHANGED <<now, file, writes, reply, past>>

-----------------------------------------------------------------------------
(* clear_file_cache: every entry is listed with its status at the listing's *)
(* time, then the selected ones are unlinked one by one.                    *)

ListEntries(c, selection) ==
  /\ file # NoFile
  /\ Goto(c, "idle", selection)
  /\ Keep(c, [file EXCEPT !.mtime = now])
  /\ UNCHANGED <<now, file, writes, reply, past>>

ListedAsExpired(c) == local[c].kind = "entry" /\ local[c].expires <= local[c].mtime

ClearEntry(c) ==
  /\ \E selection \in {"all", "expired"} : Goto(c, selection, "idle")
  /\ file' = IF pc[c] = "all" \/ ListedAsExpired(c) THEN NoFile ELSE file
  /\ Keep(c, NoFile)
  /\ UNCHANGED <<now, writes, reply, past>>

ReadStep(r) == Exists(r) \/ ReadText(r) \/ Stat(r) \/ Check(r) \/ Unlink(r)
WriteStep(w) == (\E ttl \in Ttl : Begin(w, ttl)) \/ WriteTemp(w) \/ Replace(w) \/ Abandon(w)
ClearStep(c) ==
  (\E selection \in {"all", "expired"} : ListEntries(c, selection)) \/ ClearEntry(c)

CacheNext ==
  \/ Tick
  \/ \E r \in Reader : ReadStep(r)
  \/ \E w \in Writer : WriteStep(w)
  \/ \E c \in Clearer : ClearStep(c)

CacheSpec == CacheInit /\ [][CacheNext]_caching

-----------------------------------------------------------------------------
(* Properties.                                                              *)

(* A hit is never older than the entry that was current when the get began: *)
(* a set that has returned is seen by every later get, whatever readers,    *)
(* writers and clearers do in between.                                      *)
HitIsCurrent ==
  \A r \in Reader : pc[r] = "idle" /\ reply[r].hit => past.rank[reply[r].payload] >= past.floor[r]

(* A hit was still live when its deadline was checked: "expires_at" travels *)
(* with the payload, so a replacement read half way never lends an expired  *)
(* payload its deadline.                                                    *)
HitIsLive ==
  \A r \in Reader : reply[r].hit => past.due[reply[r].payload] > reply[r].at

(* Concurrent writers never tear an entry: what does not parse was there    *)
(* before any of them ran, and goes away with the first write or removal.   *)
NeverTorn ==
  /\ file.kind \in {"broken", "odd"} => file.payload = 0 /\ Newest = 0
  /\ file.kind = "entry" => file.expires = past.due[file.payload]
                            /\ past.rank[file.payload] = Newest

(* All three: what a get answers with is an entry as one set stored it,     *)
(* still live, and no older than what was there when the get began.         *)
HitsHold == HitIsCurrent /\ HitIsLive /\ NeverTorn

(* "set replaces the file atomically, so the mtime is when the entry was    *)
(* stored" (FileCacheStore.get): a hit's age is the time since its payload  *)
(* was written, and never understates it.  The code reads the text before   *)
(* the time of the file, and an entry replaced in between breaks this.      *)
AgeIsOfThePayload ==
  \A r \in Reader : reply[r].hit => reply[r].age = reply[r].at - past.born[reply[r].payload]

(* "Only clear expired file-cache entries" (wowhead cache-clear             *)
(* --expired-only): such a clear never removes a live entry.  The code goes *)
(* by its listing, and an entry rewritten since then breaks this.           *)
OnlyExpiredCleared ==
  [][\A c \in Clearer : pc[c] = "expired" /\ pc'[c] = "idle" /\ file' # file =>
       file.kind = "entry" /\ file.expires <= now]_caching
=============================================================================
