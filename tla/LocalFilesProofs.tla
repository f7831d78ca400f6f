-------------------------- MODULE LocalFilesProofs --------------------------
(***************************************************************************)
(* What is kept on disk, for any number of processes, any lifetimes and    *)
(* any bounds: the entry of the response cache (FileCache), the exports of *)
(* the events of a fight (EventExport), the site index (IndexRefresh) and  *)
(* the bundles of guides (GuideBundles).                                   *)
(***************************************************************************)
EXTENDS FileCache, EventExport, IndexRefresh, GuideBundles,
        FiniteSetTheorems, SequenceTheorems, TLAPS

-----------------------------------------------------------------------------
(* FileCache.                                                              *)

Stages == {"idle", "read", "stat", "check", "unlink", "dump", "replace", "all", "expired"}
Content == [kind : {"none", "entry", "broken", "odd"}, payload : Payload, expires : Int, mtime : Nat]

CacheTyped ==
  /\ now \in Nat /\ writes \in 0..MaxWrites
  /\ file \in Content
  /\ pc \in [Proc -> Stages] /\ local \in [Proc -> Content]
  /\ reply \in [Reader -> [hit : BOOLEAN, payload : Payload, age : Nat, ttl : Nat, at : Nat]]
  /\ past \in [born : [Payload -> Nat], due : [Payload -> Int], rank : [Payload -> Nat], floor : [Reader -> Nat]]

(* Some set has replaced the entry last. *)
SomeNewest == \E n \in Payload : \A m \in Payload : past.rank[m] <= past.rank[n]

(* What a file or a process has of an entry is what one set that has begun  *)
(* was asked to store.                                                      *)
Stored1(entry) ==
  entry.kind = "entry" => entry.payload <= writes /\ entry.expires = past.due[entry.payload]

FileHolds ==
  /\ Stored1(file)
  /\ file.kind \in {"broken", "odd"} => file.payload = 0 /\ Newest = 0
  /\ file.kind = "entry" => past.rank[file.payload] = Newest

LocalHolds ==
  \A p \in Proc :
    /\ Stored1(local[p])
    /\ p \in Writer /\ pc[p] \in {"dump", "replace"} => local[p].kind = "entry"
    /\ p \in Reader /\ pc[p] \in {"stat", "check"} =>
         /\ local[p].kind \in {"entry", "odd"}
         /\ local[p].kind = "entry" => past.rank[local[p].payload] >= past.floor[p]
    /\ p \in Reader => pc[p] \in {"idle", "read", "stat", "check", "unlink"} /\ past.floor[p] <= Newest
    /\ p \in Writer => pc[p] \in {"idle", "dump", "replace"}

ReplyHolds ==
  \A r \in Reader : reply[r].hit =>
    /\ reply[r].payload <= writes /\ past.due[reply[r].payload] > reply[r].at
    /\ pc[r] = "idle" => past.rank[reply[r].payload] >= past.floor[r]

CacheInv == CacheTyped /\ SomeNewest /\ FileHolds /\ LocalHolds /\ ReplyHolds

(* The rank of the newest payload is the greatest. *)
LEMMA MaxOf ==
  ASSUME NEW f \in [Payload -> Nat], NEW n \in Payload, \A m \in Payload : f[m] <= f[n]
  PROVE  Max({f[m] : m \in Payload}) = f[n]
<1> DEFINE S == {f[m] : m \in Payload}
<1>1. f[n] \in S /\ \A y \in S : f[n] >= y
  OBVIOUS
<1>2. Max(S) \in S /\ \A y \in S : Max(S) >= y
  BY <1>1 DEF Max
<1>3. Max(S) \in Nat /\ f[n] \in Nat
  BY <1>2
<1>4. QED BY <1>1, <1>2, <1>3

LEMMA NewestIs ==
  ASSUME NEW n \in Payload, past.rank \in [Payload -> Nat], \A m \in Payload : past.rank[m] <= past.rank[n]
  PROVE  Newest = past.rank[n]
BY MaxOf DEF Newest

LEMMA NewestBounds ==
  ASSUME CacheTyped, SomeNewest
  PROVE  Newest \in Nat /\ (\A m \in Payload : past.rank[m] <= Newest) /\ \E n \in Payload : Newest = past.rank[n]
<1>1. PICK n \in Payload : \A m \in Payload : past.rank[m] <= past.rank[n]
  BY DEF SomeNewest
<1>2. past.rank \in [Payload -> Nat]
  BY DEF CacheTyped
<1>3. QED BY <1>1, <1>2, NewestIs

LEMMA CacheInitHolds == CacheInit => CacheInv
<1> SUFFICES ASSUME CacheInit PROVE CacheInv
  OBVIOUS
<1>1. 0 \in Payload /\ Ttl \subseteq Int /\ MaxWrites \in Nat
  BY CacheAssumption DEF Payload
<1>2. file \in Content /\ file.expires \in Int
  <2>1. NoFile \in Content /\ NoFile.expires \in Int
    BY <1>1 DEF NoFile, Content
  <2>2. Deadline \subseteq Int
    <3> SUFFICES ASSUME NEW t \in Time, NEW d \in Ttl PROVE t + d \in Int
      BY DEF Deadline
    <3>1. t \in Int /\ d \in Int
      BY <1>1, CacheAssumption DEF Time
    <3>2. QED BY <3>1
  <2>3. ASSUME NEW f \in [kind : {"entry", "broken", "odd"}, payload : {0}, expires : Deadline, mtime : {0}]
        PROVE  f \in Content /\ f.expires \in Int
    <3>1. /\ f.kind \in {"none", "entry", "broken", "odd"} /\ f.payload = 0 /\ f.expires \in Deadline /\ f.mtime = 0
          /\ f = [kind |-> f.kind, payload |-> f.payload, expires |-> f.expires, mtime |-> f.mtime]
      OBVIOUS
    <3>2. f.expires \in Int
      BY <2>2, <3>1
    <3>3. QED BY <1>1, <3>1, <3>2 DEF Content
  <2>4. file = NoFile \/ file \in [kind : {"entry", "broken", "odd"}, payload : {0}, expires : Deadline, mtime : {0}]
    BY DEF CacheInit
  <2>5. QED BY <2>1, <2>3, <2>4
<1>3. CacheTyped
  BY <1>1, <1>2 DEF CacheInit, CacheTyped, Miss, NoFile, Content, Stages, Proc
<1>4. SomeNewest /\ past.rank \in [Payload -> Nat] /\ past.rank[0] = 0
  BY <1>1 DEF CacheInit, SomeNewest
<1>5. Newest = 0
  BY <1>1, <1>4, NewestIs DEF CacheInit
<1>6. file.payload = 0 /\ past.due[0] = file.expires
  BY <1>1 DEF CacheInit, NoFile
<1>7. FileHolds
  BY <1>1, <1>4, <1>5, <1>6 DEF FileHolds, Stored1, CacheInit
<1>8. LocalHolds
  BY <1>5 DEF LocalHolds, Stored1, CacheInit, NoFile
<1>9. ReplyHolds
  BY DEF ReplyHolds, CacheInit, Miss
<1>10. QED BY <1>3, <1>4, <1>7, <1>8, <1>9 DEF CacheInv

(* A get: what it holds is what the file held, and the file held the newest. *)
LEMMA GetHolds ==
  ASSUME CacheInv, NEW r \in Reader, ReadStep(r)
  PROVE  CacheInv'
<1>1. /\ CacheTyped /\ SomeNewest /\ FileHolds /\ LocalHolds /\ ReplyHolds
      /\ r \in Proc /\ r \notin Writer /\ NoFile \in Content /\ Miss.hit = FALSE
      /\ Miss \in [hit : BOOLEAN, payload : Payload, age : Nat, ttl : Nat, at : Nat]
  BY CacheAssumption DEF CacheInv, Proc, NoFile, Content, Payload, Miss
<1>2. Newest \in Nat
  BY <1>1, NewestBounds
<1>3. UNCHANGED <<now, writes>> /\ past'.rank = past.rank /\ past'.due = past.due /\ Newest' = Newest
  <2>1. UNCHANGED <<now, writes>> /\ past'.rank = past.rank /\ past'.due = past.due
    BY <1>1 DEF ReadStep, Exists, ReadText, Stat, Check, Unlink, CacheTyped
  <2>2. QED BY <2>1 DEF Newest
<1>4. SomeNewest'
  BY <1>1, <1>3 DEF SomeNewest
<1>5. CASE Exists(r)
  <2>1. past' = [past EXCEPT !.floor[r] = Newest] /\ UNCHANGED <<now, file, writes>>
    BY <1>5 DEF Exists
  <2>2. past'.floor = [past.floor EXCEPT ![r] = Newest] /\ past' \in [born : [Payload -> Nat], due : [Payload -> Int], rank : [Payload -> Nat], floor : [Reader -> Nat]]
    BY <1>1, <1>2, <2>1 DEF CacheTyped
  <2>3. \/ /\ file = NoFile /\ pc[r] = "idle" /\ pc' = [pc EXCEPT ![r] = "idle"]
           /\ reply' = [reply EXCEPT ![r] = Miss] /\ local' = [local EXCEPT ![r] = NoFile]
        \/ pc[r] = "idle" /\ pc' = [pc EXCEPT ![r] = "read"] /\ UNCHANGED <<local, reply>>
    BY <1>5 DEF Exists, Goto, Return
  <2>4. PICK to \in {"idle", "read"}, held \in {NoFile, local[r]},
             answer \in [hit : BOOLEAN, payload : Payload, age : Nat, ttl : Nat, at : Nat] :
          /\ pc' = [pc EXCEPT ![r] = to] /\ local' = [local EXCEPT ![r] = held]
          /\ reply' = [reply EXCEPT ![r] = answer]
          /\ answer = reply[r] \/ answer = Miss
          /\ to = "idle" => answer = Miss
    <3>1. reply[r] \in [hit : BOOLEAN, payload : Payload, age : Nat, ttl : Nat, at : Nat]
      BY <1>1 DEF CacheTyped
    <3>2. local = [local EXCEPT ![r] = local[r]] /\ reply = [reply EXCEPT ![r] = reply[r]]
      BY <1>1 DEF CacheTyped
    <3>3. QED BY <1>1, <2>3, <3>1, <3>2
  <2>5. CacheTyped'
    BY <1>1, <2>1, <2>2, <2>4 DEF CacheTyped, Stages
  <2>6. FileHolds'
    BY <1>1, <1>3, <2>1 DEF FileHolds, Stored1
  <2>7. LocalHolds'
    BY <1>1, <1>2, <1>3, <2>1, <2>2, <2>4 DEF LocalHolds, Stored1, CacheTyped, NoFile
  <2>8. ReplyHolds'
    BY <1>1, <1>3, <2>1, <2>2, <2>4 DEF ReplyHolds, CacheTyped
  <2>9. QED BY <1>4, <2>5, <2>6, <2>7, <2>8 DEF CacheInv
<1>6. CASE ReadText(r) \/ Stat(r)
  <2>1. UNCHANGED <<now, file, writes, reply, past>> /\ pc[r] \in {"read", "stat"}
    BY <1>6 DEF ReadText, Stat, Goto
  <2>2. PICK to \in {"unlink", "stat", "check"}, held \in Content :
          /\ pc' = [pc EXCEPT ![r] = to] /\ local' = [local EXCEPT ![r] = held]
          /\ Stored1(held)
          /\ to # "unlink" => /\ held.kind \in {"entry", "odd"}
                              /\ held.kind = "entry" => past.rank[held.payload] >= past.floor[r]
    <3>1. CASE ReadText(r)
      <4>1. local' = [local EXCEPT ![r] = file]
        BY <3>1 DEF ReadText, Keep
      <4>2. pc' = [pc EXCEPT ![r] = IF file.kind \in {"none", "broken"} THEN "unlink" ELSE "stat"]
        BY <3>1 DEF ReadText, Goto
      <4>3. file \in Content /\ Stored1(file) /\ file.kind \in {"none", "entry", "broken", "odd"}
        BY <1>1 DEF CacheTyped, FileHolds, Content
      <4>4. past.floor[r] <= Newest /\ past.floor[r] \in Nat
        BY <1>1 DEF LocalHolds, CacheTyped
      <4>5. file.kind = "entry" => past.rank[file.payload] >= past.floor[r]
        BY <1>1, <4>4 DEF FileHolds
      <4>6. QED BY <4>1, <4>2, <4>3, <4>5
    <3>2. CASE Stat(r)
      <4>1. pc[r] = "stat" /\ local[r] \in Content
        BY <1>1, <3>2 DEF Stat, Goto, CacheTyped
      <4>2. /\ Stored1(local[r]) /\ local[r].kind \in {"entry", "odd"}
            /\ local[r].kind = "entry" => past.rank[local[r].payload] >= past.floor[r]
        BY <1>1, <4>1 DEF LocalHolds
      <4>3. CASE file = NoFile
        <5>1. pc' = [pc EXCEPT ![r] = "unlink"] /\ local' = [local EXCEPT ![r] = local[r]]
          BY <1>1, <3>2, <4>3 DEF Stat, Goto, CacheTyped
        <5>2. QED BY <4>1, <4>2, <5>1
      <4>4. CASE file # NoFile
        <5> DEFINE held == [local[r] EXCEPT !.mtime = file.mtime]
        <5>1. pc' = [pc EXCEPT ![r] = "check"] /\ local' = [local EXCEPT ![r] = held]
          BY <3>2, <4>4 DEF Stat, Goto, Keep
        <5>2. /\ held \in Content /\ held.kind = local[r].kind /\ held.payload = local[r].payload
              /\ held.expires = local[r].expires
          BY <1>1, <4>1 DEF Content, CacheTyped
        <5>3. Stored1(held)
          BY <4>2, <5>2 DEF Stored1
        <5>4. QED BY <4>2, <5>1, <5>2, <5>3
      <4>5. QED BY <4>3, <4>4
    <3>3. QED BY <1>6, <3>1, <3>2
  <2>3. CacheTyped'
    BY <1>1, <2>1, <2>2 DEF CacheTyped, Stages
  <2>4. FileHolds' /\ ReplyHolds'
    BY <1>1, <1>3, <2>1, <2>2 DEF FileHolds, Stored1, ReplyHolds, CacheTyped
  <2>5. LocalHolds'
    BY <1>1, <1>3, <2>1, <2>2 DEF LocalHolds, Stored1, CacheTyped
  <2>6. QED BY <1>4, <2>3, <2>4, <2>5 DEF CacheInv
<1>7. CASE Check(r) \/ Unlink(r)
  <2>1. /\ UNCHANGED <<now, writes, past>> /\ file' \in {file, NoFile}
        /\ pc[r] \in {"check", "unlink"}
    BY <1>7 DEF Check, Unlink, Goto
  <2>2. PICK to \in {"unlink", "idle"}, held \in {NoFile, local[r]},
             answer \in [hit : BOOLEAN, payload : Payload, age : Nat, ttl : Nat, at : Nat] :
          /\ pc' = [pc EXCEPT ![r] = to] /\ local' = [local EXCEPT ![r] = held]
          /\ reply' = [reply EXCEPT ![r] = answer]
          /\ answer = reply[r] \/
               (answer.hit => /\ answer.payload <= writes /\ past.due[answer.payload] > answer.at
                              /\ past.rank[answer.payload] >= past.floor[r])
          /\ to = "unlink" \/ (answer.hit => past.rank[answer.payload] >= past.floor[r])
    <3>1. CASE Unlink(r)
      BY <1>1, <3>1 DEF Unlink, Goto, Return
    <3>2. CASE Check(r) /\ Expired(r)
      <4>1. pc' = [pc EXCEPT ![r] = "unlink"] /\ local' = [local EXCEPT ![r] = local[r]]
            /\ reply' = [reply EXCEPT ![r] = reply[r]]
        BY <1>1, <3>2 DEF Check, Goto, CacheTyped
      <4>2. reply[r] \in [hit : BOOLEAN, payload : Payload, age : Nat, ttl : Nat, at : Nat]
        BY <1>1 DEF CacheTyped
      <4>3. QED BY <4>1, <4>2
    <3>3. CASE Check(r) /\ ~Expired(r)
      <4> DEFINE e == local[r]
                 answer == IF e.kind = "odd" THEN Miss
                           ELSE [hit |-> TRUE, payload |-> e.payload, age |-> AtLeast0(now - e.mtime),
                                 ttl |-> AtLeast0(e.expires - e.mtime), at |-> now]
      <4>1. pc[r] = "check" /\ pc' = [pc EXCEPT ![r] = "idle"] /\ local' = [local EXCEPT ![r] = NoFile]
            /\ reply' = [reply EXCEPT ![r] = answer]
        BY <3>3 DEF Check, Goto, Return
      <4>2. /\ e \in Content /\ e.payload \in Payload /\ e.expires \in Int /\ e.mtime \in Nat /\ now \in Nat
            /\ e.kind \in {"entry", "odd"} /\ Stored1(e)
            /\ e.kind = "entry" => past.rank[e.payload] >= past.floor[r]
        BY <1>1, <4>1 DEF LocalHolds, CacheTyped, Content
      <4>3. AtLeast0(now - e.mtime) \in Nat /\ AtLeast0(e.expires - e.mtime) \in Nat
        BY <4>2 DEF AtLeast0
      <4>4. answer \in [hit : BOOLEAN, payload : Payload, age : Nat, ttl : Nat, at : Nat]
        BY <1>1, <4>2, <4>3
      <4>5. e.kind = "entry" => e.expires > now
        BY <3>3, <4>2 DEF Expired
      <4>6. answer.hit => /\ answer.payload <= writes /\ past.due[answer.payload] > answer.at
                          /\ past.rank[answer.payload] >= past.floor[r]
        BY <1>1, <4>2, <4>5 DEF Stored1
      <4>7. QED BY <4>1, <4>4, <4>6
    <3>4. QED BY <1>7, <3>1, <3>2, <3>3
  <2>3. CacheTyped'
    BY <1>1, <2>1, <2>2 DEF CacheTyped, Stages
  <2>4. FileHolds'
    BY <1>1, <1>3, <2>1 DEF FileHolds, Stored1, NoFile
  <2>5. LocalHolds'
    BY <1>1, <1>3, <2>1, <2>2 DEF LocalHolds, Stored1, CacheTyped, NoFile
  <2>6. ReplyHolds'
    BY <1>1, <2>1, <2>2 DEF ReplyHolds, CacheTyped
  <2>7. QED BY <1>4, <2>3, <2>4, <2>5, <2>6 DEF CacheInv
<1>8. QED BY <1>5, <1>6, <1>7 DEF ReadStep

(* A set: a payload is not referred to before its set begins, and the one   *)
(* that replaces the entry is newer than all before.                        *)
LEMMA SetHolds ==
  ASSUME CacheInv, NEW w \in Writer, WriteStep(w)
  PROVE  CacheInv'
<1>1. /\ CacheTyped /\ SomeNewest /\ FileHolds /\ LocalHolds /\ ReplyHolds
      /\ w \in Proc /\ w \notin Reader /\ NoFile \in Content /\ NoFile.kind = "none"
      /\ MaxWrites \in Nat /\ writes \in Nat /\ writes <= MaxWrites /\ now \in Nat /\ Payload = 0..MaxWrites
  <2>1. MaxWrites \in Nat /\ Reader \cap Writer = {} /\ Payload = 0..MaxWrites
    BY CacheAssumption DEF Payload
  <2>2. NoFile \in Content /\ NoFile.kind = "none"
    BY <2>1 DEF NoFile, Content
  <2>3. CacheTyped /\ SomeNewest /\ FileHolds /\ LocalHolds /\ ReplyHolds
    BY DEF CacheInv
  <2>4. w \in Proc /\ w \notin Reader
    BY <2>1 DEF Proc
  <2>5. writes \in 0..MaxWrites /\ now \in Nat
    BY <2>3 DEF CacheTyped
  <2>6. writes \in Nat /\ writes <= MaxWrites
    BY <2>1, <2>5
  <2>7. QED BY <2>1, <2>2, <2>3, <2>4, <2>5, <2>6
<1>2. Newest \in Nat /\ \A m \in Payload : past.rank[m] <= Newest
  BY <1>1, NewestBounds
<1>3. CASE \E ttl \in Ttl : Begin(w, ttl)
  <2>1. PICK ttl \in Ttl : Begin(w, ttl)
    BY <1>3
  <2>2. ttl \in Int /\ now + ttl \in Int
    BY <1>1, CacheAssumption
  <2> DEFINE n == writes + 1
             held == [kind |-> "entry", payload |-> n, expires |-> now + ttl, mtime |-> 0]
  <2>3. /\ n \in Payload /\ writes' = n /\ UNCHANGED <<now, file, reply>>
        /\ pc' = [pc EXCEPT ![w] = "dump"] /\ local' = [local EXCEPT ![w] = held]
        /\ past' = [past EXCEPT !.due[n] = now + ttl]
    <3>1. writes < MaxWrites /\ writes' = n
      BY <2>1 DEF Begin
    <3>2. n \in Payload
      BY <1>1, <3>1
    <3>3. /\ UNCHANGED <<now, file, reply>>
          /\ pc' = [pc EXCEPT ![w] = "dump"] /\ local' = [local EXCEPT ![w] = held]
          /\ past' = [past EXCEPT !.due[n] = now + ttl]
      BY <2>1, <3>1 DEF Begin, Goto, Keep
    <3>4. QED BY <3>1, <3>2, <3>3
  <2>4. /\ past'.rank = past.rank /\ past'.floor = past.floor /\ past'.born = past.born
        /\ past'.due = [past.due EXCEPT ![n] = now + ttl]
        /\ past' \in [born : [Payload -> Nat], due : [Payload -> Int], rank : [Payload -> Nat], floor : [Reader -> Nat]]
    BY <1>1, <2>2, <2>3 DEF CacheTyped
  <2>5. Newest' = Newest /\ SomeNewest'
    BY <1>1, <2>4 DEF Newest, SomeNewest
  <2>6. held \in Content /\ held.kind = "entry" /\ held.payload = n /\ held.expires = now + ttl
    BY <2>2, <2>3 DEF Content
  <2> HIDE DEF held
  <2>7. CacheTyped'
    <3>1. writes' \in 0..MaxWrites
      BY <1>1, <2>3
    <3>2. QED BY <1>1, <2>3, <2>4, <2>6, <3>1 DEF CacheTyped, Stages
  <2>8. ASSUME NEW e \in Content, Stored1(e) PROVE Stored1(e)'
    <3>1. e.payload \in Payload /\ e.payload \in Nat
      BY <1>1 DEF Content
    <3>2. ASSUME e.kind = "entry" PROVE e.payload <= writes' /\ e.expires = past'.due[e.payload]
      <4>1. e.payload <= writes /\ e.expires = past.due[e.payload]
        BY <2>8, <3>2 DEF Stored1
      <4>2. e.payload # n /\ e.payload <= n
        BY <1>1, <3>1, <4>1
      <4>3. past'.due[e.payload] = past.due[e.payload]
        BY <1>1, <2>4, <3>1, <4>2 DEF CacheTyped
      <4>4. QED BY <2>3, <4>1, <4>2, <4>3
    <3>3. QED BY <3>2 DEF Stored1
  <2>9. held.payload <= writes' /\ held.expires = past'.due[held.payload]
    <3>1. past'.due[n] = now + ttl
      BY <1>1, <2>3, <2>4 DEF CacheTyped
    <3>2. n <= n
      BY <1>1
    <3>3. QED BY <2>3, <2>6, <3>1, <3>2
  <2>10. FileHolds'
    BY <1>1, <2>3, <2>4, <2>5, <2>8 DEF FileHolds, CacheTyped
  <2>11. LocalHolds'
    <3> SUFFICES ASSUME NEW p \in Proc
                 PROVE  (/\ Stored1(local[p])
                         /\ p \in Writer /\ pc[p] \in {"dump", "replace"} => local[p].kind = "entry"
                         /\ p \in Reader /\ pc[p] \in {"stat", "check"} =>
                              /\ local[p].kind \in {"entry", "odd"}
                              /\ local[p].kind = "entry" => past.rank[local[p].payload] >= past.floor[p]
                         /\ p \in Reader => pc[p] \in {"idle", "read", "stat", "check", "unlink"} /\ past.floor[p] <= Newest
                         /\ p \in Writer => pc[p] \in {"idle", "dump", "replace"})'
      BY DEF LocalHolds
    <3>1. CASE p = w
      <4>1. local'[w] = held /\ pc'[w] = "dump"
        BY <1>1, <2>3 DEF CacheTyped
      <4>2. Stored1(local[w])'
        BY <2>9, <4>1 DEF Stored1
      <4>3. QED BY <1>1, <2>6, <3>1, <4>1, <4>2
    <3>2. CASE p # w
      <4>1. local'[p] = local[p] /\ pc'[p] = pc[p] /\ local[p] \in Content /\ Stored1(local[p])
        BY <1>1, <2>3, <3>2 DEF CacheTyped, LocalHolds
      <4>2. Stored1(local[p])'
        BY <2>8, <4>1 DEF Stored1
      <4>3. QED BY <1>1, <2>4, <2>5, <4>1, <4>2 DEF LocalHolds
    <3>3. QED BY <3>1, <3>2
  <2>12. ReplyHolds'
    <3> SUFFICES ASSUME NEW r \in Reader, reply[r].hit
                 PROVE  (/\ reply[r].payload <= writes /\ past.due[reply[r].payload] > reply[r].at
                         /\ pc[r] = "idle" => past.rank[reply[r].payload] >= past.floor[r])'
      BY <2>3 DEF ReplyHolds
    <3>1. /\ reply[r].payload \in Payload /\ reply[r].payload <= writes /\ reply[r].payload \in Nat
          /\ past.due[reply[r].payload] > reply[r].at
          /\ pc[r] = "idle" => past.rank[reply[r].payload] >= past.floor[r]
      BY <1>1 DEF ReplyHolds, CacheTyped
    <3>2. reply[r].payload # n /\ reply[r].payload <= n
      BY <1>1, <3>1
    <3>3. past'.due[reply[r].payload] = past.due[reply[r].payload]
      BY <1>1, <2>4, <3>1, <3>2 DEF CacheTyped
    <3>4. pc'[r] = pc[r]
      BY <1>1, <2>3 DEF CacheTyped
    <3>5. QED BY <2>3, <2>4, <3>1, <3>2, <3>3, <3>4
  <2>13. QED BY <2>5, <2>7, <2>10, <2>11, <2>12 DEF CacheInv
<1>4. CASE WriteTemp(w) \/ Abandon(w)
  <2>1. UNCHANGED <<now, file, writes, reply>> /\ pc[w] \in {"dump", "replace"}
    BY <1>4 DEF WriteTemp, Abandon, Goto
  <2>2. local[w] \in Content /\ local[w].kind = "entry" /\ Stored1(local[w]) /\ local[w].payload \in Payload
    BY <1>1, <2>1 DEF CacheTyped, LocalHolds, Content
  <2>3. PICK to \in {"idle", "replace"}, held \in Content :
          /\ pc' = [pc EXCEPT ![w] = to] /\ local' = [local EXCEPT ![w] = held]
          /\ Stored1(held) /\ (to = "replace" => held.kind = "entry")
    <3>1. CASE WriteTemp(w)
      <4> DEFINE held == [local[w] EXCEPT !.mtime = now]
      <4>1. /\ held \in Content /\ held.kind = "entry" /\ held.payload = local[w].payload
            /\ held.expires = local[w].expires
        BY <1>1, <2>2 DEF Content
      <4>2. pc' = [pc EXCEPT ![w] = "replace"] /\ local' = [local EXCEPT ![w] = held]
        BY <3>1 DEF WriteTemp, Goto, Keep
      <4>3. Stored1(held)
        BY <2>2, <4>1 DEF Stored1
      <4>4. QED BY <4>1, <4>2, <4>3
    <3>2. CASE Abandon(w)
      BY <1>1, <3>2 DEF Abandon, Goto, Keep, Stored1
    <3>3. QED BY <1>4, <3>1, <3>2
  <2>4. /\ past'.rank = past.rank /\ past'.floor = past.floor /\ past'.due = past.due
        /\ past' \in [born : [Payload -> Nat], due : [Payload -> Int], rank : [Payload -> Nat], floor : [Reader -> Nat]]
    <3>1. CASE WriteTemp(w)
      <4>1. past' = [past EXCEPT !.born[local[w].payload] = now]
        BY <3>1 DEF WriteTemp
      <4>2. QED BY <1>1, <2>2, <4>1 DEF CacheTyped
    <3>2. CASE Abandon(w)
      BY <1>1, <3>2 DEF Abandon, CacheTyped
    <3>3. QED BY <1>4, <3>1, <3>2
  <2>5. Newest' = Newest /\ SomeNewest'
    <3>1. Newest' = Newest
      BY <2>4 DEF Newest
    <3>2. SomeNewest'
      BY <1>1, <2>4 DEF SomeNewest
    <3>3. QED BY <3>1, <3>2
  <2>6. CacheTyped'
    BY <1>1, <2>1, <2>3, <2>4 DEF CacheTyped, Stages
  <2>8. FileHolds' /\ ReplyHolds'
    <3>1. Stored1(file)'
      BY <1>1, <2>1, <2>4 DEF FileHolds, Stored1
    <3>2. FileHolds'
      BY <1>1, <2>1, <2>4, <2>5, <3>1 DEF FileHolds
    <3>3. ASSUME NEW r \in Reader PROVE pc'[r] = pc[r]
      BY <1>1, <2>3 DEF CacheTyped
    <3>4. ReplyHolds'
      BY <1>1, <2>1, <2>4, <3>3 DEF ReplyHolds
    <3>5. QED BY <3>2, <3>4
  <2>9. LocalHolds'
    <3> SUFFICES ASSUME NEW p \in Proc
                 PROVE  (/\ Stored1(local[p])
                         /\ p \in Writer /\ pc[p] \in {"dump", "replace"} => local[p].kind = "entry"
                         /\ p \in Reader /\ pc[p] \in {"stat", "check"} =>
                              /\ local[p].kind \in {"entry", "odd"}
                              /\ local[p].kind = "entry" => past.rank[local[p].payload] >= past.floor[p]
                         /\ p \in Reader => pc[p] \in {"idle", "read", "stat", "check", "unlink"} /\ past.floor[p] <= Newest
                         /\ p \in Writer => pc[p] \in {"idle", "dump", "replace"})'
      BY DEF LocalHolds
    <3>1. CASE p = w
      <4>1. local'[w] = held /\ pc'[w] = to
        BY <1>1, <2>3 DEF CacheTyped
      <4>2. Stored1(local[w])'
        BY <2>1, <2>3, <2>4, <4>1 DEF Stored1
      <4>3. QED BY <1>1, <2>3, <3>1, <4>1, <4>2
    <3>2. CASE p # w
      <4>1. local'[p] = local[p] /\ pc'[p] = pc[p] /\ Stored1(local[p])
        BY <1>1, <2>3, <3>2 DEF CacheTyped, LocalHolds
      <4>2. Stored1(local[p])'
        BY <2>1, <2>4, <4>1 DEF Stored1
      <4>3. QED BY <1>1, <2>4, <2>5, <4>1, <4>2 DEF LocalHolds
    <3>3. QED BY <3>1, <3>2
  <2>10. QED BY <2>5, <2>6, <2>8, <2>9 DEF CacheInv
<1>5. CASE Replace(w)
  <2> DEFINE n == local[w].payload
  <2>1. /\ UNCHANGED <<now, writes, reply>> /\ pc[w] = "replace" /\ file' = local[w]
        /\ pc' = [pc EXCEPT ![w] = "idle"] /\ local' = [local EXCEPT ![w] = NoFile]
        /\ past' = [past EXCEPT !.rank[n] = Newest + 1]
    BY <1>5 DEF Replace, Goto, Keep
  <2>2. local[w] \in Content /\ local[w].kind = "entry" /\ Stored1(local[w]) /\ n \in Payload
    BY <1>1, <2>1 DEF CacheTyped, LocalHolds, Content
  <2>3. /\ past'.floor = past.floor /\ past'.due = past.due
        /\ past'.rank = [past.rank EXCEPT ![n] = Newest + 1]
        /\ past' \in [born : [Payload -> Nat], due : [Payload -> Int], rank : [Payload -> Nat], floor : [Reader -> Nat]]
    <3>1. Newest + 1 \in Nat
      BY <1>2
    <3> DEFINE k == Newest + 1
    <3> HIDE DEF k
    <3>2. k \in Nat /\ past' = [past EXCEPT !.rank[n] = k]
      BY <2>1, <3>1 DEF k
    <3>3. /\ past'.floor = past.floor /\ past'.due = past.due /\ past'.rank = [past.rank EXCEPT ![n] = k]
          /\ past' \in [born : [Payload -> Nat], due : [Payload -> Int], rank : [Payload -> Nat], floor : [Reader -> Nat]]
      BY <1>1, <2>2, <3>2 DEF CacheTyped
    <3>4. QED BY <3>3 DEF k
  <2>4. /\ past'.rank[n] = Newest + 1 /\ past'.rank \in [Payload -> Nat]
        /\ \A m \in Payload : past'.rank[m] <= Newest + 1 /\ past'.rank[m] >= past.rank[m]
    <3>1. past.rank \in [Payload -> Nat] /\ past'.rank \in [Payload -> Nat]
      BY <1>1, <2>3 DEF CacheTyped
    <3>2. past'.rank[n] = Newest + 1
      BY <2>2, <2>3, <3>1
    <3>3. ASSUME NEW m \in Payload PROVE past'.rank[m] <= Newest + 1 /\ past'.rank[m] >= past.rank[m]
      <4>1. past.rank[m] \in Nat /\ past.rank[m] <= Newest
        BY <1>2, <3>1
      <4>2. past'.rank[m] = (IF m = n THEN Newest + 1 ELSE past.rank[m])
        BY <2>2, <2>3, <3>1
      <4>3. QED BY <1>2, <4>1, <4>2
    <3>4. QED BY <3>1, <3>2, <3>3
  <2>5. SomeNewest'
    BY <2>2, <2>4 DEF SomeNewest
  <2>6. CacheTyped'
    BY <1>1, <2>1, <2>2, <2>3 DEF CacheTyped, Stages
  <2>7. Newest' = Newest + 1
    <3>1. \A m \in Payload : past'.rank[m] <= past'.rank[n]
      BY <2>4
    <3>2. Max({past'.rank[m] : m \in Payload}) = past'.rank[n]
      BY <2>2, <2>4, <3>1, MaxOf
    <3>3. QED BY <2>4, <3>2 DEF Newest
  <2>8. FileHolds'
    BY <1>1, <2>1, <2>2, <2>3, <2>4, <2>7 DEF FileHolds, Stored1
  <2>9. LocalHolds'
    <3> SUFFICES ASSUME NEW p \in Proc
                 PROVE  (/\ Stored1(local[p])
                         /\ p \in Writer /\ pc[p] \in {"dump", "replace"} => local[p].kind = "entry"
                         /\ p \in Reader /\ pc[p] \in {"stat", "check"} =>
                              /\ local[p].kind \in {"entry", "odd"}
                              /\ local[p].kind = "entry" => past.rank[local[p].payload] >= past.floor[p]
                         /\ p \in Reader => pc[p] \in {"idle", "read", "stat", "check", "unlink"} /\ past.floor[p] <= Newest
                         /\ p \in Writer => pc[p] \in {"idle", "dump", "replace"})'
      BY DEF LocalHolds
    <3>1. CASE p = w
      BY <1>1, <2>1, <3>1 DEF Stored1, CacheTyped
    <3>2. CASE p # w
      <4>1. local'[p] = local[p] /\ pc'[p] = pc[p] /\ local[p] \in Content /\ local[p].payload \in Payload
        BY <1>1, <2>1, <3>2 DEF CacheTyped, Content
      <4>2. Stored1(local[p])'
        BY <1>1, <2>1, <2>3, <4>1 DEF Stored1, LocalHolds
      <4>3. past'.rank[local[p].payload] >= past.rank[local[p].payload]
        BY <2>4, <4>1
      <4>4. /\ past'.rank[local[p].payload] \in Nat /\ past.rank[local[p].payload] \in Nat
            /\ p \in Reader => past.floor[p] \in Nat
        BY <1>1, <2>4, <4>1 DEF CacheTyped
      <4>5. /\ p \in Reader /\ pc[p] \in {"stat", "check"} =>
                 /\ local[p].kind \in {"entry", "odd"}
                 /\ local[p].kind = "entry" => past.rank[local[p].payload] >= past.floor[p]
            /\ p \in Reader => pc[p] \in {"idle", "read", "stat", "check", "unlink"} /\ past.floor[p] <= Newest
            /\ p \in Writer => pc[p] \in {"idle", "dump", "replace"}
            /\ p \in Writer /\ pc[p] \in {"dump", "replace"} => local[p].kind = "entry"
        BY <1>1 DEF LocalHolds
      <4>6. /\ p \in Reader /\ past.rank[local[p].payload] >= past.floor[p] =>
                 past'.rank[local[p].payload] >= past.floor[p]
            /\ p \in Reader /\ past.floor[p] <= Newest => past.floor[p] <= Newest'
        BY <1>2, <2>7, <4>3, <4>4
      <4>7. QED BY <2>3, <4>1, <4>2, <4>5, <4>6
    <3>3. QED BY <3>1, <3>2
  <2>10. ReplyHolds'
    <3> SUFFICES ASSUME NEW r \in Reader, reply[r].hit
                 PROVE  (/\ reply[r].payload <= writes /\ past.due[reply[r].payload] > reply[r].at
                         /\ pc[r] = "idle" => past.rank[reply[r].payload] >= past.floor[r])'
      BY <2>1 DEF ReplyHolds
    <3>1. /\ reply[r].payload \in Payload /\ reply[r].payload <= writes
          /\ past.due[reply[r].payload] > reply[r].at
          /\ pc[r] = "idle" => past.rank[reply[r].payload] >= past.floor[r]
          /\ past.floor[r] \in Nat
      BY <1>1 DEF ReplyHolds, CacheTyped
    <3>2. /\ past'.rank[reply[r].payload] >= past.rank[reply[r].payload]
          /\ past'.rank[reply[r].payload] \in Nat /\ past.rank[reply[r].payload] \in Nat
      BY <1>1, <2>4, <3>1 DEF CacheTyped
    <3>3. pc'[r] = pc[r]
      BY <1>1, <2>1 DEF CacheTyped
    <3>4. QED BY <2>1, <2>3, <3>1, <3>2, <3>3
  <2>11. QED BY <2>5, <2>6, <2>8, <2>9, <2>10 DEF CacheInv
<1>6. QED BY <1>3, <1>4, <1>5 DEF WriteStep

(* A clear only removes. *)
LEMMA ClearHolds ==
  ASSUME CacheInv, NEW c \in Clearer, ClearStep(c)
  PROVE  CacheInv'
<1>1. /\ CacheTyped /\ SomeNewest /\ FileHolds /\ LocalHolds /\ ReplyHolds
      /\ c \in Proc /\ c \notin Reader /\ c \notin Writer
      /\ NoFile \in Content /\ NoFile.kind = "none"
  BY CacheAssumption DEF CacheInv, Proc, NoFile, Content, Payload
<1>2. UNCHANGED <<now, writes, reply, past>> /\ Newest' = Newest /\ file' \in {file, NoFile}
  BY DEF ClearStep, ListEntries, ClearEntry, Newest
<1>3. PICK to \in {"idle", "all", "expired"}, held \in Content :
        /\ pc' = [pc EXCEPT ![c] = to] /\ local' = [local EXCEPT ![c] = held] /\ Stored1(held)
  <2>1. CASE ClearEntry(c)
    BY <1>1, <2>1 DEF ClearEntry, Goto, Keep, Stored1
  <2>2. CASE \E selection \in {"all", "expired"} : ListEntries(c, selection)
    <3>1. PICK selection \in {"all", "expired"} : ListEntries(c, selection)
      BY <2>2
    <3> DEFINE held == [file EXCEPT !.mtime = now]
    <3>2. /\ held \in Content /\ held.kind = file.kind /\ held.payload = file.payload
          /\ held.expires = file.expires
      BY <1>1 DEF Content, CacheTyped
    <3>3. Stored1(held)
      BY <1>1, <3>2 DEF Stored1, FileHolds
    <3>4. pc' = [pc EXCEPT ![c] = selection] /\ local' = [local EXCEPT ![c] = held]
      BY <3>1 DEF ListEntries, Goto, Keep
    <3>5. QED BY <3>2, <3>3, <3>4
  <2>3. QED BY <2>1, <2>2 DEF ClearStep
<1>4. CacheTyped'
  BY <1>1, <1>2, <1>3 DEF CacheTyped, Stages
<1>5. SomeNewest' /\ FileHolds'
  BY <1>1, <1>2 DEF SomeNewest, FileHolds, Stored1
<1>6. LocalHolds'
  BY <1>1, <1>2, <1>3 DEF LocalHolds, Stored1, CacheTyped
<1>7. ReplyHolds'
  BY <1>1, <1>2, <1>3 DEF ReplyHolds, CacheTyped
<1>8. QED BY <1>4, <1>5, <1>6, <1>7 DEF CacheInv

(* What the cache answers with is what one set stored, live at its check    *)
(* and the newest when the get began, for any readers, writers and clears.  *)
THEOREM CacheInvariant == CacheSpec => []CacheInv
<1>1. CacheInv /\ [CacheNext]_caching => CacheInv'
  <2> SUFFICES ASSUME CacheInv, [CacheNext]_caching PROVE CacheInv'
    OBVIOUS
  <2>1. CASE Tick
    <3>1. now' = now + 1 /\ UNCHANGED <<file, writes, pc, local, reply, past>>
      BY <2>1 DEF Tick
    <3>2. CacheTyped'
      BY <3>1 DEF CacheInv, CacheTyped
    <3>3. SomeNewest' /\ FileHolds' /\ LocalHolds' /\ ReplyHolds'
      BY <3>1 DEF CacheInv, SomeNewest, FileHolds, Stored1, LocalHolds, ReplyHolds, Newest
    <3>4. QED BY <3>2, <3>3 DEF CacheInv
  <2>2. CASE UNCHANGED caching
    <3>1. UNCHANGED <<now, file, writes, pc, local, reply, past>>
      BY <2>2 DEF caching
    <3>2. CacheTyped'
      BY <3>1 DEF CacheInv, CacheTyped
    <3>3. SomeNewest' /\ FileHolds' /\ LocalHolds' /\ ReplyHolds'
      BY <3>1 DEF CacheInv, SomeNewest, FileHolds, Stored1, LocalHolds, ReplyHolds, Newest
    <3>4. QED BY <3>2, <3>3 DEF CacheInv
  <2>3. QED BY <2>1, <2>2, GetHolds, SetHolds, ClearHolds DEF CacheNext
<1>2. QED BY <1>1, CacheInitHolds, PTL DEF CacheSpec

(* A hit is live, no older than what was there when its get began, and read *)
(* from a file that no two writers have mixed (cache.py: get and set).      *)
THEOREM CacheHitsHold == CacheSpec => []HitsHold
<1>1. CacheInv => HitsHold
  BY DEF CacheInv, CacheTyped, FileHolds, Stored1, ReplyHolds, HitsHold, HitIsCurrent, HitIsLive, NeverTorn
<1>2. QED BY <1>1, CacheInvariant, PTL

-----------------------------------------------------------------------------
(* EventExport.                                                            *)

(* How many rows of revision v are before t, how many it has, and its rows  *)
(* after the first a up to the b-th.                                        *)
Before(v, t) == Cardinality({i \in DOMAIN Stream[v] : Stream[v][i] < t})
Size(v) == Len(Stream[v])
Run(v, a, b) == [k \in 1..(b - a) |-> <<v, a + k>>]

(* The rows before a time are some of them, none before 0, and all of them  *)
(* by the end; the later the time, the more.                                *)
LEMMA BeforeFacts ==
  ASSUME NEW v \in Revision, NEW t \in Int, NEW u \in Int, t <= u
  PROVE  /\ Size(v) \in Nat /\ Before(v, t) \in Nat /\ Before(v, u) \in Nat
         /\ Before(v, t) <= Before(v, u) /\ Before(v, u) <= Size(v)
         /\ Before(v, 0) = 0 /\ Before(v, LastMoment + 1) = Size(v)
<1> DEFINE Places == DOMAIN Stream[v]
           Upto(m) == {i \in Places : Stream[v][i] < m}
<1>1. Stream[v] \in Seq(0..LastMoment) /\ LastMoment \in Nat
  BY ExportAssumption
<1>2. Places = 1..Size(v) /\ Size(v) \in Nat /\ \A i \in Places : Stream[v][i] \in 0..LastMoment
  BY <1>1 DEF Size
<1>3. IsFiniteSet(Places) /\ Cardinality(Places) = Size(v)
  <2>1. IsFiniteSet(1..Size(v)) /\ Cardinality(1..Size(v)) = IF 1 > Size(v) THEN 0 ELSE Size(v) - 1 + 1
    BY <1>2, FS_Interval
  <2>2. QED BY <1>2, <2>1
<1>4. ASSUME NEW m \in Int
      PROVE  IsFiniteSet(Upto(m)) /\ Cardinality(Upto(m)) \in Nat /\ Cardinality(Upto(m)) <= Size(v)
  <2>1. Upto(m) \in SUBSET Places
    OBVIOUS
  <2>2. IsFiniteSet(Upto(m)) /\ Cardinality(Upto(m)) <= Size(v)
    BY <1>3, <2>1, FS_Subset
  <2>3. QED BY <2>2, FS_CardinalityType
<1>5. Upto(t) \in SUBSET Upto(u)
  <2> SUFFICES ASSUME NEW i \in Places, Stream[v][i] < t PROVE Stream[v][i] < u
    OBVIOUS
  <2>1. Stream[v][i] \in Int
    BY <1>1, <1>2
  <2>2. QED BY <2>1
<1>6. Cardinality(Upto(t)) <= Cardinality(Upto(u))
  BY <1>4, <1>5, FS_Subset
<1>7. Upto(0) = {}
  <2>1. ASSUME NEW i \in Places, Stream[v][i] < 0 PROVE FALSE
    <3>1. Stream[v][i] \in 0..LastMoment
      BY <1>2
    <3>2. QED BY <1>1, <2>1, <3>1
  <2>2. QED BY <2>1
<1>8. Upto(LastMoment + 1) = Places
  <2>1. ASSUME NEW i \in Places PROVE Stream[v][i] < LastMoment + 1
    <3>1. Stream[v][i] \in 0..LastMoment
      BY <1>2
    <3>2. QED BY <1>1, <3>1
  <2>2. QED BY <2>1
<1>9. QED BY <1>2, <1>3, <1>4, <1>6, <1>7, <1>8, FS_EmptySet DEF Before

(* A slice is a run of the rows of its revision. *)
LEMMA SliceIsRun ==
  ASSUME NEW v, NEW from, NEW to
  PROVE  Slice(v, from, to) = Run(v, Before(v, from), Before(v, to))
BY DEF Slice, Run, Before

(* Runs that meet join; a part of a run is one. *)
LEMMA RunFacts ==
  ASSUME NEW v \in Revision, NEW a \in Nat, NEW b \in Nat
  PROVE  /\ Run(v, a, b) \in Seq(Revision \X Nat)
         /\ Len(Run(v, a, b)) = IF a <= b THEN b - a ELSE 0
         /\ b <= a => Run(v, a, b) = <<>>
         /\ DOMAIN Run(v, a, b) = 1..(b - a)
         /\ \A k \in 1..(b - a) : Run(v, a, b)[k] = <<v, a + k>>
<1>1. ASSUME NEW k \in 1..(b - a) PROVE <<v, a + k>> \in Revision \X Nat
  OBVIOUS
<1>2. CASE a <= b
  <2>1. b - a \in Nat
    BY <1>2
  <2>2. b <= a => b - a = 0
    BY <1>2
  <2>3. Run(v, a, b) \in Seq(Revision \X Nat)
    BY <1>1, <2>1 DEF Run
  <2>4. DOMAIN Run(v, a, b) = 1..(b - a)
    BY DEF Run
  <2>5. Len(Run(v, a, b)) = b - a
    BY <2>1, <2>3, <2>4
  <2>6. b <= a => Run(v, a, b) = <<>>
    BY <2>2, <2>3, <2>5, EmptySeq
  <2>7. QED BY <1>2, <2>3, <2>4, <2>5, <2>6 DEF Run
<1>3. CASE b < a
  <2>1. 1..(b - a) = {}
    BY <1>3
  <2>2. Run(v, a, b) = <<>>
    BY <2>1 DEF Run
  <2>3. QED BY <1>3, <2>1, <2>2
<1>4. QED BY <1>2, <1>3

LEMMA RunsJoin ==
  ASSUME NEW v \in Revision, NEW a \in Nat, NEW b \in Nat, NEW c \in Nat, a <= b, b <= c
  PROVE  Run(v, a, b) \o Run(v, b, c) = Run(v, a, c)
<1> DEFINE x == Run(v, a, b)
           y == Run(v, b, c)
           z == Run(v, a, c)
           T == Revision \X Nat
<1>1. x \in Seq(T) /\ Len(x) = b - a /\ \A k \in 1..(b - a) : x[k] = <<v, a + k>>
  BY RunFacts
<1>2. y \in Seq(T) /\ Len(y) = c - b /\ \A k \in 1..(c - b) : y[k] = <<v, b + k>>
  BY RunFacts
<1>3. z \in Seq(T) /\ Len(z) = c - a /\ \A k \in 1..(c - a) : z[k] = <<v, a + k>>
  <2>1. a <= c
    OBVIOUS
  <2>2. QED BY <2>1, RunFacts
<1> HIDE DEF x, y, z, T
<1>4. /\ x \o y \in Seq(T) /\ Len(x \o y) = Len(x) + Len(y)
      /\ \A i \in 1..(Len(x) + Len(y)) : (x \o y)[i] = IF i <= Len(x) THEN x[i] ELSE y[i - Len(x)]
  BY <1>1, <1>2, ConcatProperties
<1>5. Len(x \o y) = Len(z)
  BY <1>1, <1>2, <1>3, <1>4
<1>6. ASSUME NEW i \in 1..Len(z) PROVE (x \o y)[i] = z[i]
  <2>1. i \in 1..(c - a) /\ z[i] = <<v, a + i>>
    BY <1>3
  <2>2. CASE i <= b - a
    BY <1>1, <1>4, <1>5, <2>1, <2>2
  <2>3. CASE i > b - a
    <3>1. i - (b - a) \in 1..(c - b) /\ b + (i - (b - a)) = a + i
      BY <2>1, <2>3
    <3>2. (x \o y)[i] = y[i - (b - a)]
      BY <1>1, <1>4, <1>5, <2>1, <2>3
    <3>3. QED BY <1>2, <2>1, <3>1, <3>2
  <2>4. i <= b - a \/ i > b - a
    BY <2>1
  <2>5. QED BY <2>2, <2>3, <2>4
<1>7. x \o y = z
  BY <1>3, <1>4, <1>5, <1>6, SeqEqual
<1>8. QED BY <1>7 DEF x, y, z

LEMMA RunsPart ==
  ASSUME NEW v \in Revision, NEW a \in Nat, NEW b \in Nat, NEW c \in Nat, NEW d \in Nat, a <= c, a <= d, d <= b,
         NEW m \in Int, NEW n \in Int, m = c - a + 1, n = d - a
  PROVE  SubSeq(Run(v, a, b), m, n) = Run(v, c, d)
<1> DEFINE x == Run(v, a, b)
           z == Run(v, c, d)
           T == Revision \X Nat
<1>1. x \in Seq(T) /\ Len(x) = b - a /\ \A k \in 1..(b - a) : x[k] = <<v, a + k>>
  <2>1. a <= b
    OBVIOUS
  <2>2. QED BY <2>1, RunFacts
<1>2. /\ z \in Seq(T) /\ Len(z) = IF c <= d THEN d - c ELSE 0
      /\ \A k \in 1..(d - c) : z[k] = <<v, c + k>>
  BY RunFacts
<1> HIDE DEF x, z
<1>3. \A k \in m..n : k \in 1..Len(x) /\ x[k] \in T
  BY <1>1
<1>4. /\ SubSeq(x, m, n) \in Seq(T)
      /\ Len(SubSeq(x, m, n)) = IF m <= n THEN n - m + 1 ELSE 0
      /\ \A k \in 1..(n - m + 1) : SubSeq(x, m, n)[k] = x[m + k - 1]
  BY <1>3, SubSeqProperties
<1>5. Len(SubSeq(x, m, n)) = Len(z)
  BY <1>2, <1>4
<1>6. ASSUME NEW k \in 1..Len(z) PROVE SubSeq(x, m, n)[k] = z[k]
  <2>1. /\ k \in 1..(d - c) /\ k \in 1..(n - m + 1) /\ m + k - 1 \in 1..(b - a)
        /\ a + (m + k - 1) = c + k
    <3>1. Len(z) = IF c <= d THEN d - c ELSE 0
      BY <1>2
    <3>2. c <= d /\ k \in 1..(d - c)
      BY <3>1
    <3>3. m = c - a + 1 /\ n - m + 1 = d - c
      OBVIOUS
    <3>4. QED BY ONLY <3>2, <3>3, a \in Nat, b \in Nat, c \in Nat, d \in Nat, a <= c, d <= b, m \in Int, n \in Int
  <2>2. z[k] = <<v, c + k>> /\ SubSeq(x, m, n)[k] = x[m + k - 1]
    BY <1>2, <1>4, <2>1
  <2>3. QED BY <1>1, <2>1, <2>2
<1>7. SubSeq(x, m, n) = z
  BY <1>2, <1>4, <1>5, <1>6, SeqEqual
<1>8. QED BY <1>7 DEF x, z

LEMMA RunsStart ==
  ASSUME NEW v \in Revision, NEW a \in Nat, NEW b \in Nat, NEW n \in Nat, n <= b - a
  PROVE  SubSeq(Run(v, a, b), 1, n) = Run(v, a, a + n)
<1> DEFINE d == a + n
<1>1. d \in Nat /\ a <= d /\ d <= b /\ a <= a /\ 1 = a - a + 1 /\ n = d - a /\ 1 \in Int /\ n \in Int
  OBVIOUS
<1> HIDE DEF d
<1>2. SubSeq(Run(v, a, b), 1, n) = Run(v, a, d)
  BY <1>1, RunsPart
<1>3. QED BY <1>2 DEF d

LEMMA RunsEnd ==
  ASSUME NEW v \in Revision, NEW a \in Nat, NEW b \in Nat, NEW i \in Nat, NEW n \in Nat, n = b - a, i <= n
  PROVE  SubSeq(Run(v, a, b), i + 1, n) = Run(v, a + i, b)
<1> DEFINE c == a + i
           m == i + 1
<1>1. c \in Nat /\ a <= c /\ a <= b /\ b <= b /\ m = c - a + 1 /\ m \in Int /\ n \in Int
  OBVIOUS
<1> HIDE DEF c, m
<1>2. SubSeq(Run(v, a, b), m, n) = Run(v, c, b)
  BY <1>1, RunsPart
<1>3. QED BY <1>2 DEF c, m

Row2 == Revision \X Nat
Continuations == [start : Moment \cup {Nothing}, skip : Nat, restart : BOOLEAN]

ExportTyped ==
  /\ phase \in {"collecting", "ended", "failed"}
  /\ maxEvents \in Nat \ {0} /\ start \in Moment /\ skip \in Nat /\ pages \in 0..MaxPages
  /\ events \in Seq(Row2) /\ kept \in Seq(Row2)
  /\ revisions \subseteq Revision \cup {NoRevision} /\ warned \in BOOLEAN
  /\ reason \in Reason /\ continuation \in Continuations
  /\ trail \in [revisions : SUBSET (Revision \cup {NoRevision}), warned : BOOLEAN]

(* The bounds, and what an export that has ended tells of where to go on.   *)
Explained ==
  /\ Len(events) <= maxEvents /\ continuation.skip <= maxEvents
  /\ phase = "collecting" => pages < MaxPages /\ reason = "max_pages"
  /\ phase = "ended" /\ reason \notin {"none", "partial_graphql_errors"} => continuation.start \in Moment
  /\ phase = "ended" /\ reason \in {"none", "partial_graphql_errors"} => continuation = NoContinuation
  /\ phase = "ended" /\ reason = "none" => ~warned /\ Cardinality(revisions) = 1
  /\ phase = "ended" /\ pages < MaxPages => reason # "max_pages"

(* While pages are asked for, they all named one revision or none did.      *)
OneSoFar ==
  /\ phase = "collecting" =>
       \/ revisions = {} /\ events = <<>>
       \/ \E r : revisions = {r}
  /\ \A r \in Revision : revisions = {r} => \A i \in DOMAIN events : events[i][1] = r
  /\ OneRevision

(* No page of the investigation named another revision than v, or carried a *)
(* partial error.                                                           *)
Pure(v) == revisions \cup trail.revisions \subseteq {v} /\ ~warned /\ ~trail.warned

(* The reader's rows are the first rows of v.  This export's rows are a run *)
(* of v that starts where the reader's end but for the rows to skip, and    *)
(* goes up to the time the next page starts at, or to where the             *)
(* continuation leads.                                                      *)
LinesUp(v, first) ==
  /\ first + skip <= Size(v) /\ kept = Run(v, 0, first + skip)
  /\ first + Len(events) <= Size(v) /\ events = Run(v, first, first + Len(events))
  /\ phase = "collecting" => first + Len(events) = Before(v, start)
  /\ phase = "ended" /\ continuation = NoContinuation => first + Len(events) = Size(v)
  /\ phase = "ended" /\ continuation # NoContinuation /\ ~continuation.restart =>
       first + Len(events) = Before(v, continuation.start) + continuation.skip

Lossless == \A v \in Revision : Pure(v) => \E first \in Nat : LinesUp(v, first)

ExportInv == ExportTyped /\ Explained /\ OneSoFar /\ Lossless

Named(v, named) == IF named THEN v ELSE NoRevision
Answers(v, warns, from, to) == {Slice(v, from, to)} \cup IF warns THEN {<<>>} ELSE {}

LEMMA ExportInitHolds == ExportInit => ExportInv
<1> SUFFICES ASSUME ExportInit PROVE ExportInv
  OBVIOUS
<1>1. LastMoment \in Nat /\ MaxPages \in Nat \ {0} /\ EventBounds \subseteq Nat \ {0}
  BY ExportAssumption
<1>2. <<>> \in Seq(Row2) /\ Len(<<>>) = 0 /\ 0 \in Moment
  BY <1>1 DEF Moment
<1>3. ExportTyped
  <2>1. /\ phase = "collecting" /\ start = 0 /\ skip = 0 /\ maxEvents \in EventBounds
        /\ events = <<>> /\ revisions = {} /\ warned = FALSE /\ pages = 0
        /\ reason = "max_pages" /\ kept = <<>> /\ trail = [revisions |-> {}, warned |-> FALSE]
        /\ continuation = [start |-> Nothing, skip |-> 0, restart |-> FALSE]
    BY DEF ExportInit, NoContinuation
  <2>2. maxEvents \in Nat \ {0} /\ pages \in 0..MaxPages
    BY <1>1, <2>1
  <2>3. continuation \in Continuations
    BY <1>1, <2>1 DEF Continuations
  <2>4. QED BY <1>1, <1>2, <2>1, <2>2, <2>3 DEF ExportTyped, Reason
<1>4. Explained
  BY <1>1, <1>2 DEF ExportInit, Explained, NoContinuation
<1>5. OneSoFar
  BY <1>2 DEF ExportInit, OneSoFar, OneRevision
<1>6. Lossless
  <2> SUFFICES ASSUME NEW v \in Revision PROVE LinesUp(v, 0)
    BY DEF Lossless
  <2>1. Size(v) \in Nat /\ Before(v, 0) = 0
    BY BeforeFacts
  <2>2. Run(v, 0, 0) = <<>>
    BY RunFacts
  <2>3. QED BY <1>2, <2>1, <2>2 DEF ExportInit, LinesUp
<1>7. QED BY <1>3, <1>4, <1>5, <1>6 DEF ExportInv

(* A page that leaves the investigation pure named v and warned of nothing. *)
LEMMA PurePage ==
  ASSUME NEW v \in Revision, NEW named \in BOOLEAN, NEW warns \in BOOLEAN, NEW w \in Revision,
         Requested(Named(v, named), warns), Pure(w)'
  PROVE  Pure(w) /\ named /\ v = w /\ ~warns
<1>1. NoRevision \notin Revision
  BY ExportAssumption
<1>2. /\ revisions' = revisions \cup {Named(v, named)} /\ warned' = (warned \/ warns) /\ trail' = trail
  BY DEF Requested
<1>3. /\ revisions' \cup trail.revisions \subseteq {w} /\ ~warned' /\ ~trail.warned
  BY <1>2 DEF Pure
<1>4. Named(v, named) = w
  BY <1>2, <1>3
<1>5. named /\ v = w
  BY <1>1, <1>4 DEF Named
<1>6. QED BY <1>2, <1>3, <1>5 DEF Pure

(* What a page holds: rows of its revision, and with it the rows are still  *)
(* of one; in a pure investigation, the rows from where the page starts.    *)
LEMMA AnswerFacts ==
  ASSUME ExportInv, NEW v \in Revision, NEW named \in BOOLEAN, NEW warns \in BOOLEAN,
         NEW to \in Int, start <= to, NEW rows \in Answers(v, warns, start, to),
         Requested(Named(v, named), warns), Cardinality(revisions') = 1
  PROVE  /\ rows \in Seq(Row2) /\ \A i \in DOMAIN rows : rows[i][1] = v
         /\ revisions' = {Named(v, named)}
         /\ named => \A i \in DOMAIN events : events[i][1] = v
         /\ \A w \in Revision : Pure(w)' =>
              \E first \in Nat : /\ LinesUp(w, first) /\ v = w /\ first + Len(events) = Before(w, start)
                                 /\ rows = Run(w, Before(w, start), Before(w, to))
<1>1. ExportTyped /\ OneSoFar /\ Lossless /\ phase = "collecting" /\ start \in Int /\ NoRevision \notin Revision
  BY ExportAssumption DEF ExportInv, ExportTyped, Moment, Requested
<1>2. Before(v, start) \in Nat /\ Before(v, to) \in Nat /\ Before(v, start) <= Before(v, to)
  BY <1>1, BeforeFacts
<1>3. Slice(v, start, to) = Run(v, Before(v, start), Before(v, to))
  BY SliceIsRun
<1>4. rows \in Seq(Row2) /\ \A i \in DOMAIN rows : rows[i][1] = v
  <2>1. CASE rows = <<>>
    BY <2>1
  <2>2. CASE rows = Run(v, Before(v, start), Before(v, to))
    <3> DEFINE a == Before(v, start)
               b == Before(v, to)
    <3>1. /\ Run(v, a, b) \in Seq(Revision \X Nat) /\ DOMAIN Run(v, a, b) = 1..(b - a)
          /\ \A k \in 1..(b - a) : Run(v, a, b)[k] = <<v, a + k>>
      BY <1>2, RunFacts
    <3> HIDE DEF a, b
    <3>2. \A i \in DOMAIN Run(v, a, b) : Run(v, a, b)[i][1] = v
      BY <3>1
    <3>3. rows = Run(v, a, b)
      BY <2>2 DEF a, b
    <3>4. QED BY <3>1, <3>2, <3>3 DEF Row2
  <2>3. QED BY <1>3, <2>1, <2>2 DEF Answers
<1>5. revisions' = revisions \cup {Named(v, named)}
  BY DEF Requested
<1>6. revisions' = {Named(v, named)} /\ ((revisions = {} /\ events = <<>>) \/ revisions = {Named(v, named)})
  <2>1. CASE revisions = {} /\ events = <<>>
    BY <1>5, <2>1
  <2>2. CASE \E r : revisions = {r}
    <3>1. PICK r : revisions = {r}
      BY <2>2
    <3>2. IsFiniteSet({r}) /\ IsFiniteSet({r} \cup {Named(v, named)})
      BY FS_Singleton, FS_AddElement
    <3>3. PICK x : revisions' = {x}
      BY <1>5, <3>1, <3>2, FS_Singleton
    <3>4. QED BY <1>5, <3>1, <3>3
  <2>3. QED BY <1>1, <2>1, <2>2 DEF OneSoFar
<1>7. named => \A i \in DOMAIN events : events[i][1] = v
  BY <1>1, <1>6 DEF OneSoFar, Named
<1>8. ASSUME NEW w \in Revision, Pure(w)'
      PROVE  \E first \in Nat : /\ LinesUp(w, first) /\ v = w /\ first + Len(events) = Before(w, start)
                                /\ rows = Run(w, Before(w, start), Before(w, to))
  <2>1. Pure(w) /\ named /\ v = w /\ ~warns
    BY <1>8, PurePage
  <2>2. PICK first \in Nat : LinesUp(w, first)
    BY <1>1, <2>1 DEF Lossless
  <2>3. first + Len(events) = Before(w, start)
    BY <1>1, <2>2 DEF LinesUp
  <2>4. rows = Run(w, Before(w, start), Before(w, to))
    BY <1>3, <2>1 DEF Answers
  <2>5. QED BY <2>1, <2>2, <2>3, <2>4
<1>9. QED BY <1>4, <1>6, <1>7, <1>8

(* The rows put together stay of one revision. *)
LEMMA StillOne ==
  ASSUME ExportTyped, NEW v \in Revision, NEW named \in BOOLEAN, NEW rows \in Seq(Row2),
         \A i \in DOMAIN rows : rows[i][1] = v,
         named => \A i \in DOMAIN events : events[i][1] = v,
         revisions' = {Named(v, named)}, events' = events \o rows
  PROVE  OneSoFar'
<1>1. events \in Seq(Row2) /\ NoRevision \notin Revision
  BY ExportAssumption DEF ExportTyped
<1>2. /\ DOMAIN events' = 1..(Len(events) + Len(rows))
      /\ \A i \in 1..(Len(events) + Len(rows)) :
           events'[i] = IF i <= Len(events) THEN events[i] ELSE rows[i - Len(events)]
  BY <1>1, ConcatProperties
<1>3. ASSUME named, NEW i \in DOMAIN events' PROVE events'[i][1] = v
  <2>1. CASE i <= Len(events)
    <3>1. i \in DOMAIN events /\ events'[i] = events[i]
      BY <1>1, <1>2, <2>1
    <3>2. QED BY <1>3, <3>1
  <2>2. CASE i > Len(events)
    <3>1. i - Len(events) \in DOMAIN rows /\ events'[i] = rows[i - Len(events)]
      BY <1>1, <1>2, <2>2
    <3>2. QED BY <3>1
  <2>3. i \in Int /\ Len(events) \in Int
    BY <1>1, <1>2
  <2>4. QED BY <2>1, <2>2, <2>3
<1>4. OneRevision'
  <2>1. NoRevision \notin revisions' => named
    BY DEF Named
  <2>2. QED BY <1>3, <2>1 DEF OneRevision
<1>5. ASSUME NEW r \in Revision, revisions' = {r} PROVE named /\ r = v
  BY <1>1, <1>5 DEF Named
<1>6. QED BY <1>3, <1>4, <1>5 DEF OneSoFar

LEMMA StopsHold ==
  ASSUME ExportInv, NEW v \in Revision, NEW named \in BOOLEAN, NEW warns \in BOOLEAN,
         \/ RevisionChanged(Named(v, named), warns) \/ MissingData(Named(v, named), warns)
         \/ BadCursor(Named(v, named), warns)
  PROVE  ExportInv'
<1>1. /\ ExportTyped /\ Explained /\ OneSoFar /\ Lossless /\ phase = "collecting"
      /\ start \in Moment /\ start # Nothing /\ start \in Int /\ pages' = pages + 1 /\ pages' \in 0..MaxPages
  <2>1. ExportTyped /\ Explained /\ OneSoFar /\ Lossless
    BY DEF ExportInv
  <2>2. phase = "collecting" /\ pages' = pages + 1
    BY DEF RevisionChanged, MissingData, BadCursor, Requested
  <2>3. start \in 0..LastMoment /\ LastMoment \in Nat /\ MaxPages \in Nat /\ pages \in 0..MaxPages
    BY <2>1, ExportAssumption DEF ExportTyped, Moment
  <2>4. start # Nothing /\ start \in Int
    BY <2>3 DEF Nothing
  <2>5. pages < MaxPages
    BY <2>1, <2>2 DEF Explained
  <2>6. QED BY <2>1, <2>2, <2>3, <2>4, <2>5 DEF Moment
<1>2. /\ UNCHANGED <<maxEvents, skip, kept, trail, start, events>> /\ phase' \in {"ended", "failed"}
      /\ revisions' = revisions \cup {Named(v, named)} /\ warned' = (warned \/ warns)
      /\ Requested(Named(v, named), warns)
  BY DEF RevisionChanged, MissingData, BadCursor, Requested
<1>3. \/ phase' = "failed" /\ UNCHANGED <<reason, continuation>>
      \/ phase' = "ended" /\ reason' = "revision_changed" /\ continuation' = Restart(start)
      \/ phase' = "ended" /\ reason' = "missing_event_data" /\ continuation' = Continue(start, 0)
  BY DEF RevisionChanged, MissingData, BadCursor
<1>4. Restart(start) \in Continuations /\ Continue(start, 0) \in Continuations
  BY <1>1 DEF Restart, Continue, Continuations
<1>5. ExportTyped'
  BY <1>1, <1>2, <1>3, <1>4 DEF ExportTyped, Reason, Named
<1>6. Explained'
  <2>1. maxEvents \in Nat /\ Len(events) <= maxEvents /\ continuation.skip <= maxEvents
    BY <1>1 DEF Explained, ExportTyped
  <2>2. 0 <= maxEvents
    BY <2>1
  <2>3. /\ Restart(start).skip = 0 /\ Restart(start).start = start
        /\ Continue(start, 0).skip = 0 /\ Continue(start, 0).start = start
    BY DEF Restart, Continue
  <2>4. continuation'.skip <= maxEvents'
    BY <1>2, <1>3, <2>1, <2>2, <2>3
  <2>5. phase' = "ended" => continuation'.start \in Moment
    BY <1>1, <1>3, <2>3
  <2>6. QED BY <1>2, <1>3, <2>1, <2>4, <2>5 DEF Explained
<1>7. OneSoFar'
  <2>1. ASSUME NEW r \in Revision, revisions' = {r} PROVE \A i \in DOMAIN events' : events'[i][1] = r
    <3>1. (revisions = {} /\ events = <<>>) \/ revisions = {r}
      BY <1>1, <1>2, <2>1 DEF OneSoFar
    <3>2. QED BY <1>1, <1>2, <3>1 DEF OneSoFar
  <2>2. OneRevision'
    BY <1>1, <1>2 DEF OneSoFar, OneRevision
  <2>3. QED BY <1>2, <2>1, <2>2 DEF OneSoFar
<1>8. Lossless'
  <2> SUFFICES ASSUME NEW w \in Revision, Pure(w)' PROVE (\E first \in Nat : LinesUp(w, first))'
    BY DEF Lossless
  <2>1. Pure(w)
    BY <1>2, PurePage
  <2>2. PICK first \in Nat : LinesUp(w, first)
    BY <1>1, <2>1 DEF Lossless
  <2>3. first + Len(events) = Before(w, start) /\ Before(w, start) \in Nat
    BY <1>1, <2>2, BeforeFacts DEF LinesUp
  <2>4. Continue(start, 0) # NoContinuation /\ Restart(start) # NoContinuation /\ Restart(start).restart = TRUE
    BY <1>1 DEF Continue, Restart, NoContinuation
  <2>5. first + Len(events) = Before(w, Continue(start, 0).start) + Continue(start, 0).skip
    BY <2>3 DEF Continue
  <2>6. LinesUp(w, first)'
    BY <1>2, <1>3, <2>2, <2>4, <2>5 DEF LinesUp
  <2>7. QED BY <2>6
<1>9. QED BY <1>5, <1>6, <1>7, <1>8 DEF ExportInv

(* What the three kinds of a page that is merged have in common. *)
LEMMA MergeFacts ==
  ASSUME ExportInv, NEW v \in Revision, NEW named \in BOOLEAN, NEW warns \in BOOLEAN,
         Requested(Named(v, named), warns)
  PROVE  /\ ExportTyped /\ Explained /\ start \in Moment /\ start \in Int /\ start # Nothing
         /\ LastMoment \in Nat /\ pages \in Nat /\ MaxPages \in Nat /\ pages < MaxPages
         /\ pages' = pages + 1 /\ pages' \in 0..MaxPages
         /\ maxEvents \in Nat /\ Len(events) \in Nat /\ Remaining \in Nat /\ events \in Seq(Row2)
         /\ phase = "collecting" /\ reason = "max_pages"
         /\ UNCHANGED <<maxEvents, skip, kept, trail>> /\ warned' = (warned \/ warns)
         /\ revisions' \subseteq Revision \cup {NoRevision} /\ warned' \in BOOLEAN
<1>1. ExportTyped /\ Explained
  BY DEF ExportInv
<1>2. /\ phase = "collecting" /\ pages' = pages + 1 /\ revisions' = revisions \cup {Named(v, named)}
      /\ UNCHANGED <<maxEvents, skip, kept, trail>> /\ warned' = (warned \/ warns)
  BY DEF Requested
<1>3. /\ start \in 0..LastMoment /\ LastMoment \in Nat /\ MaxPages \in Nat /\ pages \in 0..MaxPages
      /\ maxEvents \in Nat /\ events \in Seq(Row2) /\ start \in Moment
  BY <1>1, ExportAssumption DEF ExportTyped, Moment
<1>4. start # Nothing /\ start \in Int
  BY <1>3 DEF Nothing
<1>5. pages < MaxPages /\ reason = "max_pages" /\ Len(events) <= maxEvents
  BY <1>1, <1>2 DEF Explained
<1>6. pages \in Nat /\ pages' \in 0..MaxPages
  BY <1>2, <1>3, <1>5
<1>7. Len(events) \in Nat /\ Remaining \in Nat
  BY <1>3, <1>5 DEF Remaining
<1>8. revisions' \subseteq Revision \cup {NoRevision} /\ warned' \in BOOLEAN
  BY <1>1, <1>2 DEF ExportTyped, Named
<1>9. QED BY <1>1, <1>2, <1>3, <1>4, <1>5, <1>6, <1>7, <1>8

LEMMA OversizedHolds ==
  ASSUME ExportInv, NEW v \in Revision, NEW named \in BOOLEAN, NEW warns \in BOOLEAN,
         NEW to \in Int, start <= to, NEW rows \in Answers(v, warns, start, to),
         Oversized(rows, Named(v, named), warns)
  PROVE  ExportInv'
<1> DEFINE n == Remaining
           some == SubSeq(rows, 1, n)
<1>1. Requested(Named(v, named), warns) /\ Cardinality(revisions') = 1
  BY DEF Oversized
<1>2. /\ ExportTyped /\ Explained /\ start \in Moment /\ start \in Int /\ start # Nothing
      /\ pages' \in 0..MaxPages /\ maxEvents \in Nat /\ Len(events) \in Nat /\ n \in Nat /\ events \in Seq(Row2)
      /\ UNCHANGED <<maxEvents, skip, kept, trail>>
      /\ revisions' \subseteq Revision \cup {NoRevision} /\ warned' \in BOOLEAN
  BY <1>1, MergeFacts
<1>3. /\ rows \in Seq(Row2) /\ \A i \in DOMAIN rows : rows[i][1] = v
      /\ revisions' = {Named(v, named)}
      /\ named => \A i \in DOMAIN events : events[i][1] = v
      /\ \A w \in Revision : Pure(w)' =>
           \E first \in Nat : /\ LinesUp(w, first) /\ v = w /\ first + Len(events) = Before(w, start)
                              /\ rows = Run(w, Before(w, start), Before(w, to))
  BY <1>1, AnswerFacts
<1>4. n + Len(events) = maxEvents /\ n <= maxEvents
  BY <1>2 DEF Remaining
<1> HIDE DEF n
<1>5. /\ Len(rows) > n /\ events' = events \o Take(rows, n) /\ reason' = "max_events"
      /\ continuation' = Continue(start, n) /\ phase' = "ended" /\ UNCHANGED start
  BY DEF Oversized, n
<1>6. Take(rows, n) = some /\ events' = events \o some
  BY <1>2, <1>3, <1>5 DEF Take
<1>7. some \in Seq(Row2) /\ Len(some) = n /\ \A i \in DOMAIN some : some[i] = rows[i] /\ i \in DOMAIN rows
  <2>1. \A i \in 1..n : rows[i] \in Row2 /\ i \in DOMAIN rows
    BY <1>2, <1>3, <1>5
  <2>2. /\ some \in Seq(Row2) /\ Len(some) = IF 1 <= n THEN n - 1 + 1 ELSE 0
        /\ \A i \in 1..(n - 1 + 1) : some[i] = rows[1 + i - 1]
    <3>1. 1 \in Int /\ n \in Int
      BY <1>2
    <3>2. \A i \in 1..n : rows[i] \in Row2
      BY <2>1
    <3> HIDE DEF some
    <3>3. QED BY <3>1, <3>2, SubSeqProperties DEF some
  <2>3. Len(some) = n /\ DOMAIN some = 1..n
    BY <1>2, <2>2
  <2>4. \A i \in 1..n : some[i] = rows[i]
    BY <1>2, <2>2
  <2>5. QED BY <2>1, <2>2, <2>3, <2>4
<1> HIDE DEF some
<1>8. events' \in Seq(Row2) /\ Len(events') = maxEvents
  <2>1. events' \in Seq(Row2) /\ Len(events') = Len(events) + Len(some)
    BY <1>2, <1>6, <1>7, ConcatProperties
  <2>2. Len(events) + Len(some) = maxEvents
    BY <1>2, <1>4, <1>7
  <2>3. QED BY <2>1, <2>2
<1>9. /\ Continue(start, n) \in Continuations /\ Continue(start, n).skip = n /\ Continue(start, n).start = start
      /\ Continue(start, n) # NoContinuation
  BY <1>2 DEF Continue, Continuations, NoContinuation
<1>10. ExportTyped'
  BY <1>2, <1>5, <1>8, <1>9 DEF ExportTyped, Reason
<1>11. Explained'
  BY <1>2, <1>4, <1>5, <1>8, <1>9 DEF Explained
<1>12. OneSoFar'
  <2>1. \A i \in DOMAIN some : some[i][1] = v
    BY <1>3, <1>7
  <2>2. QED BY <1>2, <1>3, <1>6, <1>7, <2>1, StillOne
<1>13. Lossless'
  <2> SUFFICES ASSUME NEW w \in Revision, Pure(w)' PROVE (\E first \in Nat : LinesUp(w, first))'
    BY DEF Lossless
  <2>1. PICK first \in Nat : /\ LinesUp(w, first) /\ first + Len(events) = Before(w, start)
                             /\ rows = Run(w, Before(w, start), Before(w, to))
    BY <1>3
  <2> DEFINE a == Before(w, start)
             b == Before(w, to)
  <2>2. a \in Nat /\ b \in Nat /\ a <= b /\ b <= Size(w) /\ Size(w) \in Nat
    BY <1>2, BeforeFacts
  <2>3. first + Len(events) = a /\ rows = Run(w, a, b) /\ events = Run(w, first, a)
    BY <2>1 DEF LinesUp
  <2> HIDE DEF a, b
  <2>4. n <= b - a
    <3>1. Len(rows) = b - a
      BY <2>2, <2>3, RunFacts
    <3>2. QED BY <1>2, <1>5, <2>2, <3>1
  <2>5. some = Run(w, a, a + n)
    <3>1. a \in Nat /\ b \in Nat /\ n \in Nat /\ n <= b - a
      BY <1>2, <2>2, <2>4
    <3>2. SubSeq(Run(w, a, b), 1, n) = Run(w, a, a + n)
      BY <3>1, RunsStart
    <3>3. QED BY <2>3, <3>2 DEF some
  <2>6. events' = Run(w, first, a + n)
    <3>1. first <= a /\ a <= a + n /\ a + n \in Nat
      BY <1>2, <2>2, <2>3
    <3>2. Run(w, first, a) \o Run(w, a, a + n) = Run(w, first, a + n)
      BY <2>2, <3>1, RunsJoin
    <3>3. QED BY <1>6, <2>3, <2>5, <3>2
  <2>7. first + Len(events') = a + n
    BY <1>2, <1>4, <1>8, <2>2, <2>3
  <2>8. a + n <= Size(w)
    BY <1>2, <2>2, <2>4
  <2>9. first + Len(events') = Before(w, Continue(start, n).start) + Continue(start, n).skip
    BY <1>9, <2>7 DEF a
  <2>10. LinesUp(w, first)'
    BY <1>2, <1>5, <1>9, <2>1, <2>6, <2>7, <2>8, <2>9 DEF LinesUp
  <2>11. QED BY <2>10
<1>14. QED BY <1>10, <1>11, <1>12, <1>13 DEF ExportInv

(* A page that is taken whole, whether or not another follows. *)
LEMMA WholePageHolds ==
  ASSUME ExportInv, NEW v \in Revision, NEW named \in BOOLEAN, NEW warns \in BOOLEAN,
         NEW to \in Int, start <= to, NEW rows \in Answers(v, warns, start, to),
         \/ to = LastMoment + 1 /\ LastPage(rows, Named(v, named), warns)
         \/ to \in Moment /\ MorePages(rows, to, Named(v, named), warns)
  PROVE  ExportInv'
<1>1. Requested(Named(v, named), warns) /\ Cardinality(revisions') = 1
  BY DEF LastPage, MorePages
<1>2. /\ ExportTyped /\ Explained /\ start \in Moment /\ LastMoment \in Nat
      /\ pages' \in 0..MaxPages /\ MaxPages \in Nat /\ maxEvents \in Nat /\ Len(events) \in Nat /\ events \in Seq(Row2)
      /\ start \in Int /\ reason = "max_pages" /\ UNCHANGED <<maxEvents, skip, kept, trail>>
      /\ revisions' \subseteq Revision \cup {NoRevision} /\ warned' \in BOOLEAN
  BY <1>1, MergeFacts
<1>3. /\ rows \in Seq(Row2) /\ \A i \in DOMAIN rows : rows[i][1] = v
      /\ revisions' = {Named(v, named)}
      /\ named => \A i \in DOMAIN events : events[i][1] = v
      /\ \A w \in Revision : Pure(w)' =>
           \E first \in Nat : /\ LinesUp(w, first) /\ v = w /\ first + Len(events) = Before(w, start)
                              /\ rows = Run(w, Before(w, start), Before(w, to))
  BY <1>1, AnswerFacts
<1>4. Len(rows) <= Remaining /\ events' = events \o rows
  BY DEF LastPage, MorePages
<1>5. events' \in Seq(Row2) /\ Len(events') = Len(events) + Len(rows)
  BY <1>2, <1>3, <1>4, ConcatProperties
<1>6. Len(events') <= maxEvents /\ Len(events') \in Nat
  BY <1>2, <1>3, <1>4, <1>5 DEF Remaining
<1>7. \/ /\ phase' = "ended" /\ continuation' = NoContinuation /\ start' = start /\ to = LastMoment + 1
         /\ reason' = IF warned' THEN "partial_graphql_errors" ELSE "none"
      \/ /\ continuation' = Continue(to, 0) /\ start' = to /\ to \in Moment
         /\ \/ phase' = "ended" /\ reason' = "max_events"
            \/ phase' = "ended" /\ reason' = "max_pages" /\ pages' = MaxPages
            \/ phase' = "collecting" /\ reason' = "max_pages" /\ pages' # MaxPages
  BY <1>2 DEF LastPage, MorePages
<1>8. /\ NoContinuation \in Continuations /\ NoContinuation.skip = 0
      /\ to \in Moment => /\ Continue(to, 0) \in Continuations /\ Continue(to, 0).skip = 0
                          /\ Continue(to, 0).start = to /\ Continue(to, 0) # NoContinuation
  BY <1>2 DEF Continue, Continuations, NoContinuation, Moment, Nothing
<1>9. ExportTyped'
  BY <1>2, <1>5, <1>7, <1>8 DEF ExportTyped, Reason
<1>10. Explained'
  <2>1. 0 <= maxEvents /\ (pages' # MaxPages => pages' < MaxPages) /\ (pages' = MaxPages => ~(pages' < MaxPages))
    BY <1>2
  <2>2. continuation'.skip <= maxEvents'
    BY <1>2, <1>7, <1>8, <2>1
  <2>3. QED BY <1>1, <1>2, <1>6, <1>7, <1>8, <2>1, <2>2 DEF Explained
<1>11. OneSoFar'
  BY <1>2, <1>3, <1>4, StillOne
<1>12. Lossless'
  <2> SUFFICES ASSUME NEW w \in Revision, Pure(w)' PROVE (\E first \in Nat : LinesUp(w, first))'
    BY DEF Lossless
  <2>1. PICK first \in Nat : /\ LinesUp(w, first) /\ first + Len(events) = Before(w, start)
                             /\ rows = Run(w, Before(w, start), Before(w, to))
    BY <1>3
  <2> DEFINE a == Before(w, start)
             b == Before(w, to)
  <2>2. /\ a \in Nat /\ b \in Nat /\ a <= b /\ b <= Size(w) /\ Size(w) \in Nat
        /\ (to = LastMoment + 1 => b = Size(w))
    BY <1>2, BeforeFacts
  <2>3. first + Len(events) = a /\ rows = Run(w, a, b) /\ events = Run(w, first, a)
    BY <2>1 DEF LinesUp
  <2> HIDE DEF a, b
  <2>4. Len(rows) = b - a
    BY <2>2, <2>3, RunFacts
  <2>5. first + Len(events') = b
    BY <1>2, <1>5, <2>2, <2>3, <2>4
  <2>6. events' = Run(w, first, b)
    <3>1. first <= a
      BY <1>2, <2>2, <2>3
    <3>2. Run(w, first, a) \o Run(w, a, b) = Run(w, first, b)
      BY <2>2, <3>1, RunsJoin
    <3>3. QED BY <1>4, <2>3, <3>2
  <2>7. to \in Moment => first + Len(events') = Before(w, Continue(to, 0).start) + Continue(to, 0).skip
    BY <1>8, <2>2, <2>5 DEF b
  <2>8. LinesUp(w, first)'
    BY <1>2, <1>7, <1>8, <2>1, <2>2, <2>5, <2>6, <2>7 DEF LinesUp, b
  <2>9. QED BY <2>8
<1>13. QED BY <1>9, <1>10, <1>11, <1>12 DEF ExportInv

LEMMA PageHolds == ASSUME ExportInv, Page PROVE ExportInv'
<1>1. start \in Moment /\ LastMoment \in Nat
  BY ExportAssumption DEF ExportInv, ExportTyped
<1>2. start \in Int /\ start <= LastMoment + 1 /\ LastMoment + 1 \in Int
  BY <1>1 DEF Moment
<1>3. PICK v \in Revision, named \in BOOLEAN, warns \in BOOLEAN :
        \/ RevisionChanged(Named(v, named), warns)
        \/ MissingData(Named(v, named), warns)
        \/ BadCursor(Named(v, named), warns)
        \/ \E rows \in Answers(v, warns, start, LastMoment + 1) :
             Oversized(rows, Named(v, named), warns) \/ LastPage(rows, Named(v, named), warns)
        \/ \E cursor \in {t \in Moment : t > start} : \E rows \in Answers(v, warns, start, cursor) :
             Oversized(rows, Named(v, named), warns) \/ MorePages(rows, cursor, Named(v, named), warns)
  <2>1. PICK v \in Revision, named \in BOOLEAN, warns \in BOOLEAN :
          \/ RevisionChanged(Named(v, named), warns)
          \/ MissingData(Named(v, named), warns)
          \/ BadCursor(Named(v, named), warns)
          \/ \E rows \in Answers(v, warns, start, LastMoment + 1) :
               \/ Oversized(rows, Named(v, named), warns) /\ nextTime' = Nothing
               \/ LastPage(rows, Named(v, named), warns)
          \/ \E cursor \in {t \in Moment : t > start} : \E rows \in Answers(v, warns, start, cursor) :
               \/ Oversized(rows, Named(v, named), warns) /\ nextTime' = cursor
               \/ MorePages(rows, cursor, Named(v, named), warns)
    BY DEF Page, Named, Answers
  <2>2. QED BY <2>1, Zenon
<1>4. CASE \/ RevisionChanged(Named(v, named), warns) \/ MissingData(Named(v, named), warns)
           \/ BadCursor(Named(v, named), warns)
  BY <1>4, StopsHold
<1>5. CASE \E rows \in Answers(v, warns, start, LastMoment + 1) :
             Oversized(rows, Named(v, named), warns) \/ LastPage(rows, Named(v, named), warns)
  BY <1>2, <1>5, OversizedHolds, WholePageHolds
<1>6. CASE \E cursor \in {t \in Moment : t > start} : \E rows \in Answers(v, warns, start, cursor) :
             Oversized(rows, Named(v, named), warns) \/ MorePages(rows, cursor, Named(v, named), warns)
  <2>1. PICK cursor \in Moment : /\ cursor > start
                                 /\ \E rows \in Answers(v, warns, start, cursor) :
                                      \/ Oversized(rows, Named(v, named), warns)
                                      \/ MorePages(rows, cursor, Named(v, named), warns)
    BY <1>6
  <2>2. cursor \in Int /\ start <= cursor
    BY <1>1, <1>2, <2>1 DEF Moment
  <2>3. QED BY <2>1, <2>2, OversizedHolds, WholePageHolds
<1>7. QED BY <1>3, <1>4, <1>5, <1>6

(* An export that begins: nothing is read yet, and what was kept reaches up *)
(* to its start but for the rows to skip.                                   *)
LEMMA BeginHolds ==
  ASSUME NEW from \in Moment, NEW rows \in Nat, NEW bound \in EventBounds, BeginExport(from, rows, bound),
         kept' \in Seq(Row2), trail' \in [revisions : SUBSET (Revision \cup {NoRevision}), warned : BOOLEAN],
         \A v \in Revision : Pure(v)' => Before(v, from) + rows <= Size(v) /\ kept' = Run(v, 0, Before(v, from) + rows)
  PROVE  ExportInv'
<1>1. LastMoment \in Nat /\ MaxPages \in Nat \ {0} /\ bound \in Nat \ {0}
  BY ExportAssumption
<1>2. /\ phase' = "collecting" /\ start' = from /\ skip' = rows /\ maxEvents' = bound
      /\ events' = <<>> /\ revisions' = {} /\ warned' = FALSE /\ pages' = 0
      /\ reason' = "max_pages" /\ continuation' = NoContinuation
  BY DEF BeginExport
<1>3. <<>> \in Seq(Row2) /\ Len(<<>>) = 0 /\ DOMAIN <<>> = {}
  OBVIOUS
<1>4. NoContinuation \in Continuations /\ NoContinuation.skip = 0
  BY DEF NoContinuation, Continuations
<1>5. ExportTyped'
  <2>1. maxEvents' \in Nat \ {0} /\ pages' \in 0..MaxPages
    BY <1>1, <1>2
  <2>2. QED BY <1>2, <1>3, <1>4, <2>1 DEF ExportTyped, Reason
<1>6. Explained'
  BY <1>1, <1>2, <1>3, <1>4 DEF Explained
<1>7. OneSoFar'
  BY <1>2, <1>3 DEF OneSoFar, OneRevision
<1>8. Lossless'
  <2> SUFFICES ASSUME NEW w \in Revision, Pure(w)' PROVE (\E first \in Nat : LinesUp(w, first))'
    BY DEF Lossless
  <2> DEFINE a == Before(w, from)
  <2>1. a \in Nat /\ a <= Size(w) /\ Size(w) \in Nat
    BY <1>1, BeforeFacts DEF Moment
  <2>2. a + rows <= Size(w) /\ kept' = Run(w, 0, a + rows) /\ a = Before(w, start')
    BY <1>2
  <2>3. Run(w, a, a) = <<>>
    <3> HIDE DEF a
    <3>1. a <= a
      BY <2>1
    <3>2. QED BY <2>1, <3>1, RunFacts
  <2> HIDE DEF a
  <2>4. a + Len(events') = a
    BY <1>2, <1>3, <2>1
  <2>5. LinesUp(w, a)'
    BY <1>2, <2>1, <2>2, <2>3, <2>4 DEF LinesUp
  <2>6. QED BY <2>1, <2>5
<1>9. QED BY <1>5, <1>6, <1>7, <1>8 DEF ExportInv

LEMMA StartOverHolds ==
  ASSUME ExportInv, NEW bound \in EventBounds, StartOver(bound)
  PROVE  ExportInv'
<1>1. BeginExport(0, 0, bound) /\ kept' = <<>> /\ trail' = [revisions |-> {}, warned |-> FALSE]
  BY DEF StartOver
<1>2. 0 \in Moment /\ 0 \in Nat /\ <<>> \in Seq(Row2)
  BY ExportAssumption DEF Moment
<1>3. trail' \in [revisions : SUBSET (Revision \cup {NoRevision}), warned : BOOLEAN]
  BY <1>1
<1>4. ASSUME NEW v \in Revision
      PROVE  Before(v, 0) + 0 <= Size(v) /\ kept' = Run(v, 0, Before(v, 0) + 0)
  <2>1. Size(v) \in Nat /\ Before(v, 0) = 0
    BY BeforeFacts
  <2>2. Run(v, 0, 0) = <<>>
    BY RunFacts
  <2>3. QED BY <1>1, <2>1, <2>2
<1>5. QED BY <1>1, <1>2, <1>3, <1>4, BeginHolds

(* What the reader has after this export: the rows of v up to where the     *)
(* export ends, or still as many as before.                                 *)
LEMMA UsefulFacts ==
  ASSUME ExportTyped, NEW v \in Revision, NEW first \in Nat, LinesUp(v, first)
  PROVE  /\ first + Len(events) >= first + skip => kept \o Useful = Run(v, 0, first + Len(events))
         /\ first + Len(events) < first + skip => kept \o Useful = Run(v, 0, first + skip)
<1> DEFINE n == Len(events)
           end == first + n
           k == first + skip
<1>1. skip \in Nat /\ n \in Nat /\ events \in Seq(Row2) /\ kept \in Seq(Row2)
  BY DEF ExportTyped
<1>2. end \in Nat /\ k \in Nat /\ first <= end
  BY <1>1
<1>3. kept = Run(v, 0, k) /\ events = Run(v, first, end)
  BY DEF LinesUp
<1>4. CASE n >= skip
  <2>1. /\ k >= first /\ end >= first /\ end <= end /\ skip + 1 = k - first + 1 /\ n = end - first
        /\ skip + 1 \in Int /\ n \in Int /\ k <= end /\ 0 <= k
    BY <1>1, <1>2, <1>4
  <2> HIDE DEF n, end, k
  <2>2. SubSeq(Run(v, first, end), skip + 1, n) = Run(v, k, end)
    <3>1. skip \in Nat /\ n \in Nat /\ end \in Nat /\ n = end - first /\ skip <= n /\ first + skip = k
      BY <1>1, <1>2, <1>4, <2>1 DEF k
    <3>2. SubSeq(Run(v, first, end), skip + 1, n) = Run(v, first + skip, end)
      BY <3>1, RunsEnd
    <3>3. QED BY <3>1, <3>2
  <2>3. Useful = Run(v, k, end)
    BY <1>3, <2>2 DEF Useful, n
  <2>4. Run(v, 0, k) \o Run(v, k, end) = Run(v, 0, end)
    BY <1>2, <2>1, RunsJoin
  <2>5. kept \o Useful = Run(v, 0, end) /\ ~(end < k)
    BY <1>2, <1>3, <2>1, <2>3, <2>4
  <2>6. QED BY <2>5 DEF end, k, n
<1>5. CASE n < skip
  <2>1. n < skip + 1 /\ skip + 1 \in Int /\ n \in Int /\ ~(end >= k)
    BY <1>1, <1>2, <1>5
  <2> HIDE DEF n, end, k
  <2>2. Useful = <<>>
    BY <2>1, SubSeqEmpty DEF Useful, n
  <2>3. kept \o Useful = Run(v, 0, k)
    BY <1>1, <1>3, <2>2, ConcatEmptySeq
  <2>4. QED BY <2>1, <2>3 DEF end, k, n
<1>6. QED BY <1>1, <1>4, <1>5

(* So an export that ends with a continuation leaves the rows after it and  *)
(* after the rows to skip, and one that ends without has them all.          *)
LEMMA EndFacts ==
  ASSUME ExportTyped, Explained, NEW v \in Revision, NEW first \in Nat, LinesUp(v, first), phase = "ended"
  PROVE  /\ continuation = NoContinuation => kept \o Useful = Run(v, 0, Size(v))
         /\ continuation # NoContinuation /\ ~continuation.restart =>
              /\ continuation.start \in Moment /\ SkipNext \in Nat
              /\ Before(v, continuation.start) \in Nat /\ Size(v) \in Nat
              /\ Before(v, continuation.start) + SkipNext <= Size(v)
              /\ kept \o Useful = Run(v, 0, Before(v, continuation.start) + SkipNext)
<1>1. skip \in Nat /\ Len(events) \in Nat /\ continuation.skip \in Nat /\ Size(v) \in Nat
  <2>1. Size(v) \in Nat
    BY BeforeFacts
  <2>2. QED BY <2>1 DEF ExportTyped, Continuations
<1>2. first + skip <= Size(v) /\ first + Len(events) <= Size(v)
  BY DEF LinesUp
<1>3. CASE continuation = NoContinuation
  <2>1. first + Len(events) = Size(v)
    BY <1>3 DEF LinesUp
  <2>2. first + Len(events) >= first + skip
    BY <1>1, <1>2, <2>1
  <2>3. kept \o Useful = Run(v, 0, first + Len(events))
    BY <2>2, UsefulFacts
  <2>4. QED BY <1>3, <2>1, <2>3
<1>4. CASE continuation # NoContinuation /\ ~continuation.restart
  <2>1. continuation.start \in Moment /\ continuation.start \in Int
    BY <1>4 DEF Explained, Moment
  <2>2. Before(v, continuation.start) \in Nat
    BY <2>1, BeforeFacts
  <2>3. first + Len(events) = Before(v, continuation.start) + continuation.skip
    BY <1>4 DEF LinesUp
  <2>4. SkipNext \in Nat
    BY <1>1 DEF SkipNext
  <2>5. Before(v, continuation.start) + SkipNext =
          IF Len(events) < skip THEN first + skip ELSE first + Len(events)
    BY <1>1, <2>2, <2>3 DEF SkipNext
  <2>6. CASE Len(events) < skip
    <3>1. first + Len(events) < first + skip
      BY <1>1, <2>6
    <3>2. kept \o Useful = Run(v, 0, first + skip)
      BY <3>1, UsefulFacts
    <3>3. QED BY <1>1, <1>2, <1>4, <2>1, <2>2, <2>4, <2>5, <2>6, <3>2
  <2>7. CASE ~(Len(events) < skip)
    <3>1. first + Len(events) >= first + skip
      BY <1>1, <2>7
    <3>2. kept \o Useful = Run(v, 0, first + Len(events))
      BY <3>1, UsefulFacts
    <3>3. QED BY <1>1, <1>2, <1>4, <2>1, <2>2, <2>4, <2>5, <2>7, <3>2
  <2>8. QED BY <2>6, <2>7
<1>5. QED BY <1>3, <1>4

LEMMA ResumeHolds ==
  ASSUME ExportInv, NEW bound \in EventBounds, Resume(bound)
  PROVE  ExportInv'
<1>1. ExportTyped /\ Explained /\ Lossless
  BY DEF ExportInv
<1>2. /\ phase = "ended" /\ continuation # NoContinuation /\ ~continuation.restart
      /\ kept' = kept \o Useful
      /\ trail' = [revisions |-> trail.revisions \cup revisions, warned |-> trail.warned \/ warned]
      /\ BeginExport(continuation.start, SkipNext, bound)
  BY DEF Resume
<1>3. continuation.start \in Moment /\ continuation.skip \in Nat /\ continuation.start \in Int
  BY <1>1, <1>2 DEF Explained, ExportTyped, Continuations, Moment
<1>4. /\ skip \in Nat /\ Len(events) \in Nat /\ events \in Seq(Row2) /\ kept \in Seq(Row2)
      /\ revisions \subseteq Revision \cup {NoRevision} /\ warned \in BOOLEAN
      /\ trail.revisions \subseteq Revision \cup {NoRevision} /\ trail.warned \in BOOLEAN
  BY <1>1 DEF ExportTyped
<1>5. SkipNext \in Nat
  BY <1>3, <1>4 DEF SkipNext
<1>6. Useful \in Seq(Row2)
  <2>1. skip + 1 \in Int /\ Len(events) \in Int /\ \A i \in (skip + 1)..Len(events) : events[i] \in Row2
    BY <1>4
  <2>2. QED BY <2>1, SubSeqProperties DEF Useful
<1>7. kept' \in Seq(Row2)
  BY <1>2, <1>4, <1>6, ConcatProperties
<1>8. trail' \in [revisions : SUBSET (Revision \cup {NoRevision}), warned : BOOLEAN]
  BY <1>2, <1>4
<1>9. ASSUME NEW v \in Revision, Pure(v)'
      PROVE  /\ Before(v, continuation.start) + SkipNext <= Size(v)
             /\ kept' = Run(v, 0, Before(v, continuation.start) + SkipNext)
  <2>1. Pure(v)
    <3>1. trail'.revisions = trail.revisions \cup revisions /\ trail'.warned = (trail.warned \/ warned)
      BY <1>2
    <3>2. QED BY <1>9, <3>1 DEF Pure
  <2>2. PICK first \in Nat : LinesUp(v, first)
    BY <1>1, <2>1 DEF Lossless
  <2>3. QED BY <1>1, <1>2, <2>2, EndFacts
<1>10. QED BY <1>2, <1>3, <1>5, <1>7, <1>8, <1>9, BeginHolds

THEOREM ExportInvariant == ExportSpec => []ExportInv
<1>1. ExportInv /\ [ExportNext]_exporting => ExportInv'
  <2> SUFFICES ASSUME ExportInv, [ExportNext]_exporting PROVE ExportInv'
    OBVIOUS
  <2>1. CASE UNCHANGED exporting
    <3>1. UNCHANGED <<phase, maxEvents, start, events, revisions, warned, pages, reason, continuation, skip, kept, trail>>
      BY <2>1 DEF exporting
    <3>2. ExportTyped' /\ Explained'
      BY <3>1 DEF ExportInv, ExportTyped, Explained
    <3>3. OneSoFar'
      BY <3>1 DEF ExportInv, OneSoFar, OneRevision
    <3>4. Lossless'
      BY <3>1 DEF ExportInv, Lossless, Pure, LinesUp
    <3>5. QED BY <3>2, <3>3, <3>4 DEF ExportInv
  <2>2. QED BY <2>1, PageHolds, ResumeHolds, StartOverHolds DEF ExportNext
<1>2. QED BY <1>1, ExportInitHolds, PTL DEF ExportSpec

(* However an investigation is cut into exports, by page bounds, by event   *)
(* bounds or by starting over, the rows put together and those still to     *)
(* read are the slice of its revision, each row once; it is called complete *)
(* only when it is; it never mixes revisions; and an incomplete export says *)
(* where to go on (event_export.py: collect_events).                        *)
THEOREM ExportsAlwaysHold == ExportSpec => []ExportsHold
<1>1. ASSUME ExportInv, NEW v \in Revision, CleanRevision(v), phase = "ended", ~continuation.restart
      PROVE  /\ kept \o Useful \o Rest(v) = Whole(v)
             /\ continuation = NoContinuation => kept \o Useful = Whole(v)
  <2>1. ExportTyped /\ Explained /\ Pure(v)
    BY <1>1 DEF ExportInv, CleanRevision, Pure
  <2>2. PICK first \in Nat : LinesUp(v, first)
    BY <1>1, <2>1 DEF ExportInv, Lossless
  <2>3. Size(v) \in Nat /\ Before(v, 0) = 0 /\ Before(v, LastMoment + 1) = Size(v)
    BY BeforeFacts
  <2>4. Whole(v) = Run(v, 0, Size(v))
    BY <2>3, SliceIsRun DEF Whole
  <2>5. CASE continuation = NoContinuation
    <3>1. kept \o Useful = Run(v, 0, Size(v))
      BY <1>1, <2>1, <2>2, <2>5, EndFacts
    <3>2. Run(v, 0, Size(v)) \in Seq(Row2)
      BY <2>3, RunFacts DEF Row2
    <3>3. Run(v, 0, Size(v)) \o <<>> = Run(v, 0, Size(v))
      BY <3>2, ConcatEmptySeq
    <3>4. Rest(v) = <<>>
      BY <2>5 DEF Rest
    <3>5. QED BY <2>4, <3>1, <3>3, <3>4
  <2>6. CASE continuation # NoContinuation
    <3> DEFINE a == Before(v, continuation.start)
               b == Size(v)
               s == SkipNext
    <3>1. /\ continuation.start \in Moment /\ s \in Nat /\ a \in Nat /\ b \in Nat /\ a + s <= b
          /\ kept \o Useful = Run(v, 0, a + s)
      BY <1>1, <2>1, <2>2, <2>6, EndFacts
    <3>2. Slice(v, continuation.start, LastMoment + 1) = Run(v, a, b)
      <4>1. Slice(v, continuation.start, LastMoment + 1) = Run(v, a, Before(v, LastMoment + 1))
        BY SliceIsRun
      <4>2. QED BY <2>3, <4>1
    <3>3. Rest(v) = SubSeq(Run(v, a, b), s + 1, Len(Run(v, a, b)))
      BY <2>6, <3>2 DEF Rest
    <3> HIDE DEF a, b, s
    <3>4. a <= b /\ s <= b - a /\ b - a \in Nat /\ 0 <= a + s /\ a + s \in Nat
      <4>1. s \in Nat /\ a \in Nat /\ b \in Nat /\ a + s <= b
        BY <3>1
      <4>2. QED BY <4>1
    <3>5. Len(Run(v, a, b)) = b - a
      BY <3>1, <3>4, RunFacts
    <3> DEFINE n == b - a
    <3>6. n \in Nat /\ n = b - a /\ s <= n
      BY <3>4
    <3> HIDE DEF n
    <3>7. SubSeq(Run(v, a, b), s + 1, n) = Run(v, a + s, b)
      <4>1. a \in Nat /\ b \in Nat /\ s \in Nat /\ n \in Nat /\ n = b - a /\ s <= n
        BY <3>1, <3>6
      <4>2. QED BY <4>1, RunsEnd
    <3>8. Rest(v) = Run(v, a + s, b)
      BY <3>3, <3>5, <3>6, <3>7
    <3>9. Run(v, 0, a + s) \o Run(v, a + s, b) = Run(v, 0, b)
      <4> DEFINE d == a + s
      <4>1. d \in Nat /\ b \in Nat /\ 0 \in Nat /\ 0 <= d /\ d <= b
        BY <3>1, <3>4
      <4> HIDE DEF d
      <4>2. Run(v, 0, d) \o Run(v, d, b) = Run(v, 0, b)
        BY <4>1, RunsJoin
      <4>3. QED BY <4>2 DEF d
    <3>10. QED BY <2>4, <2>6, <3>1, <3>8, <3>9 DEF b
  <2>7. QED BY <2>5, <2>6
<1>2. ExportInv => LosslessReplay
  BY <1>1 DEF LosslessReplay
<1>3. ExportInv => WholeEvidence
  <2> SUFFICES ASSUME ExportInv PROVE CompleteIsWhole /\ OneRevision
    BY DEF WholeEvidence
  <2>1. OneRevision
    BY DEF ExportInv, OneSoFar
  <2>2. ASSUME phase = "ended", reason = "none"
        PROVE  ~warned /\ Cardinality(revisions) = 1 /\ continuation = NoContinuation /\ ~continuation.restart
    BY <2>2 DEF ExportInv, Explained, NoContinuation
  <2>3. CompleteIsWhole
    BY <1>1, <2>2 DEF CompleteIsWhole
  <2>4. QED BY <2>1, <2>3
<1>4. ExportInv => BoundedAndExplained
  <2> SUFFICES ASSUME ExportInv PROVE BoundedAndExplained
    OBVIOUS
  <2>1. pages <= MaxPages
    BY ExportAssumption DEF ExportInv, ExportTyped
  <2>2. QED BY <2>1 DEF ExportInv, Explained, BoundedAndExplained
<1>5. QED BY <1>2, <1>3, <1>4, ExportInvariant, PTL DEF ExportsHold

-----------------------------------------------------------------------------
(* IndexRefresh.                                                           *)

(* Days are never ahead of the calendar; between its load and its save a    *)
(* refresh has the index that is on disk, which nobody else writes, and     *)
(* what it merges is a crawl of that index.                                 *)
RowsDated == \A u \in URL : disk.rows[u].last \in Nat /\ disk.rows[u].last <= day

RefreshInv ==
  /\ day \in Nat /\ RowsDated
  /\ stage \in [Refresher -> {"idle", "loaded", "crawled"}]
  /\ previous = [p \in Refresher |-> previous[p]] /\ result = [p \in Refresher |-> result[p]]
  /\ \A p \in Refresher :
       /\ stage[p] # "idle" => previous[p] = disk
       /\ stage[p] = "crawled" =>
            /\ IsCrawlOf(previous[p], result[p]) /\ result[p].read \in [URL -> URL \cup {NoUrl}]
            /\ result[p].gone \subseteq URL
            /\ result[p].stop \in {"none", "blocked", "unavailable", "max_requests"}

(* What IsCrawlOf promises of a crawl that did not fail on its first page.  *)
LEMMA CrawlFacts ==
  ASSUME NEW x, NEW r, IsCrawlOf(x, r), r.read \in [URL -> URL \cup {NoUrl}], r.stop # "seed_failed"
  PROVE  /\ ReadSet(r) \cap r.gone = {}
         /\ {Menu} \cup x.frontier \subseteq FetchedIn(r) \cup r.waiting
         /\ r.stop = "none" => Held(x) \ SeedsOf(x) \subseteq FetchedIn(r) \cup {r.read[u] : u \in ReadSet(r)}
         /\ ReadSet(r) = {} => FetchedIn(r) = {} /\ r.waiting = {Menu} \cup x.frontier
         /\ ReadSet(r) # {} => Menu \in ReadSet(r)
         /\ r.stop = "none" => r.waiting = {}
<1>1. DOMAIN r.read = URL
  OBVIOUS
<1>2. QED BY <1>1, Zenon DEF IsCrawlOf, Contract!IsResult, ReadSet, FetchedIn, SeedsOf

(* Saving a crawl of the index on disk keeps every row that is not gone,    *)
(* its first day, and dates what was read.                                  *)
LEMMA MergeRows ==
  ASSUME RefreshInv, NEW p \in Refresher, stage[p] = "crawled", disk' = Merge(previous[p], result[p])
  PROVE  /\ disk'.frontier = result[p].waiting
         /\ disk'.rows = [u \in URL |-> MergedRow(disk, result[p], u)]
         /\ disk'.refreshed = IF result[p].stop \in {"blocked", "unavailable"} THEN disk.refreshed ELSE day
         /\ \A u \in URL :
              /\ disk'.rows[u] = MergedRow(disk, result[p], u)
              /\ Present(disk, u) /\ ~Present(disk', u) => u \in result[p].gone
              /\ Present(disk, u) /\ Present(disk', u) => disk'.rows[u].first = disk.rows[u].first
              /\ disk'.rows[u].last \in Nat /\ disk'.rows[u].last <= day
              /\ Present(disk', u) => disk'.rows[u].last >= disk.rows[u].last
<1>1. previous[p] = disk /\ day \in Nat /\ \A u \in URL : disk.rows[u].last \in Nat /\ disk.rows[u].last <= day
  BY DEF RefreshInv, RowsDated
<1>2. /\ disk'.frontier = result[p].waiting
      /\ disk'.rows = [u \in URL |-> MergedRow(disk, result[p], u)]
      /\ disk'.refreshed = IF result[p].stop \in {"blocked", "unavailable"} THEN disk.refreshed ELSE day
  BY <1>1 DEF Merge
<1>3. ASSUME NEW u \in URL
      PROVE  /\ disk'.rows[u] = MergedRow(disk, result[p], u)
             /\ Present(disk, u) /\ ~Present(disk', u) => u \in result[p].gone
             /\ Present(disk, u) /\ Present(disk', u) => disk'.rows[u].first = disk.rows[u].first
             /\ disk'.rows[u].last \in Nat /\ disk'.rows[u].last <= day
             /\ Present(disk', u) => disk'.rows[u].last >= disk.rows[u].last
  <2> DEFINE row == MergedRow(disk, result[p], u)
  <2>1. disk'.rows[u] = row
    BY <1>2
  <2>2. CASE u \in result[p].gone
    <3>1. row.status = "absent" /\ row.last = 0
      BY <2>2 DEF MergedRow, Absent
    <3>2. QED BY <1>1, <2>1, <2>2, <3>1 DEF Present
  <2>3. CASE \E status \in {"ok", "redirect"}, to \in URL \cup {NoUrl} \cup {result[p].read[u]} :
               row = Upsert(disk.rows[u], status, to)
    <3>1. /\ row.status \in {"ok", "redirect"} /\ row.last = day
          /\ disk.rows[u].status # "absent" => row.first = disk.rows[u].first
      BY <2>3 DEF Upsert
    <3>2. day <= day /\ day >= disk.rows[u].last
      BY <1>1
    <3>3. QED BY <1>1, <2>1, <3>1, <3>2 DEF Present
  <2>4. CASE row = disk.rows[u]
    <3>1. disk.rows[u].last >= disk.rows[u].last
      BY <1>1
    <3>2. QED BY <1>1, <2>1, <2>4, <3>1 DEF Present
  <2>5. QED BY <2>2, <2>3, <2>4 DEF MergedRow
<1>4. QED BY <1>2, <1>3

LEMMA RefreshInitHolds == IndexInit => RefreshInv
<1> SUFFICES ASSUME IndexInit PROVE RefreshInv
  OBVIOUS
<1>1. day = 0 /\ disk = Bundled /\ \A u \in URL : Bundled.rows[u].last = 0
  BY IndexAssumption DEF IndexInit
<1>2. RowsDated
  BY <1>1 DEF RowsDated
<1>3. QED BY <1>1, <1>2 DEF IndexInit, RefreshInv

(* A crawl is one of the index that was loaded. *)
LEMMA CrawlHolds ==
  ASSUME RefreshInv, NEW p \in Refresher, Crawl(p)
  PROVE  RefreshInv'
<1>1. UNCHANGED <<day, disk, previous>> /\ stage[p] = "loaded"
  BY DEF Crawl
<1>1a. PICK to \in {"idle", "crawled"} : \E r :
        /\ stage' = [stage EXCEPT ![p] = to] /\ result' = [result EXCEPT ![p] = r]
        /\ to = "crawled" =>
             /\ IsCrawlOf(previous[p], r) /\ r.read \in [URL -> URL \cup {NoUrl}] /\ r.gone \subseteq URL
             /\ r.stop \in {"none", "blocked", "unavailable", "max_requests"}
  <2>1. PICK read \in Reads : \E gone \in SUBSET {u \in URL : read[u] = NoUrl} :
             \E failed \in SUBSET ({u \in URL : read[u] = NoUrl} \ gone),
                waiting \in SUBSET ({u \in URL : read[u] = NoUrl} \ gone),
                stop \in {"none", "blocked", "seed_failed", "unavailable", "max_requests"} :
               LET r == [read |-> read, gone |-> gone, failed |-> failed, waiting |-> waiting,
                         stop |-> stop] IN
               /\ IsCrawlOf(previous[p], r)
               /\ stage' = [stage EXCEPT ![p] = IF r.stop = "seed_failed" THEN "idle" ELSE "crawled"]
               /\ result' = [result EXCEPT ![p] = IF r.stop = "seed_failed" THEN NoResult ELSE r]
    BY DEF Crawl
  <2> DEFINE none == {u \in URL : read[u] = NoUrl}
  <2> HIDE DEF none
  <2>7. PICK gone \in SUBSET none : \E failed \in SUBSET (none \ gone), waiting \in SUBSET (none \ gone),
                stop \in {"none", "blocked", "seed_failed", "unavailable", "max_requests"} :
               LET r == [read |-> read, gone |-> gone, failed |-> failed, waiting |-> waiting,
                         stop |-> stop] IN
               /\ IsCrawlOf(previous[p], r)
               /\ stage' = [stage EXCEPT ![p] = IF r.stop = "seed_failed" THEN "idle" ELSE "crawled"]
               /\ result' = [result EXCEPT ![p] = IF r.stop = "seed_failed" THEN NoResult ELSE r]
    BY <2>1 DEF none
  <2>2. PICK failed \in SUBSET (none \ gone), waiting \in SUBSET (none \ gone),
             stop \in {"none", "blocked", "seed_failed", "unavailable", "max_requests"} :
               LET r == [read |-> read, gone |-> gone, failed |-> failed, waiting |-> waiting,
                         stop |-> stop] IN
               /\ IsCrawlOf(previous[p], r)
               /\ stage' = [stage EXCEPT ![p] = IF r.stop = "seed_failed" THEN "idle" ELSE "crawled"]
               /\ result' = [result EXCEPT ![p] = IF r.stop = "seed_failed" THEN NoResult ELSE r]
    BY <2>7, Zenon
  <2> DEFINE r == [read |-> read, gone |-> gone, failed |-> failed, waiting |-> waiting, stop |-> stop]
  <2>3. /\ r.read \in [URL -> URL \cup {NoUrl}] /\ r.gone \subseteq URL /\ r.stop = stop
        /\ IsCrawlOf(previous[p], r)
        /\ stage' = [stage EXCEPT ![p] = IF stop = "seed_failed" THEN "idle" ELSE "crawled"]
        /\ result' = [result EXCEPT ![p] = IF stop = "seed_failed" THEN NoResult ELSE r]
    BY <2>2 DEF Reads, none
  <2> HIDE DEF r
  <2>4. CASE stop = "seed_failed"
    BY <2>3, <2>4
  <2>5. CASE stop # "seed_failed"
    BY <2>2, <2>3, <2>5
  <2>6. QED BY <2>4, <2>5
<1>2. PICK r :
        /\ stage' = [stage EXCEPT ![p] = to] /\ result' = [result EXCEPT ![p] = r]
        /\ to = "crawled" =>
             /\ IsCrawlOf(previous[p], r) /\ r.read \in [URL -> URL \cup {NoUrl}] /\ r.gone \subseteq URL
             /\ r.stop \in {"none", "blocked", "unavailable", "max_requests"}
  BY <1>1a
<1>3. ASSUME NEW q \in Refresher, q # p PROVE stage'[q] = stage[q] /\ result'[q] = result[q]
  BY <1>2, <1>3 DEF RefreshInv
<1>4. stage'[p] = to /\ result'[p] = r
  BY <1>2 DEF RefreshInv
<1>5. /\ stage' \in [Refresher -> {"idle", "loaded", "crawled"}]
      /\ result' = [q \in Refresher |-> result'[q]] /\ previous' = [q \in Refresher |-> previous'[q]]
  BY <1>1, <1>2 DEF RefreshInv
<1>6. ASSUME NEW q \in Refresher
      PROVE  /\ stage'[q] # "idle" => previous'[q] = disk'
             /\ stage'[q] = "crawled" =>
                  /\ IsCrawlOf(previous'[q], result'[q]) /\ result'[q].read \in [URL -> URL \cup {NoUrl}]
                  /\ result'[q].gone \subseteq URL
                  /\ result'[q].stop \in {"none", "blocked", "unavailable", "max_requests"}
  <2>1. CASE q = p
    BY <1>1, <1>2, <1>4, <2>1 DEF RefreshInv
  <2>2. CASE q # p
    BY <1>1, <1>3, <2>2 DEF RefreshInv
  <2>3. QED BY <2>1, <2>2
<1>7. day' \in Nat /\ RowsDated'
  BY <1>1 DEF RefreshInv, RowsDated
<1>8. QED BY <1>5, <1>6, <1>7 DEF RefreshInv

(* Of a refresh that runs alone.                                            *)
LEMMA RefreshStepHolds ==
  ASSUME NEW one, Refresher = {one}, RefreshInv, [IndexNext]_indexing
  PROVE  RefreshInv'
<1>1. CASE UNCHANGED indexing
  BY <1>1 DEF indexing, RefreshInv, RowsDated
<1>2. CASE Midnight
  <2>1. day' = day + 1 /\ UNCHANGED <<disk, stage, previous, result>>
    BY <1>2 DEF Midnight
  <2>2. day' \in Nat /\ RowsDated'
    BY <2>1 DEF RefreshInv, RowsDated
  <2>3. QED BY <2>1, <2>2 DEF RefreshInv
<1>3. CASE Load(one)
  <2>1. /\ UNCHANGED <<day, disk, result>> /\ stage' = [stage EXCEPT ![one] = "loaded"]
        /\ previous' = [previous EXCEPT ![one] = disk]
    BY <1>3 DEF Load
  <2>2. stage'[one] = "loaded" /\ previous'[one] = disk
    BY <2>1 DEF RefreshInv
  <2>3. RowsDated'
    BY <2>1 DEF RefreshInv, RowsDated
  <2>4. QED BY <2>1, <2>2, <2>3 DEF RefreshInv
<1>4. CASE Crawl(one)
  BY <1>4, CrawlHolds
<1>5. CASE Save(one)
  <2>1. /\ UNCHANGED <<day, previous>> /\ stage[one] = "crawled"
        /\ stage' = [stage EXCEPT ![one] = "idle"] /\ result' = [result EXCEPT ![one] = NoResult]
        /\ disk' = disk \/ disk' = Merge(previous[one], result[one])
    BY <1>5 DEF Save
  <2>2. stage'[one] = "idle"
    BY <2>1 DEF RefreshInv
  <2>3. RowsDated'
    <3>1. CASE disk' = disk
      BY <2>1, <3>1 DEF RefreshInv, RowsDated
    <3>2. CASE disk' = Merge(previous[one], result[one])
      BY <2>1, <3>2, MergeRows DEF RowsDated
    <3>3. QED BY <2>1, <3>1, <3>2
  <2>4. QED BY <2>1, <2>2, <2>3 DEF RefreshInv
<1>6. CASE Die(one)
  <2>1. /\ UNCHANGED <<day, disk, previous>>
        /\ stage' = [stage EXCEPT ![one] = "idle"] /\ result' = [result EXCEPT ![one] = NoResult]
    BY <1>6 DEF Die
  <2>2. stage'[one] = "idle"
    BY <2>1 DEF RefreshInv
  <2>3. RowsDated'
    BY <2>1 DEF RefreshInv, RowsDated
  <2>4. QED BY <2>1, <2>2, <2>3 DEF RefreshInv
<1>7. QED BY <1>1, <1>2, <1>3, <1>4, <1>5, <1>6 DEF IndexNext

(* What one step of a lone refresh does to the index: nothing, or the merge *)
(* of what it crawled.                                                      *)
LEMMA DiskSteps ==
  ASSUME NEW one, Refresher = {one}, RefreshInv, [IndexNext]_indexing
  PROVE  /\ \/ disk' = disk
            \/ stage[one] = "crawled" /\ disk' = Merge(previous[one], result[one]) /\ ReadAnything(result[one])
         /\ ~ReadAnything(result[one]) => disk' = disk
         /\ stage[one] = "crawled" => IsCrawlOf(disk, result[one]) /\ previous[one] = disk
BY DEF IndexNext, Midnight, Load, Crawl, Save, Die, indexing, RefreshInv

THEOREM RefreshInvariant == ASSUME NEW one, Refresher = {one} PROVE IndexSpec => []RefreshInv
BY RefreshInitHolds, RefreshStepHolds, PTL DEF IndexSpec

(* A refresh that runs alone loses no page: a row goes only by a 404, and   *)
(* what waited is fetched or waits on (provider.py: index_refresh,          *)
(* site_index.py: merge_crawl).  Two at once do lose rows.                  *)
THEOREM NoPageIsLost == ASSUME NEW one, Refresher = {one} PROVE IndexSpec => NoPageLost
<1>1. ASSUME RefreshInv, [IndexNext]_indexing PROVE RowsStay
  <2>1. CASE disk' = disk
    BY <2>1 DEF RowsStay, Present
  <2>2. CASE stage[one] = "crawled" /\ disk' = Merge(previous[one], result[one])
    BY <1>1, <2>2, MergeRows DEF RowsStay
  <2>3. QED BY <1>1, <2>1, <2>2, DiskSteps
<1>2. ASSUME RefreshInv, [IndexNext]_indexing, NEW p \in Refresher, Saves(p)
      PROVE  /\ disk.frontier \subseteq disk'.frontier \cup FetchedIn(result[p])
             /\ result[p].waiting \subseteq disk'.frontier \cup {Menu}
  <2>1. p = one /\ stage[p] = "crawled"
    BY <1>2 DEF Saves
  <2>2. /\ IsCrawlOf(disk, result[p]) /\ result[p].read \in [URL -> URL \cup {NoUrl}]
        /\ result[p].stop # "seed_failed"
    BY <1>2, <2>1, DiskSteps DEF RefreshInv
  <2>3. /\ {Menu} \cup disk.frontier \subseteq FetchedIn(result[p]) \cup result[p].waiting
        /\ ReadSet(result[p]) = {} => FetchedIn(result[p]) = {} /\ result[p].waiting = {Menu} \cup disk.frontier
    BY <2>2, CrawlFacts
  <2>4. CASE ReadAnything(result[p])
    <3>1. disk'.frontier = result[p].waiting
      BY <1>2, <2>1, <2>4, MergeRows DEF Saves
    <3>2. QED BY <2>3, <3>1
  <2>5. CASE ~ReadAnything(result[p])
    <3>1. disk' = disk /\ ReadSet(result[p]) = {}
      BY <1>2, <2>1, <2>5, DiskSteps DEF ReadAnything
    <3>2. QED BY <2>3, <3>1
  <2>6. QED BY <2>4, <2>5
<1>3. RefreshInv /\ [IndexNext]_indexing =>
        [/\ RowsStay
         /\ \A p \in Refresher : Saves(p) =>
              /\ disk.frontier \subseteq disk'.frontier \cup FetchedIn(result[p])
              /\ result[p].waiting \subseteq disk'.frontier \cup {Menu}]_indexing
  BY <1>1, <1>2
<1>4. QED BY <1>3, RefreshInvariant, PTL DEF IndexSpec, NoPageLost

(* And its dates stay honest: first_seen is kept, last_seen and the age of  *)
(* the index only move with pages that were read.                           *)
THEOREM AgesStayHonest == ASSUME NEW one, Refresher = {one} PROVE IndexSpec => AgesHold
<1>1. ASSUME RefreshInv, [IndexNext]_indexing, NEW u \in URL, Present(disk, u), Present(disk', u)
      PROVE  disk'.rows[u].first = disk.rows[u].first /\ disk'.rows[u].last >= disk.rows[u].last
  <2>1. CASE disk' = disk
    BY <1>1, <2>1 DEF RefreshInv, RowsDated
  <2>2. CASE stage[one] = "crawled" /\ disk' = Merge(previous[one], result[one])
    BY <1>1, <2>2, MergeRows
  <2>3. QED BY <1>1, <2>1, <2>2, DiskSteps
<1>2. ASSUME RefreshInv, [IndexNext]_indexing, disk'.refreshed # disk.refreshed
      PROVE  /\ disk'.refreshed = day
             /\ \E p \in Refresher : stage[p] = "crawled" /\ result[p].stop \in {"none", "max_requests"}
                                    /\ disk'.rows[Menu].last = day
  <2> DEFINE r == result[one]
  <2>1. stage[one] = "crawled" /\ disk' = Merge(previous[one], r) /\ ReadAnything(r)
    BY <1>2, DiskSteps
  <2>2. /\ IsCrawlOf(disk, r) /\ r.read \in [URL -> URL \cup {NoUrl}]
        /\ r.stop \in {"none", "blocked", "unavailable", "max_requests"}
    BY <1>2, <2>1, DiskSteps DEF RefreshInv
  <2>3. /\ disk'.refreshed = IF r.stop \in {"blocked", "unavailable"} THEN disk.refreshed ELSE day
        /\ disk'.rows[Menu] = MergedRow(disk, r, Menu)
    BY <1>2, <2>1, IndexAssumption, MergeRows
  <2>4. disk'.refreshed = day /\ r.stop \in {"none", "max_requests"}
    BY <1>2, <2>2, <2>3
  <2>5. /\ ReadSet(r) \cap r.gone = {} /\ (ReadSet(r) = {} => FetchedIn(r) = {})
        /\ (ReadSet(r) # {} => Menu \in ReadSet(r))
    BY <2>2, CrawlFacts
  <2>6. Menu \in ReadSet(r) /\ Menu \notin r.gone
    BY <2>1, <2>5 DEF ReadAnything, FetchedIn
  <2>7. disk'.rows[Menu].last = day
    <3> HIDE DEF r
    <3>1. CASE r.read[Menu] # Menu
      BY <2>3, <2>6, <3>1 DEF MergedRow, Upsert
    <3>2. CASE r.read[Menu] = Menu
      BY <2>3, <2>6, <3>2 DEF MergedRow, Upsert
    <3>3. QED BY <3>1, <3>2
  <2>8. QED BY <2>1, <2>4, <2>7
<1>3. ASSUME RefreshInv, [IndexNext]_indexing, NEW p \in Refresher, disk' # disk, Saves(p), result[p].stop = "none",
             NEW u \in URL, disk'.rows[u].status = "ok"
      PROVE  disk'.rows[u].last = day \/ u \in result[p].failed
  <2> DEFINE r == result[p]
  <2>1. p = one /\ stage[p] = "crawled" /\ disk' = Merge(previous[p], r)
    BY <1>3, DiskSteps DEF Saves
  <2>2. /\ IsCrawlOf(disk, r) /\ r.read \in [URL -> URL \cup {NoUrl}] /\ r.stop # "seed_failed"
    BY <1>3, <2>1, DiskSteps DEF RefreshInv
  <2>3. disk'.rows[u] = MergedRow(disk, r, u)
    BY <1>3, <2>1, MergeRows
  <2>4. /\ {Menu} \cup disk.frontier \subseteq FetchedIn(r) \cup r.waiting /\ r.waiting = {}
        /\ Held(disk) \ SeedsOf(disk) \subseteq FetchedIn(r) \cup {r.read[v] : v \in ReadSet(r)}
    BY <1>3, <2>2, CrawlFacts
  <2> HIDE DEF r
  <2>5. CASE u \in r.gone
    BY <1>3, <2>3, <2>5 DEF MergedRow, Absent
  <2>6. CASE u \notin r.gone /\ u \in ReadSet(r) /\ r.read[u] # u
    BY <1>3, <2>3, <2>6 DEF MergedRow, Upsert
  <2>7. CASE u \notin r.gone /\ ~(u \in ReadSet(r) /\ r.read[u] # u) /\ \E v \in ReadSet(r) : r.read[v] = u
    BY <2>3, <2>7 DEF MergedRow, Upsert
  <2>8. CASE u \notin r.gone /\ ~(u \in ReadSet(r) /\ r.read[u] # u) /\ ~\E v \in ReadSet(r) : r.read[v] = u
    <3>1. disk'.rows[u] = disk.rows[u]
      BY <2>3, <2>8 DEF MergedRow
    <3>2. u \in Held(disk) /\ u \notin ReadSet(r)
      BY <1>3, <2>8, <3>1 DEF Held
    <3>3. u \in FetchedIn(r)
      BY <2>4, <2>8, <3>2 DEF SeedsOf
    <3>4. QED BY <2>8, <3>2, <3>3 DEF FetchedIn, r
  <2>9. QED BY <2>5, <2>6, <2>7, <2>8
<1>4. RefreshInv /\ [IndexNext]_indexing =>
  [/\ \A u \in URL : Present(disk, u) /\ Present(disk', u) =>
          disk'.rows[u].first = disk.rows[u].first /\ disk'.rows[u].last >= disk.rows[u].last
   /\ disk'.refreshed # disk.refreshed =>
          /\ disk'.refreshed = day
          /\ \E p \in Refresher : stage[p] = "crawled" /\ result[p].stop \in {"none", "max_requests"}
                                 /\ disk'.rows[Menu].last = day
   /\ \A p \in Refresher : disk' # disk /\ Saves(p) /\ result[p].stop = "none" =>
          \A u \in URL : disk'.rows[u].status = "ok" => disk'.rows[u].last = day \/ u \in result[p].failed]_indexing
  BY <1>1, <1>2, <1>3
<1>5. QED BY <1>4, RefreshInvariant, PTL DEF IndexSpec, AgesHold

-----------------------------------------------------------------------------
(* GuideBundles.                                                           *)

Manifest == [export : Nat, exported : Int, hydrates : BOOLEAN, hydrated : Int, items : Nat]
Item == [entity : 1..Entities, stored : Int]
Summaries == {S \in SUBSET Item : IsFiniteSet(S)}
Bundle == [lists : [1..Lists -> Nat], manifest : Manifest, items : Summaries,
           file : [1..Entities -> Int], torn : SUBSET Int, contested : BOOLEAN]
BundleRow == [dir : Dir, manifest : Manifest]
Names == {"-", "export", "refresh", "rebuild", "query"}
Steps == {"idle", "fetch", "lists", "known", "entities", "items", "manifest", "scan", "index", "read", "done"}
Command == [name : Names, at : Steps, dir : Dir \cup {"-"}, alone : BOOLEAN,
            hydrates : BOOLEAN, reuses : BOOLEAN, export : Nat, next : Nat \ {0}, known : Summaries,
            items : Summaries, hydrated : Int, rows : SUBSET BundleRow, seen : Manifest, got : Seq(Nat),
            contested : BOOLEAN]

(* What a command has when it is where it is. *)
Writes == {"lists", "known", "entities", "items", "manifest"}
Exports(c) == c.name \in {"export", "refresh"}

Staged(c) ==
  /\ c.at \in {"fetch"} \cup Writes => Exports(c) /\ c.dir \in Dir
  /\ c.at \in Writes => c.export > 0
  /\ c.at \in {"known", "entities", "items"} => c.dir \in Guide
  /\ c.at \in {"scan", "index"} => c.name = "rebuild" \/ (c.export > 0 /\ c.dir \in Guide)
  /\ c.export > 0 => Exports(c) /\ c.dir \in Dir
  /\ c.at = "lists" => c.next \in 1..Lists
  /\ c.at = "fetch" => c.next = 1
  /\ c.at = "read" =>
       c.name = "query" /\ c.dir \in Dir /\ c.next \in 1..Lists /\ Len(c.got) = c.next - 1
  /\ c.name = "query" /\ c.at = "done" => c.dir \in Dir /\ Len(c.got) = Lists

BundlesTyped ==
  /\ clock \in Nat
  /\ cached \in [1..Entities -> Int]
  /\ losses \in Seq(BOOLEAN)
  /\ bundle \in [Dir -> Bundle]
  /\ index \in [state : {"none", "foreign", "ours"}, rows : SUBSET BundleRow]
  /\ command \in [Process -> Command]
  /\ \A p \in Process : Staged(command[p])

(* A reused entity is no older than its summary says, by more than the life *)
(* of a cache entry.                                                        *)
Fetched(d, x) == x.stored <= clock /\ bundle[d].file[x.entity] >= x.stored - EntityTTL
Recent(x) == clock <= x.stored + MaxAge

BundleFresh(d) ==
  \A x \in bundle[d].items :
    Fetched(d, x) /\ bundle[d].manifest.exported <= x.stored + MaxAge
CommandFresh(c) ==
  c.at \notin {"idle", "done"} /\ c.dir \in Guide =>
    /\ \A x \in c.items : Fetched(c.dir, x) /\ Recent(x)
    /\ \A x \in c.known : Fetched(c.dir, x)
    /\ c.at = "manifest" => \A x \in bundle[c.dir].items : Recent(x)

EntitiesAge ==
  /\ \A d \in Guide : bundle[d].manifest.exported <= clock /\ BundleFresh(d)
  /\ \A p \in Process : CommandFresh(command[p])

(* Exports count up. *)
Counted ==
  /\ \A d \in Dir : /\ bundle[d].manifest.export <= Len(losses)
                    /\ \A i \in 1..Lists : bundle[d].lists[i] <= Len(losses)
  /\ \A p \in Process : command[p].export <= Len(losses)

(* Where exports do not contest a bundle, its manifest is the oldest file.  *)
Ordered(d) ==
  ~bundle[d].contested =>
    /\ \A i \in 1..Lists : bundle[d].lists[i] >= bundle[d].manifest.export
    /\ \A p, q \in Process : Exporting(p) /\ Exporting(q) /\ On(p) = d /\ On(q) = d => p = q

Written(c) == {i \in 1..Lists : c.at = "lists" => i < c.next}
Vouches(c) ==
  c.dir \in Guide /\ ~bundle[c.dir].contested =>
    /\ c.at \notin {"idle", "done"} /\ c.export > 0 =>
         /\ bundle[c.dir].manifest.export <= c.export
         /\ \A i \in 1..Lists : bundle[c.dir].lists[i] <= c.export
         /\ \A i \in Written(c) : bundle[c.dir].lists[i] = c.export
    /\ c.at = "read" =>
         /\ \A i \in 1..Lists : bundle[c.dir].lists[i] >= c.seen.export
         /\ \A i \in 1..Len(c.got) : c.got[i] >= c.seen.export
AnswersRight(c) ==
  c.name = "query" /\ c.at = "done" /\ c.dir \in Guide /\ ~c.contested =>
    \A i \in 1..Lists : c.got[i] >= c.seen.export

WritesInOrder ==
  /\ Counted
  /\ \A d \in Guide : Ordered(d)
  /\ \A p \in Process : Vouches(command[p]) /\ AnswersRight(command[p])

(* What a command that has been alone so far has done. *)
Settled(c) ==
  /\ c.export > 0 /\ c.dir \in Guide =>
       /\ \A i \in Written(c) : bundle[c.dir].lists[i] = c.export /\ i \notin bundle[c.dir].torn
       /\ c.at = "manifest" => bundle[c.dir].items = c.items /\ ItemsFile \notin bundle[c.dir].torn
       /\ c.at \in {"scan", "index", "done"} =>
            /\ bundle[c.dir].manifest.export = c.export
            /\ ManifestFile \notin bundle[c.dir].torn /\ ItemsFile \notin bundle[c.dir].torn
            /\ bundle[c.dir].manifest.items = Cardinality(bundle[c.dir].items)
  /\ c.at = "index" => c.rows = Scan
  /\ c.at = "done" /\ (c.name = "rebuild" \/ (c.export > 0 /\ c.dir \in Guide)) =>
       \/ index.state = "foreign" /\ c.name # "rebuild"
       \/ index.state = "ours" /\ index.rows = Scan

LoneCommands ==
  \A p \in Process : command[p].alone =>
    (\A o \in Process \ {p} : ~Working(o)) /\ Settled(command[p])

BundlesInv == BundlesTyped /\ EntitiesAge /\ WritesInOrder /\ LoneCommands

(* What there is before anything happened. *)
LEMMA NoneTyped ==
  /\ NoManifest \in Manifest /\ NoBundle \in Bundle /\ {} \in Summaries
  /\ Idle \in Command /\ Staged(Idle)
<1> USE BundlesAssumption
<1>1. NoManifest \in Manifest
  BY DEF NoManifest, Manifest, Never
<1>2. {} \in Summaries
  BY FS_EmptySet DEF Summaries
<1>3. NoBundle \in Bundle
  BY <1>1, <1>2 DEF NoBundle, Bundle, Never
<1>4. Idle \in Command
  <2>1. <<>> \in Seq(Nat) /\ Never \in Int
    BY DEF Never
  <2>2. QED BY <1>1, <1>2, <2>1 DEF Idle, Command, Names, Steps
<1>5. Staged(Idle)
  BY DEF Idle, Staged, Writes
<1>6. QED BY <1>1, <1>2, <1>3, <1>4, <1>5

(* A scan of the root finds rows. *)
LEMMA ScanTyped == BundlesTyped => Scan \subseteq BundleRow
BY DEF BundlesTyped, Scan, BundleRow, Bundle, Dir

(* A step of one process, and a write to one directory. *)
LEMMA Went ==
  ASSUME BundlesTyped, NEW p \in Process, NEW c, Goes(p, c)
  PROVE  /\ command'[p] = c
         /\ \A o \in Process \ {p} : command'[o] = command[o]
         /\ c \in Command /\ Staged(c) =>
              command' \in [Process -> Command] /\ \A o \in Process : Staged(command'[o])
BY DEF BundlesTyped, Goes

LEMMA Kept ==
  ASSUME BundlesTyped, NEW d \in Dir, NEW b, Put(d, b)
  PROVE  /\ bundle'[d] = b
         /\ \A x \in Dir \ {d} : bundle'[x] = bundle[x]
         /\ b \in Bundle => bundle' \in [Dir -> Bundle]
BY DEF BundlesTyped, Put

(* A command begins; nobody else is alone any more. *)
LEMMA Began ==
  ASSUME BundlesTyped, NEW p \in Process, NEW c \in Command, Staged(c), BeginCommand(p, c)
  PROVE  /\ command' \in [Process -> Command] /\ \A o \in Process : Staged(command'[o])
         /\ command'[p] = [c EXCEPT !.alone = \A o \in Process \ {p} : ~Working(o)]
         /\ \A o \in Process \ {p} : command'[o] = [command[o] EXCEPT !.alone = FALSE]
<1>1. /\ command'[p] = [c EXCEPT !.alone = \A o \in Process \ {p} : ~Working(o)]
      /\ \A o \in Process \ {p} : command'[o] = [command[o] EXCEPT !.alone = FALSE]
  BY DEF BeginCommand
<1>2. \A k \in Command, x \in BOOLEAN : [k EXCEPT !.alone = x] \in Command
  BY DEF Command
<1>3. \A k \in Command, x \in BOOLEAN : Staged(k) => Staged([k EXCEPT !.alone = x])
  BY DEF Command, Staged, Exports
<1>4. \A o \in Process : command'[o] \in Command /\ Staged(command'[o])
  <2> DEFINE lone == \A o \in Process \ {p} : ~Working(o)
  <2>1. lone \in BOOLEAN
    OBVIOUS
  <2>2. command'[p] = [c EXCEPT !.alone = lone]
    BY <1>1
  <2> HIDE DEF lone
  <2>3. command'[p] \in Command /\ Staged(command'[p])
    BY <1>2, <1>3, <2>1, <2>2
  <2>4. \A o \in Process \ {p} : command'[o] \in Command /\ Staged(command'[o])
    <3> TAKE o \in Process \ {p}
    <3>1. command[o] \in Command /\ Staged(command[o]) /\ FALSE \in BOOLEAN
      BY DEF BundlesTyped
    <3>2. [command[o] EXCEPT !.alone = FALSE] \in Command /\ Staged([command[o] EXCEPT !.alone = FALSE])
      BY <3>1, <1>2, <1>3
    <3>3. QED BY <3>2, <1>1
  <2>5. QED BY <2>3, <2>4
<1>5. command' = [o \in Process |-> command'[o]]
  BY DEF BeginCommand
<1>6. QED BY <1>1, <1>4, <1>5

-----------------------------------------------------------------------------
(* A step of one process after which the files are as before.               *)

LEMMA Proceeds ==
  ASSUME BundlesInv, NEW p \in Process, Working(p), NEW c \in Command, Staged(c), Goes(p, c),
         UNCHANGED <<clock, cached, bundle>>,
         losses' \in Seq(BOOLEAN), Len(losses') >= Len(losses), c.export <= Len(losses'),
         index' \in [state : {"none", "foreign", "ours"}, rows : SUBSET BundleRow],
         CommandFresh(c), Vouches(c), AnswersRight(c),
         c.at \notin {"idle", "done"} /\ Exports(c) => Exporting(p) /\ c.dir = On(p),
         c.alone => command[p].alone /\ Settled(command[p])'
  PROVE  BundlesInv'
<1>1. /\ command'[p] = c
      /\ \A o \in Process \ {p} : command'[o] = command[o]
      /\ command' \in [Process -> Command] /\ \A o \in Process : Staged(command'[o])
  BY Went DEF BundlesInv
<1>2. BundlesTyped'
  BY <1>1 DEF BundlesInv, BundlesTyped, Staged
<1>3. EntitiesAge'
  <2>1. \A o \in Process : CommandFresh(command'[o])
    BY <1>1 DEF BundlesInv, EntitiesAge
  <2>2. QED BY <2>1 DEF BundlesInv, EntitiesAge, CommandFresh, BundleFresh, Fetched, Recent
<1>4. WritesInOrder'
  <2>1. Counted'
    <3>1. \A o \in Process : command[o].export \in Nat /\ command[o].export <= Len(losses) /\ c.export \in Nat
      BY DEF BundlesInv, BundlesTyped, Command, WritesInOrder, Counted
    <3>2. \A d \in Dir : bundle[d].manifest.export \in Nat /\ \A i \in 1..Lists : bundle[d].lists[i] \in Nat
      BY DEF BundlesInv, BundlesTyped, Bundle, Manifest
    <3>3. Len(losses) \in Nat /\ Len(losses') \in Nat
      BY DEF BundlesInv, BundlesTyped
    <3>4. QED BY <1>1, <3>1, <3>2, <3>3 DEF BundlesInv, WritesInOrder, Counted
  <2>2. \A o \in Process : Exporting(o)' => Exporting(o) /\ On(o)' = On(o)
    BY <1>1 DEF Exporting, Working, Exports, On
  <2>3. ASSUME NEW d \in Guide PROVE Ordered(d)'
    BY <2>2 DEF BundlesInv, WritesInOrder, Ordered
  <2>4. \A o \in Process : Vouches(command'[o]) /\ AnswersRight(command'[o])
    BY <1>1 DEF BundlesInv, WritesInOrder
  <2>5. \A o \in Process : Vouches(command[o])' /\ AnswersRight(command[o])'
    BY <2>4 DEF Vouches, AnswersRight, Written
  <2>6. QED BY <2>1, <2>3, <2>5 DEF WritesInOrder
<1>5. LoneCommands'
  <2>1. \A o \in Process \ {p} : ~command[o].alone
    BY DEF BundlesInv, LoneCommands
  <2>2. c.alone => \A o \in Process \ {p} : ~Working(o)'
    BY <1>1 DEF BundlesInv, LoneCommands, Working
  <2>3. QED BY <1>1, <2>1, <2>2 DEF LoneCommands
<1>6. QED BY <1>2, <1>3, <1>4, <1>5 DEF BundlesInv

(* ... most often because the command ends. *)
LEMMA Ends ==
  ASSUME BundlesInv, NEW p \in Process, Working(p), Goes(p, Idle),
         UNCHANGED <<clock, cached, losses, bundle>>,
         index' \in [state : {"none", "foreign", "ours"}, rows : SUBSET BundleRow]
  PROVE  BundlesInv'
<1>1. Idle.at = "idle" /\ Idle.export = 0 /\ ~Idle.alone /\ Idle.name = "-"
  BY DEF Idle
<1>2. CommandFresh(Idle) /\ Vouches(Idle) /\ AnswersRight(Idle)
  BY <1>1 DEF CommandFresh, Vouches, AnswersRight
<1>3. losses \in Seq(BOOLEAN) /\ Len(losses) \in Nat
  BY DEF BundlesInv, BundlesTyped
<1>4. Idle \in Command /\ Staged(Idle)
  BY NoneTyped
<1>5. QED BY <1>1, <1>2, <1>3, <1>4, Proceeds

(* What there is to know of a command that is at work. *)
LEMMA Known ==
  ASSUME BundlesInv, NEW p \in Process
  PROVE  /\ command[p] \in Command /\ Staged(command[p])
         /\ CommandFresh(command[p]) /\ Vouches(command[p]) /\ AnswersRight(command[p])
         /\ command[p].alone => Settled(command[p])
         /\ command[p].export <= Len(losses) /\ command[p].export \in Nat
         /\ losses \in Seq(BOOLEAN) /\ Len(losses) \in Nat
         /\ index \in [state : {"none", "foreign", "ours"}, rows : SUBSET BundleRow]
BY DEF BundlesInv, BundlesTyped, EntitiesAge, WritesInOrder, Counted, LoneCommands, Command

(* The summary of one more entity leaves a command a command. *)
LEMMA SummaryTyped ==
  ASSUME NEW c \in Command, c.next \in 1..Entities, NEW stored \in Int
  PROVE  Summary(c, stored) \in Command
<1>1. [entity |-> c.next, stored |-> stored] \in Item
  BY DEF Item
<1>2. c.items \in SUBSET Item /\ IsFiniteSet(c.items)
  BY DEF Command, Summaries
<1>3. c.items \cup {[entity |-> c.next, stored |-> stored]} \in Summaries
  BY <1>1, <1>2, FS_AddElement DEF Summaries
<1>4. c.next + 1 \in Nat \ {0}
  BY DEF Command
<1> DEFINE more == c.items \cup {[entity |-> c.next, stored |-> stored]}
           next == c.next + 1
<1>5. Summary(c, stored) = [c EXCEPT !.next = next, !.items = more]
  BY DEF Summary
<1>6. more \in Summaries /\ next \in Nat \ {0}
  BY <1>3, <1>4
<1> HIDE DEF more, next
<1>7. QED BY <1>5, <1>6 DEF Command

(* An export counts one more than all before it. *)
LEMMA FetchGuideStep ==
  ASSUME BundlesInv, NEW p \in Process, NEW lost \in BOOLEAN, FetchGuide(p, lost)
  PROVE  BundlesInv'
<1> DEFINE c == [command[p] EXCEPT !.export = Len(losses'),
                   !.at = IF ManifestLast(On(p)) THEN "lists" ELSE "manifest"]
<1>1. losses' \in Seq(BOOLEAN) /\ Len(losses') = Len(losses) + 1
  BY Known DEF FetchGuide
<1>0. command[p] \in Command
  BY Known
<1>2. c \in Command
  <2> DEFINE n == Len(losses')
             at == IF ManifestLast(On(p)) THEN "lists" ELSE "manifest"
  <2>1. n \in Nat /\ at \in Steps
    BY <1>1 DEF Steps
  <2>2. c = [command[p] EXCEPT !.export = n, !.at = at]
    OBVIOUS
  <2> HIDE DEF c, n, at
  <2>3. QED BY <1>0, <2>1, <2>2 DEF Command
<1>3. /\ c.export = Len(losses) + 1 /\ c.next = 1 /\ c.dir = command[p].dir /\ c.name = command[p].name
      /\ c.items = command[p].items /\ c.known = command[p].known /\ c.alone = command[p].alone
      /\ c.at = IF c.dir \in Guide THEN "lists" ELSE "manifest"
  BY <1>1, Known DEF Command, ManifestLast, On, FetchGuide, At, Staged
<1>4. Goes(p, c) /\ command[p].at = "fetch" /\ UNCHANGED <<clock, cached, bundle, index>>
  BY DEF FetchGuide, At
<1> HIDE DEF c
<1>5. Working(p)
  BY <1>4 DEF Working
<1>6. Exports(command[p]) /\ command[p].dir \in Dir
  BY <1>4, Known DEF Staged
<1>7. Staged(c)
  BY <1>1, <1>3, <1>6, Known, BundlesAssumption DEF Staged, Exports, Writes
<1>8. CommandFresh(c)
  BY <1>3, <1>4, Known DEF CommandFresh
<1>9. Vouches(c)
  <2>1. Written(c) = {} \/ c.dir \notin Guide
    BY <1>3 DEF Written
  <2>2. bundle[c.dir].manifest.export \in Nat /\ \A i \in 1..Lists : bundle[c.dir].lists[i] \in Nat
    BY <1>3, <1>6 DEF BundlesInv, BundlesTyped, Bundle, Manifest
  <2>3. bundle[c.dir].manifest.export <= Len(losses) /\ \A i \in 1..Lists : bundle[c.dir].lists[i] <= Len(losses)
    BY <1>3, <1>6 DEF BundlesInv, WritesInOrder, Counted
  <2>4. c.at # "read"
    BY <1>3
  <2>5. Len(losses) \in Nat
    BY Known
  <2>6. QED BY <1>3, <2>1, <2>2, <2>3, <2>4, <2>5 DEF Vouches
<1>10. AnswersRight(c)
  BY <1>3 DEF AnswersRight
<1>11. Settled(command[p])'
  <2>1. command'[p] = c
    BY <1>4, Went DEF BundlesInv
  <2>2. (Written(command[p]) = {} \/ command[p].dir \notin Guide)'
    BY <1>3, <2>1 DEF Written
  <2>3. (command[p].at \in {"lists", "manifest"} /\ (command[p].dir \in Guide => command[p].at = "lists"))'
    BY <1>3, <2>1
  <2>4. QED BY <2>2, <2>3 DEF Settled
<1>12. Exporting(p)
  BY <1>5, <1>6 DEF Exporting, Exports
<1>13. /\ Len(losses') >= Len(losses) /\ c.export <= Len(losses') /\ c.dir = On(p)
       /\ index' \in [state : {"none", "foreign", "ours"}, rows : SUBSET BundleRow]
       /\ c.alone => command[p].alone
  BY <1>1, <1>3, <1>4, Known DEF On
<1>14. QED BY <1>1, <1>2, <1>4, <1>5, <1>7, <1>8, <1>9, <1>10, <1>11, <1>12, <1>13, Proceeds

(* What is known of the entities is what the bundle has. *)
LEMMA LoadKnownStep ==
  ASSUME BundlesInv, NEW p \in Process, LoadKnown(p)
  PROVE  BundlesInv'
<1>1. command[p].at = "known" /\ Working(p) /\ UNCHANGED <<clock, cached, losses, bundle, index>>
  BY DEF LoadKnown, At, Working
<1>2. CASE Goes(p, Idle)
  BY <1>1, <1>2, Ends, Known
<1>3. CASE ~Goes(p, Idle)
  <2> DEFINE c == [command[p] EXCEPT !.known = bundle[On(p)].items, !.at = "entities"]
  <2>1. Goes(p, c)
    BY <1>3 DEF LoadKnown
  <2>2. command[p].dir \in Guide /\ Exports(command[p]) /\ command[p].export > 0
    BY <1>1, Known DEF Staged, Writes
  <2>3. bundle[command[p].dir].items \in Summaries
    BY <2>2 DEF BundlesInv, BundlesTyped, Bundle, Dir
  <2>0. command[p] \in Command /\ Staged(command[p]) /\ (command[p].alone => Settled(command[p]))
    BY Known
  <2>4. c \in Command
    BY <2>0, <2>3 DEF Command, Steps, On
  <2>5. /\ c.at = "entities" /\ c.known = bundle[c.dir].items
        /\ c.name = command[p].name /\ c.dir = command[p].dir /\ c.alone = command[p].alone
        /\ c.export = command[p].export /\ c.next = command[p].next /\ c.items = command[p].items
    BY Known DEF Command, On
  <2> HIDE DEF c
  <2>6. Staged(c)
    BY <2>2, <2>5, Known DEF Staged, Exports, Writes, Dir
  <2>7. CommandFresh(c)
    BY <1>1, <2>2, <2>5, Known DEF CommandFresh, BundlesInv, EntitiesAge, BundleFresh
  <2>8. Vouches(c) /\ AnswersRight(c)
    BY <1>1, <2>2, <2>5, Known DEF Vouches, AnswersRight, Written
  <2>9. c.alone => Settled(command[p])'
    <3>1. command'[p] = c
      BY <2>1, Went DEF BundlesInv
    <3>2. QED BY <2>0, <1>1, <2>2, <2>5, <3>1 DEF Settled, Written
  <2>10. Exporting(p) /\ c.dir = On(p)
    BY <1>1, <2>2, <2>5 DEF Exporting, Exports, On
  <2>11. c.export <= Len(losses') /\ Len(losses') >= Len(losses) /\ losses' \in Seq(BOOLEAN)
    BY <1>1, <2>5, Known
  <2>12. c.alone => command[p].alone
    BY <2>5
  <2>13. index' \in [state : {"none", "foreign", "ours"}, rows : SUBSET BundleRow]
    BY <1>1, Known
  <2>14. QED BY <1>1, <2>1, <2>4, <2>6, <2>7, <2>8, <2>9, <2>10, <2>11, <2>12, <2>13, Proceeds
<1>4. QED BY <1>2, <1>3

(* Another entity's summary. *)
LEMMA SummaryFields ==
  ASSUME NEW c \in Command, NEW stored
  PROVE  LET k == Summary(c, stored)
         IN /\ k.next = c.next + 1 /\ k.items = c.items \cup {[entity |-> c.next, stored |-> stored]}
            /\ k.name = c.name /\ k.at = c.at /\ k.dir = c.dir /\ k.alone = c.alone
            /\ k.export = c.export /\ k.known = c.known /\ k.got = c.got /\ k.seen = c.seen
BY DEF Summary, Command

(* An entity is kept that is recent enough. *)
LEMMA KeepEntityStep ==
  ASSUME BundlesInv, NEW p \in Process, KeepEntity(p)
  PROVE  BundlesInv'
<1>0. command[p] \in Command /\ Staged(command[p]) /\ (command[p].alone => Settled(command[p]))
  BY Known
<1>1. /\ command[p].at = "entities" /\ command[p].next <= Entities
      /\ Working(p) /\ UNCHANGED <<clock, cached, losses, bundle, index>>
  BY DEF KeepEntity, At, Working
<1>2. CASE Goes(p, Idle)
  BY <1>1, <1>2, Ends, Known
<1>3. CASE ~Goes(p, Idle)
  <2>1. PICK item \in Reusable(command[p]) : Goes(p, Summary(command[p], item.stored))
    BY <1>3 DEF KeepEntity, Stored
  <2> DEFINE c == Summary(command[p], item.stored)
  <2>2. command[p].dir \in Guide /\ Exports(command[p]) /\ command[p].export > 0
    BY <1>0, <1>1 DEF Staged, Writes
  <2>3. item \in command[p].known /\ item.entity = command[p].next /\ clock - item.stored <= MaxAge
    BY DEF Reusable
  <2>4. item \in Item
    BY <1>0, <2>3 DEF Command, Summaries
  <2>5. item.stored \in Int /\ command[p].next \in 1..Entities
    BY <2>3, <2>4 DEF Item
  <2>6. c \in Command
    BY <1>0, <2>5, SummaryTyped
  <2>7. /\ c.next = command[p].next + 1
        /\ c.items = command[p].items \cup {[entity |-> command[p].next, stored |-> item.stored]}
        /\ c.name = command[p].name /\ c.at = command[p].at /\ c.dir = command[p].dir
        /\ c.alone = command[p].alone /\ c.export = command[p].export /\ c.known = command[p].known
    BY <1>0, SummaryFields
  <2> HIDE DEF c
  <2>8. Staged(c)
    BY <1>0, <1>1, <2>2, <2>7 DEF Staged, Exports, Writes
  <2>9. CommandFresh(c)
    <3>1. CommandFresh(command[p])
      BY Known
    <3>2. Fetched(c.dir, item)
      BY <1>1, <2>2, <2>3, <2>7, <3>1 DEF CommandFresh
    <3>3. Recent(item)
      BY <2>3, <2>5, BundlesAssumption DEF Recent, BundlesInv, BundlesTyped
    <3> DEFINE new == [entity |-> command[p].next, stored |-> item.stored]
    <3>4. Fetched(c.dir, new) /\ Recent(new)
      BY <2>3, <3>2, <3>3 DEF Fetched, Recent
    <3> HIDE DEF new
    <3>5. c.items = command[p].items \cup {new}
      BY <2>7 DEF new
    <3>6. QED BY <1>1, <2>2, <2>7, <3>1, <3>4, <3>5 DEF CommandFresh
  <2>10. Vouches(c) /\ AnswersRight(c)
    <3>1. Vouches(command[p])
      BY Known
    <3>2. QED BY <1>1, <2>2, <2>7, <3>1 DEF Vouches, AnswersRight, Written
  <2>11. c.alone => Settled(command[p])'
    <3>1. command'[p] = c
      BY <2>1, Went DEF BundlesInv, c
    <3>2. QED BY <1>0, <1>1, <2>2, <2>7, <3>1 DEF Settled, Written
  <2>12. Exporting(p) /\ c.dir = On(p)
    BY <1>1, <2>2, <2>7 DEF Exporting, Exports, On
  <2>13. /\ c.export <= Len(losses') /\ Len(losses') >= Len(losses) /\ losses' \in Seq(BOOLEAN)
         /\ index' \in [state : {"none", "foreign", "ours"}, rows : SUBSET BundleRow]
    BY <1>1, <2>7, Known
  <2>14. c.alone => command[p].alone
    BY <2>7
  <2>15. Goes(p, c)
    BY <2>1 DEF c
  <2>16. QED BY <1>1, <2>6, <2>8, <2>9, <2>10, <2>11, <2>12, <2>13, <2>14, <2>15, Proceeds
<1>4. QED BY <1>2, <1>3

(* An entity that cannot be fetched has no summary. *)
LEMMA LoseEntityStep ==
  ASSUME BundlesInv, NEW p \in Process, LoseEntity(p)
  PROVE  BundlesInv'
<1> DEFINE c == [command[p] EXCEPT !.next = @ + 1]
<1>0. /\ command[p] \in Command /\ Staged(command[p]) /\ (command[p].alone => Settled(command[p]))
      /\ CommandFresh(command[p]) /\ Vouches(command[p])
  BY Known
<1>1. /\ command[p].at = "entities" /\ Goes(p, c)
      /\ Working(p) /\ UNCHANGED <<clock, cached, losses, bundle, index>>
  BY DEF LoseEntity, At, Working
<1>2. command[p].dir \in Guide /\ Exports(command[p]) /\ command[p].export > 0
  BY <1>0, <1>1 DEF Staged, Writes
<1>3. c \in Command
  <2>1. command[p].next + 1 \in Nat \ {0}
    BY <1>0 DEF Command
  <2>2. QED BY <1>0, <2>1 DEF Command
<1>4. /\ c.items = command[p].items /\ c.name = command[p].name /\ c.at = command[p].at
      /\ c.dir = command[p].dir /\ c.alone = command[p].alone /\ c.export = command[p].export
      /\ c.known = command[p].known
  BY <1>0 DEF Command
<1>5. command'[p] = c
  BY <1>1, Went DEF BundlesInv
<1> HIDE DEF c
<1>6. Staged(c)
  BY <1>0, <1>1, <1>2, <1>4 DEF Staged, Exports, Writes
<1>7. CommandFresh(c)
  BY <1>0, <1>1, <1>4 DEF CommandFresh
<1>8. Vouches(c) /\ AnswersRight(c)
  BY <1>0, <1>1, <1>4 DEF Vouches, AnswersRight, Written
<1>9. c.alone => command[p].alone /\ Settled(command[p])'
  BY <1>0, <1>1, <1>2, <1>4, <1>5 DEF Settled, Written
<1>10. Exporting(p) /\ c.dir = On(p)
  BY <1>1, <1>2, <1>4 DEF Exporting, Exports, On
<1>11. /\ c.export <= Len(losses') /\ Len(losses') >= Len(losses) /\ losses' \in Seq(BOOLEAN)
       /\ index' \in [state : {"none", "foreign", "ours"}, rows : SUBSET BundleRow]
  BY <1>1, <1>4, Known
<1>12. QED BY <1>1, <1>3, <1>6, <1>7, <1>8, <1>9, <1>10, <1>11, Proceeds

(* The index is written from a scan of the manifests as they are. *)
LEMMA ScanRootStep ==
  ASSUME BundlesInv, NEW p \in Process, ScanRoot(p)
  PROVE  BundlesInv'
<1>0. /\ command[p] \in Command /\ Staged(command[p]) /\ (command[p].alone => Settled(command[p]))
      /\ CommandFresh(command[p]) /\ Vouches(command[p])
  BY Known
<1>1. command[p].at = "scan" /\ Working(p) /\ UNCHANGED <<clock, cached, losses, bundle, index>>
  BY DEF ScanRoot, At, Working
<1>2. Scan \in SUBSET BundleRow
  BY ScanTyped DEF BundlesInv
<1>3. PICK c \in Command :
        /\ Goes(p, c)
        /\ c.items = command[p].items /\ c.name = command[p].name /\ c.dir = command[p].dir
        /\ c.alone = command[p].alone /\ c.export = command[p].export /\ c.known = command[p].known
        /\ \/ c.at = "done" /\ index.state = "foreign" /\ c.name # "rebuild"
           \/ c.at = "index" /\ c.rows = Scan
  <2>1. CASE index.state = "foreign" /\ command[p].name # "rebuild"
    <3> DEFINE k == [command[p] EXCEPT !.at = "done"]
    <3>1. k \in Command
      BY <1>0 DEF Command, Steps
    <3>2. Goes(p, k)
      BY <2>1 DEF ScanRoot
    <3>3. /\ k.items = command[p].items /\ k.name = command[p].name /\ k.dir = command[p].dir
          /\ k.alone = command[p].alone /\ k.export = command[p].export /\ k.known = command[p].known
          /\ k.at = "done"
      BY <1>0 DEF Command
    <3> HIDE DEF k
    <3>4. QED BY <2>1, <3>1, <3>2, <3>3
  <2>2. CASE ~(index.state = "foreign" /\ command[p].name # "rebuild")
    <3> DEFINE k == [command[p] EXCEPT !.at = "index", !.rows = Scan]
    <3>1. k \in Command
      BY <1>0, <1>2 DEF Command, Steps
    <3>2. Goes(p, k)
      BY <2>2 DEF ScanRoot
    <3>3. /\ k.items = command[p].items /\ k.name = command[p].name /\ k.dir = command[p].dir
          /\ k.alone = command[p].alone /\ k.export = command[p].export /\ k.known = command[p].known
          /\ k.at = "index" /\ k.rows = Scan
      BY <1>0 DEF Command
    <3> HIDE DEF k
    <3>4. QED BY <2>2, <3>1, <3>2, <3>3
  <2>3. QED BY <2>1, <2>2
<1>4. command'[p] = c
  BY <1>3, Went DEF BundlesInv
<1>5. c.name = "rebuild" \/ (c.export > 0 /\ c.dir \in Guide /\ Exports(c))
  BY <1>0, <1>1, <1>3 DEF Staged, Exports
<1>6. Staged(c)
  BY <1>0, <1>1, <1>3, <1>5 DEF Staged, Exports, Writes
<1>7. CommandFresh(c)
  BY <1>0, <1>1, <1>3 DEF CommandFresh
<1>8. Vouches(c) /\ AnswersRight(c)
  BY <1>0, <1>1, <1>3, <1>5 DEF Vouches, AnswersRight, Written, Exports
<1>9. c.alone => command[p].alone /\ Settled(command[p])'
  <2>1. Scan' = Scan
    BY <1>1 DEF Scan, Readable, Torn
  <2>2. QED BY <1>0, <1>1, <1>3, <1>4, <2>1 DEF Settled, Written
<1>10. c.at \notin {"idle", "done"} /\ Exports(c) => Exporting(p) /\ c.dir = On(p)
  BY <1>1, <1>3 DEF Exporting, Exports, On
<1>11. /\ c.export <= Len(losses') /\ Len(losses') >= Len(losses) /\ losses' \in Seq(BOOLEAN)
       /\ index' \in [state : {"none", "foreign", "ours"}, rows : SUBSET BundleRow]
  BY <1>1, <1>3, Known
<1>12. QED BY <1>1, <1>3, <1>6, <1>7, <1>8, <1>9, <1>10, <1>11, Proceeds

(* The index of a command that is alone is what it scanned. *)
LEMMA WriteIndexStep ==
  ASSUME BundlesInv, NEW p \in Process, WriteIndex(p)
  PROVE  BundlesInv'
<1> DEFINE c == [command[p] EXCEPT !.at = "done", !.rows = {}]
<1>0. /\ command[p] \in Command /\ Staged(command[p]) /\ (command[p].alone => Settled(command[p]))
      /\ CommandFresh(command[p]) /\ Vouches(command[p])
  BY Known
<1>1. /\ command[p].at = "index" /\ Working(p) /\ Goes(p, c)
      /\ index' = [state |-> "ours", rows |-> command[p].rows]
      /\ UNCHANGED <<clock, cached, losses, bundle>>
  BY DEF WriteIndex, At, Working, Rows
<1>2. c \in Command
  BY <1>0 DEF Command, Steps
<1>3. /\ c.items = command[p].items /\ c.name = command[p].name /\ c.dir = command[p].dir
      /\ c.alone = command[p].alone /\ c.export = command[p].export /\ c.known = command[p].known
      /\ c.at = "done" /\ c.rows = {}
  BY <1>0 DEF Command
<1>4. command'[p] = c
  BY <1>1, Went DEF BundlesInv
<1> HIDE DEF c
<1>5. c.name = "rebuild" \/ (c.export > 0 /\ c.dir \in Guide /\ Exports(c))
  BY <1>0, <1>1, <1>3 DEF Staged, Exports
<1>6. Staged(c)
  BY <1>0, <1>1, <1>3, <1>5 DEF Staged, Exports, Writes
<1>7. CommandFresh(c)
  BY <1>3 DEF CommandFresh
<1>8. Vouches(c) /\ AnswersRight(c)
  BY <1>3, <1>5 DEF Vouches, AnswersRight, Exports
<1>9. c.alone => command[p].alone /\ Settled(command[p])'
  <2>1. Scan' = Scan
    BY <1>1 DEF Scan, Readable, Torn
  <2>2. index'.state = "ours" /\ index'.rows = command[p].rows
    BY <1>1
  <2>3. QED BY <1>0, <1>1, <1>3, <1>4, <2>1, <2>2 DEF Settled, Written
<1>10. index' \in [state : {"none", "foreign", "ours"}, rows : SUBSET BundleRow]
  BY <1>0, <1>1 DEF Command
<1>11. c.export <= Len(losses') /\ Len(losses') >= Len(losses) /\ losses' \in Seq(BOOLEAN)
  BY <1>1, <1>3, Known
<1>12. QED BY <1>1, <1>2, <1>3, <1>6, <1>7, <1>8, <1>9, <1>10, <1>11, Proceeds

(* A list that is read is at least as new as the manifest. *)
LEMMA ReadListStep ==
  ASSUME BundlesInv, NEW p \in Process, ReadList(p)
  PROVE  BundlesInv'
<1>0. /\ command[p] \in Command /\ Staged(command[p]) /\ (command[p].alone => Settled(command[p]))
      /\ CommandFresh(command[p]) /\ Vouches(command[p])
  BY Known
<1>1. command[p].at = "read" /\ Working(p) /\ UNCHANGED <<clock, cached, losses, bundle, index>>
  BY DEF ReadList, At, Working
<1>2. CASE Goes(p, Idle)
  BY <1>1, <1>2, Ends, Known
<1>3. CASE ~Goes(p, Idle)
  <2> DEFINE d == command[p].dir
             i == command[p].next
             got == Append(command[p].got, bundle[d].lists[i])
             at == IF i < Lists THEN "read" ELSE "done"
             contested == bundle[d].contested
             c == [command[p] EXCEPT !.got = got, !.next = i + 1, !.contested = contested, !.at = at]
  <2>1. Goes(p, c)
    BY <1>3 DEF ReadList
  <2>2. command[p].name = "query" /\ d \in Dir /\ i \in 1..Lists /\ Len(command[p].got) = i - 1
    BY <1>0, <1>1 DEF Staged
  <2>3. command[p].got \in Seq(Nat) /\ bundle[d].lists[i] \in Nat /\ contested \in BOOLEAN
    <3>1. command[p].got \in Seq(Nat)
      BY <1>0 DEF Command
    <3>2. bundle[d] \in Bundle
      BY <2>2 DEF BundlesInv, BundlesTyped
    <3>3. QED BY <2>2, <3>1, <3>2 DEF Bundle
  <2>4. /\ got \in Seq(Nat) /\ Len(got) = i /\ got[i] = bundle[d].lists[i]
        /\ \A j \in 1..(i - 1) : got[j] = command[p].got[j]
    BY <2>2, <2>3
  <2>5. i \in Nat \ {0} /\ i + 1 \in Nat \ {0} /\ at \in Steps
    BY <2>2, BundlesAssumption DEF Steps
  <2>6. (at = "read" /\ i < Lists) \/ (at = "done" /\ i = Lists)
    <3>1. Lists \in Nat
      BY BundlesAssumption
    <3>2. i < Lists \/ i = Lists
      BY <2>2, <3>1
    <3>3. CASE i < Lists
      BY <3>3
    <3>4. CASE i = Lists
      BY <3>1, <3>4
    <3>5. QED BY <3>2, <3>3, <3>4
  <2>7. c \in Command
    <3> HIDE DEF got, at, contested, i
    <3>1. QED BY <1>0, <2>3, <2>4, <2>5 DEF Command
  <2>8. command'[p] = c
    BY <2>1, Went DEF BundlesInv
  <2>9. /\ c.items = command[p].items /\ c.name = command[p].name /\ c.dir = d
        /\ c.alone = command[p].alone /\ c.export = command[p].export /\ c.known = command[p].known
        /\ c.at = at /\ c.got = got /\ c.next = i + 1 /\ c.contested = contested /\ c.seen = command[p].seen
    <3> HIDE DEF got, at, contested, i
    <3>1. QED BY <1>0 DEF Command
  <2> HIDE DEF c, at, got
  <2>10. Staged(c)
    <3>1. c.at = "read" => c.next \in 1..Lists /\ Len(c.got) = c.next - 1
      <4>1. Lists \in Nat
        BY BundlesAssumption
      <4>2. c.at = "read" => i < Lists
        BY <2>6, <2>9
      <4>3. c.next = i + 1 /\ Len(c.got) = i /\ i \in 1..Lists
        BY <2>2, <2>4, <2>9
      <4>4. QED BY <4>1, <4>2, <4>3
    <3>2. c.at = "done" => Len(c.got) = Lists
      BY <2>4, <2>6, <2>9
    <3>3. c.name = "query" /\ c.dir \in Dir /\ c.at \in {"read", "done"}
      BY <2>2, <2>6, <2>9
    <3>4. ~Exports(c) /\ c.export = command[p].export /\ (command[p].export > 0 => Exports(command[p]))
      BY <1>0, <2>2, <2>9, <3>3 DEF Exports, Staged
    <3>5. ~Exports(command[p])
      BY <2>2 DEF Exports
    <3>6. QED BY <3>1, <3>2, <3>3, <3>4, <3>5 DEF Staged, Writes
  <2>11. CommandFresh(c)
    BY <1>0, <1>1, <2>6, <2>9 DEF CommandFresh
  <2>12. command[p].export = 0
    BY <1>0, <2>2 DEF Staged, Exports, Command
  <2>13. d \in Guide /\ ~contested => \A j \in 1..i : got[j] >= c.seen.export
    <3>1. ASSUME d \in Guide, ~contested, NEW j \in 1..i PROVE got[j] >= c.seen.export
      <4>1. /\ \A n \in 1..Lists : bundle[d].lists[n] >= c.seen.export
            /\ \A n \in 1..(i - 1) : command[p].got[n] >= c.seen.export
        BY <1>0, <1>1, <2>2, <2>9, <3>1 DEF Vouches
      <4>2. CASE j = i
        BY <2>2, <2>4, <4>1, <4>2
      <4>3. CASE j \in 1..(i - 1)
        BY <2>4, <4>1, <4>3
      <4>4. QED BY <2>2, <4>2, <4>3
    <3>2. QED BY <3>1
  <2>14. Vouches(c) /\ AnswersRight(c)
    <3>1. c.at = "read" \/ (c.at = "done" /\ i = Lists)
      BY <2>6, <2>9
    <3>2. Vouches(c)
      <4>1. ~(c.export > 0)
        BY <2>9, <2>12
      <4>2. c.dir \in Guide /\ ~bundle[c.dir].contested => \A j \in 1..Len(c.got) : c.got[j] >= c.seen.export
        BY <2>4, <2>9, <2>13
      <4>3. c.dir \in Guide /\ ~bundle[c.dir].contested => \A j \in 1..Lists : bundle[c.dir].lists[j] >= c.seen.export
        BY <1>0, <1>1, <2>9 DEF Vouches
      <4>4. QED BY <4>1, <4>2, <4>3 DEF Vouches
    <3>3. AnswersRight(c)
      BY <2>9, <2>13, <3>1 DEF AnswersRight
    <3>4. QED BY <3>2, <3>3
  <2>15. c.alone => command[p].alone /\ Settled(command[p])'
    <3>1. (c.export > 0) = FALSE /\ c.at # "index" /\ c.name = "query"
      BY <2>2, <2>6, <2>9, <2>12
    <3>2. QED BY <2>8, <2>9, <3>1 DEF Settled
  <2>16. ~Exports(c)
    BY <2>2, <2>9 DEF Exports
  <2>17. /\ c.export <= Len(losses') /\ Len(losses') >= Len(losses) /\ losses' \in Seq(BOOLEAN)
         /\ index' \in [state : {"none", "foreign", "ours"}, rows : SUBSET BundleRow]
    BY <1>1, <2>9, Known
  <2>18. QED BY <1>1, <2>1, <2>7, <2>10, <2>11, <2>14, <2>15, <2>16, <2>17, Proceeds
<1>4. QED BY <1>2, <1>3

(* A killed command leaves the files as they are. *)
LEMMA StopStep ==
  ASSUME BundlesInv, NEW p \in Process, Stop(p)
  PROVE  BundlesInv'
<1>1. index' \in [state : {"none", "foreign", "ours"}, rows : SUBSET BundleRow]
  BY Known DEF Stop
<1>2. QED BY <1>1, Ends DEF Stop

LEMMA TearIndexStep ==
  ASSUME BundlesInv, NEW p \in Process, TearIndex(p)
  PROVE  BundlesInv'
<1>1. index' \in [state : {"none", "foreign", "ours"}, rows : SUBSET BundleRow]
  BY DEF TearIndex
<1>2. QED BY <1>1, Ends DEF TearIndex, At, Working

-----------------------------------------------------------------------------
(* Time passes, and entities are cached.                                    *)

LEMMA ShowEntityStep ==
  ASSUME BundlesInv, NEW e \in 1..Entities, ShowEntity(e)
  PROVE  BundlesInv'
<1>1. cached' \in [1..Entities -> Int] /\ UNCHANGED <<clock, losses, bundle, index, command>>
  BY DEF ShowEntity, BundlesInv, BundlesTyped
<1>2. BundlesTyped'
  BY <1>1 DEF BundlesInv, BundlesTyped, Staged
<1>3. EntitiesAge'
  BY <1>1 DEF BundlesInv, EntitiesAge, BundleFresh, CommandFresh, Fetched, Recent
<1>4. WritesInOrder'
  BY <1>1 DEF BundlesInv, WritesInOrder, Counted, Ordered, Vouches, AnswersRight, Written, Exporting, Working, On
<1>5. LoneCommands'
  BY <1>1 DEF BundlesInv, LoneCommands, Settled, Written, Working, Scan, Readable, Torn
<1>6. QED BY <1>2, <1>3, <1>4, <1>5 DEF BundlesInv

(* No command is at work when an hour passes. *)
LEMMA HourPassesStep ==
  ASSUME BundlesInv, HourPasses
  PROVE  BundlesInv'
<1>1. clock' = clock + 1 /\ UNCHANGED <<cached, losses, bundle, index, command>>
  BY DEF HourPasses
<1>2. clock \in Nat
  BY DEF BundlesInv, BundlesTyped
<1>3. BundlesTyped'
  BY <1>1, <1>2 DEF BundlesInv, BundlesTyped, Staged
<1>4. EntitiesAge'
  <2>1. \A p \in Process : command'[p].at \in {"idle", "done"}
    BY <1>1 DEF HourPasses, Working
  <2>2. ASSUME NEW d \in Guide
        PROVE  bundle'[d].manifest.exported <= clock' /\ BundleFresh(d)'
    <3>1. bundle[d] \in Bundle
      BY DEF BundlesInv, BundlesTyped, Dir
    <3>2. bundle[d].manifest.exported \in Int /\ bundle[d].items \in SUBSET Item
      BY <3>1 DEF Bundle, Manifest, Summaries
    <3>3. bundle[d].manifest.exported <= clock /\ BundleFresh(d)
      BY DEF BundlesInv, EntitiesAge
    <3>4. \A x \in bundle[d].items : x.stored \in Int
      BY <3>2 DEF Item
    <3>5. BundleFresh(d)'
      BY <1>1, <1>2, <3>3, <3>4 DEF BundleFresh, Fetched
    <3>6. QED BY <1>1, <1>2, <3>2, <3>3, <3>5
  <2>3. QED BY <2>1, <2>2 DEF EntitiesAge, CommandFresh
<1>5. WritesInOrder'
  BY <1>1 DEF BundlesInv, WritesInOrder, Counted, Ordered, Vouches, AnswersRight, Written, Exporting, Working, On
<1>6. LoneCommands'
  BY <1>1 DEF BundlesInv, LoneCommands, Settled, Written, Working, Scan, Readable, Torn
<1>7. QED BY <1>3, <1>4, <1>5, <1>6 DEF BundlesInv

-----------------------------------------------------------------------------
(* A command begins.                                                        *)

(* Only whether a bundle is contested changes then. *)
SameFiles ==
  \A d \in Dir :
    /\ bundle'[d].lists = bundle[d].lists /\ bundle'[d].manifest = bundle[d].manifest
    /\ bundle'[d].items = bundle[d].items /\ bundle'[d].file = bundle[d].file
    /\ bundle'[d].torn = bundle[d].torn

(* To enter a bundle is to contest it where it is being exported. *)
LEMMA Entered ==
  ASSUME BundlesTyped, NEW d \in Dir, Enters(d)
  PROVE  /\ bundle' \in [Dir -> Bundle] /\ SameFiles
         /\ \A x \in Dir : ~bundle'[x].contested => ~bundle[x].contested
         /\ ~bundle'[d].contested => ~\E q \in Process : Exporting(q) /\ On(q) = d
<1> DEFINE others == \E q \in Process : Exporting(q) /\ On(q) = d
           old == bundle[d].contested
           contested == old \/ others
           b == [bundle[d] EXCEPT !.contested = contested]
<1>1. bundle[d] \in Bundle /\ others \in BOOLEAN
  BY DEF BundlesTyped
<1>2. old \in BOOLEAN
  BY <1>1 DEF Bundle
<1>3. contested \in BOOLEAN /\ (~contested => ~old /\ ~others)
  BY <1>1, <1>2
<1>4. Put(d, b)
  BY DEF Enters
<1> HIDE DEF contested, old
<1>5. b \in Bundle
  BY <1>1, <1>3 DEF Bundle
<1>6. /\ b.lists = bundle[d].lists /\ b.manifest = bundle[d].manifest /\ b.items = bundle[d].items
      /\ b.file = bundle[d].file /\ b.torn = bundle[d].torn /\ b.contested = contested
  BY <1>1 DEF Bundle
<1> HIDE DEF b
<1>7. bundle'[d] = b /\ (\A x \in Dir \ {d} : bundle'[x] = bundle[x]) /\ bundle' \in [Dir -> Bundle]
  BY <1>4, <1>5, Kept
<1>8. SameFiles
  BY <1>6, <1>7 DEF SameFiles
<1>9. \A x \in Dir : ~bundle'[x].contested => ~bundle[x].contested
  BY <1>3, <1>6, <1>7 DEF old
<1>10. ~bundle'[d].contested => ~others
  BY <1>3, <1>6, <1>7
<1>11. QED BY <1>7, <1>8, <1>9, <1>10

(* The scan depends on manifests and on what is torn. *)
LEMMA ScanKept ==
  ASSUME BundlesTyped, SameFiles
  PROVE  Scan' = Scan
<1>1. \A d \in Guide : bundle'[d].manifest = bundle[d].manifest /\ bundle'[d].torn = bundle[d].torn
  BY DEF SameFiles, Dir
<1>2. QED BY <1>1 DEF Scan, Readable, Torn

(* A command that begins has nothing yet, and no other export to disturb. *)
LEMMA Begins ==
  ASSUME BundlesInv, NEW p \in Process, NEW c \in Command, Staged(c), BeginCommand(p, c),
         UNCHANGED bundle \/ (c.dir \in Dir /\ Enters(c.dir)),
         c.export = 0, c.items = {}, c.known = {}, c.got = <<>>,
         \/ c.at = "fetch" /\ Enters(c.dir)
         \/ c.at = "scan" /\ c.name = "rebuild"
         \/ c.at = "read" /\ c.name = "query" /\ UNCHANGED bundle /\ c.seen = bundle[c.dir].manifest
         \/ c.at = "done" /\ c.name = "refresh"
  PROVE  BundlesInv'
<1> DEFINE lone == \A o \in Process \ {p} : ~Working(o)
<1>1. /\ command' \in [Process -> Command] /\ \A o \in Process : Staged(command'[o])
      /\ command'[p] = [c EXCEPT !.alone = lone]
      /\ \A o \in Process \ {p} : command'[o] = [command[o] EXCEPT !.alone = FALSE]
      /\ UNCHANGED <<clock, cached, losses, index>> /\ command[p].at = "idle"
  BY Began DEF BundlesInv, BeginCommand, At
<1>2. /\ bundle' \in [Dir -> Bundle] /\ SameFiles
      /\ \A x \in Dir : ~bundle'[x].contested => ~bundle[x].contested
      /\ c.at = "fetch" /\ ~bundle'[c.dir].contested => ~\E q \in Process : Exporting(q) /\ On(q) = c.dir
  <2>1. CASE UNCHANGED bundle /\ c.at # "fetch"
    BY <2>1 DEF BundlesInv, BundlesTyped, SameFiles
  <2>2. CASE c.dir \in Dir /\ Enters(c.dir)
    BY <2>2, Entered DEF BundlesInv
  <2>3. c.at = "fetch" => c.dir \in Dir
    BY DEF Staged
  <2>4. QED BY <2>1, <2>2, <2>3
<1>3. /\ command'[p].name = c.name /\ command'[p].at = c.at /\ command'[p].dir = c.dir
      /\ command'[p].export = 0 /\ command'[p].items = {} /\ command'[p].known = {}
      /\ command'[p].got = <<>> /\ command'[p].seen = c.seen /\ command'[p].alone = lone
  <2> HIDE DEF lone
  <2>1. QED BY <1>1 DEF Command
<1>4. ASSUME NEW o \in Process \ {p}
      PROVE  LET k == command[o]
                 n == command'[o]
             IN /\ n.name = k.name /\ n.at = k.at /\ n.dir = k.dir /\ n.alone = FALSE /\ n.export = k.export
                /\ n.next = k.next /\ n.items = k.items /\ n.known = k.known /\ n.seen = k.seen
                /\ n.got = k.got /\ n.contested = k.contested
  <2>1. command[o] \in Command
    BY DEF BundlesInv, BundlesTyped
  <2>2. command'[o] = [command[o] EXCEPT !.alone = FALSE]
    BY <1>1
  <2>3. QED BY ONLY <2>1, <2>2 DEF Command
<1>5. BundlesTyped'
  <2>1. /\ clock' \in Nat /\ cached' \in [1..Entities -> Int] /\ losses' \in Seq(BOOLEAN)
        /\ index' \in [state : {"none", "foreign", "ours"}, rows : SUBSET BundleRow]
    BY <1>1 DEF BundlesInv, BundlesTyped
  <2>2. QED BY <1>1, <1>2, <2>1 DEF BundlesTyped, Staged
<1>6. \A d \in Guide : d \in Dir
  BY DEF Dir
<1>7. EntitiesAge'
  <2>1. ASSUME NEW d \in Guide PROVE bundle'[d].manifest.exported <= clock' /\ BundleFresh(d)'
    BY <1>1, <1>2, <1>6 DEF BundlesInv, EntitiesAge, SameFiles, BundleFresh, Fetched
  <2>2. ASSUME NEW o \in Process \ {p} PROVE CommandFresh(command[o])'
    <3>1. CommandFresh(command[o])
      BY DEF BundlesInv, EntitiesAge
    <3>2. SUFFICES ASSUME command[o].at \notin {"idle", "done"}, command[o].dir \in Guide
                   PROVE  CommandFresh(command[o])'
      BY <1>4 DEF CommandFresh
    <3> DEFINE k == command[o]
    <3>3. clock' = clock /\ bundle'[k.dir].items = bundle[k.dir].items /\ bundle'[k.dir].file = bundle[k.dir].file
      BY <1>1, <1>2, <1>6, <3>2 DEF SameFiles
    <3>4. /\ command'[o].at = k.at /\ command'[o].dir = k.dir
          /\ command'[o].items = k.items /\ command'[o].known = k.known
      BY <1>4
    <3>5. QED BY <3>1, <3>2, <3>3, <3>4 DEF CommandFresh, Fetched, Recent
  <2>3. CommandFresh(command[p])'
    BY <1>3 DEF CommandFresh
  <2>4. QED BY <2>1, <2>2, <2>3 DEF EntitiesAge
<1>8. WritesInOrder'
  <2>1. Counted'
    <3>1. 0 <= Len(losses)
      BY DEF BundlesInv, BundlesTyped
    <3>2. QED BY <1>1, <1>2, <1>3, <1>4, <3>1 DEF BundlesInv, WritesInOrder, Counted, SameFiles
  <2>2. \A o \in Process \ {p} : (Exporting(o)' <=> Exporting(o)) /\ On(o)' = On(o)
    BY <1>4 DEF Exporting, Working, On
  <2>3. Exporting(p)' => c.at = "fetch" /\ On(p)' = c.dir
    BY <1>3 DEF Exporting, Working, On
  <2>4. ASSUME NEW d \in Guide, ~bundle'[d].contested PROVE Ordered(d)'
    <3>1. Ordered(d) /\ ~bundle[d].contested
      BY <1>2, <1>6, <2>4 DEF BundlesInv, WritesInOrder
    <3>2. \A i \in 1..Lists : bundle'[d].lists[i] >= bundle'[d].manifest.export
      BY <1>2, <1>6, <3>1 DEF Ordered, SameFiles
    <3>3. ASSUME NEW q \in Process, NEW r \in Process,
                 Exporting(q)', Exporting(r)', On(q)' = d, On(r)' = d
          PROVE  q = r
      <4>1. CASE q # p /\ r # p
        BY <2>2, <3>1, <3>3, <4>1 DEF Ordered
      <4>2. CASE (q = p) # (r = p)
        <5>1. PICK o \in Process \ {p} : Exporting(o)' /\ On(o)' = d
          BY <3>3, <4>2
        <5>2. Exporting(o) /\ On(o) = d
          BY <2>2, <5>1
        <5>3. Exporting(p)' /\ On(p)' = d
          BY <3>3, <4>2
        <5>4. QED BY <1>2, <2>3, <2>4, <5>2, <5>3
      <4>3. QED BY <4>1, <4>2
    <3>4. QED BY <3>2, <3>3 DEF Ordered
  <2>5. \A d \in Guide : Ordered(d)'
    BY <2>4 DEF Ordered
  <2>6. ASSUME NEW o \in Process \ {p} PROVE Vouches(command[o])' /\ AnswersRight(command[o])'
    <3>1. Vouches(command[o]) /\ AnswersRight(command[o])
      BY DEF BundlesInv, WritesInOrder
    <3>2. AnswersRight(command[o])'
      BY <1>4, <3>1 DEF AnswersRight
    <3>3. Vouches(command[o])'
      <4>1. SUFFICES ASSUME command[o].dir \in Guide, ~bundle'[command[o].dir].contested
                     PROVE  Vouches(command[o])'
        BY <1>4 DEF Vouches
      <4> DEFINE k == command[o]
                 d == command[o].dir
      <4>2. /\ ~bundle[d].contested /\ bundle'[d].lists = bundle[d].lists
            /\ bundle'[d].manifest = bundle[d].manifest
        BY <1>2, <1>6, <4>1 DEF SameFiles
      <4>3. /\ command'[o].at = k.at /\ command'[o].dir = k.dir /\ command'[o].export = k.export
            /\ command'[o].next = k.next /\ command'[o].seen = k.seen /\ command'[o].got = k.got
        BY <1>4
      <4>4. QED BY <3>1, <4>1, <4>2, <4>3 DEF Vouches, Written
    <3>4. QED BY <3>2, <3>3
  <2>7. AnswersRight(command[p])'
    BY <1>3 DEF AnswersRight
  <2>8. Vouches(command[p])'
    <3>1. ASSUME c.at = "read", c.dir \in Guide, ~bundle'[c.dir].contested
          PROVE  \A i \in 1..Lists : bundle'[c.dir].lists[i] >= c.seen.export
      <4>1. Ordered(c.dir) /\ ~bundle[c.dir].contested /\ bundle' = bundle
        BY <1>2, <1>6, <3>1 DEF BundlesInv, WritesInOrder
      <4>2. c.seen = bundle[c.dir].manifest
        BY <3>1
      <4>3. QED BY <4>1, <4>2 DEF Ordered
    <3>2. \A i \in 1..Len(command'[p].got) : command'[p].got[i] >= c.seen.export
      BY <1>3
    <3>3. QED BY <1>3, <3>1, <3>2 DEF Vouches
  <2>9. QED BY <2>1, <2>5, <2>6, <2>7, <2>8 DEF WritesInOrder
<1>9. LoneCommands'
  <2>1. \A o \in Process \ {p} : ~command'[o].alone
    BY <1>4
  <2>2. \A o \in Process \ {p} : Working(o)' <=> Working(o)
    BY <1>4 DEF Working
  <2>3. Settled(command[p])'
    BY <1>3 DEF Settled
  <2>4. QED BY <1>3, <2>1, <2>2, <2>3 DEF LoneCommands
<1>10. QED BY <1>5, <1>7, <1>8, <1>9 DEF BundlesInv

LEMMA ExportStep ==
  ASSUME BundlesInv, NEW p \in Process, NEW d \in Dir, NEW hydrates \in BOOLEAN, guide_export(p, d, hydrates)
  PROVE  BundlesInv'
<1> DEFINE c == [Idle EXCEPT !.name = "export", !.at = "fetch", !.dir = d, !.hydrates = hydrates]
<1>1. c \in Command
  BY NoneTyped DEF Command, Names, Steps
<1>2. /\ c.name = "export" /\ c.at = "fetch" /\ c.dir = d /\ c.export = 0 /\ c.items = {} /\ c.known = {}
      /\ c.got = <<>> /\ c.next = 1
  BY DEF Idle
<1>3. BeginCommand(p, c) /\ Enters(d)
  BY DEF guide_export
<1> HIDE DEF c
<1>4. Staged(c)
  BY <1>2 DEF Staged, Exports, Writes
<1>5. QED BY <1>1, <1>2, <1>3, <1>4, Begins

LEMMA RefreshStep ==
  ASSUME BundlesInv, NEW p \in Process, NEW d \in Dir, NEW force \in BOOLEAN, guide_bundle_refresh(p, d, force)
  PROVE  BundlesInv'
<1> DEFINE hydrates == bundle[d].manifest.hydrates
           at == IF Fresh(bundle[d].manifest) /\ ~force THEN "done" ELSE "fetch"
           reuses == ~force
           c == [Idle EXCEPT !.name = "refresh", !.dir = d, !.at = at, !.hydrates = hydrates, !.reuses = reuses]
<1>1. hydrates \in BOOLEAN /\ at \in {"done", "fetch"} /\ reuses \in BOOLEAN
  BY DEF BundlesInv, BundlesTyped, Bundle, Manifest
<1>2. BeginCommand(p, c) /\ Enters(d)
  BY DEF guide_bundle_refresh
<1> HIDE DEF hydrates, at, reuses
<1>3. c \in Command
  BY <1>1, NoneTyped DEF Command, Names, Steps
<1>4. /\ c.name = "refresh" /\ c.at = at /\ c.dir = d /\ c.export = 0 /\ c.items = {} /\ c.known = {}
      /\ c.got = <<>> /\ c.next = 1
  BY DEF Idle
<1> HIDE DEF c
<1>5. Staged(c)
  BY <1>1, <1>4 DEF Staged, Exports, Writes
<1>6. (c.at = "fetch" /\ Enters(c.dir)) \/ (c.at = "done" /\ c.name = "refresh")
  BY <1>1, <1>2, <1>4
<1>7. QED BY <1>2, <1>3, <1>4, <1>5, <1>6, Begins

LEMMA RebuildStep ==
  ASSUME BundlesInv, NEW p \in Process, guide_bundle_index_rebuild(p)
  PROVE  BundlesInv'
<1> DEFINE c == [Idle EXCEPT !.name = "rebuild", !.at = "scan"]
<1>1. c \in Command
  BY NoneTyped DEF Command, Names, Steps
<1>2. /\ c.name = "rebuild" /\ c.at = "scan" /\ c.export = 0 /\ c.items = {} /\ c.known = {}
      /\ c.got = <<>>
  BY DEF Idle
<1>3. BeginCommand(p, c) /\ UNCHANGED bundle
  BY DEF guide_bundle_index_rebuild
<1> HIDE DEF c
<1>4. Staged(c)
  BY <1>2 DEF Staged, Exports, Writes
<1>5. QED BY <1>1, <1>2, <1>3, <1>4, Begins

LEMMA QueryStep ==
  ASSUME BundlesInv, NEW p \in Process, NEW d \in Dir, guide_query(p, d)
  PROVE  BundlesInv'
<1> DEFINE seen == bundle[d].manifest
           c == [Idle EXCEPT !.name = "query", !.at = "read", !.dir = d, !.seen = seen]
<1>1. seen \in Manifest
  BY DEF BundlesInv, BundlesTyped, Bundle
<1>2. BeginCommand(p, c) /\ UNCHANGED bundle
  BY DEF guide_query
<1> HIDE DEF seen
<1>3. c \in Command
  BY <1>1, NoneTyped DEF Command, Names, Steps
<1>4. /\ c.name = "query" /\ c.at = "read" /\ c.dir = d /\ c.seen = seen /\ c.export = 0 /\ c.items = {}
      /\ c.known = {} /\ c.got = <<>> /\ c.next = 1
  BY DEF Idle
<1> HIDE DEF c
<1>5. 1 \in 1..Lists
  BY BundlesAssumption
<1>6. Staged(c)
  BY <1>4, <1>5 DEF Staged, Exports, Writes
<1>7. c.seen = bundle[c.dir].manifest
  BY <1>4 DEF seen
<1>8. QED BY <1>2, <1>3, <1>4, <1>6, <1>7, Begins

-----------------------------------------------------------------------------
(* An export writes a file of its directory.                                *)

LEMMA WritesTo ==
  ASSUME BundlesInv, NEW p \in Process, Exporting(p), NEW d \in Dir, d = On(p),
         NEW c \in Command, Staged(c), Goes(p, c), NEW b \in Bundle, Put(d, b),
         cached' \in [1..Entities -> Int], UNCHANGED <<clock, losses, index>>,
         c.at \notin {"idle", "done"} /\ Exports(c) => c.dir = d,
         c.export <= Len(losses), b.manifest.export <= Len(losses),
         \A i \in 1..Lists : b.lists[i] <= Len(losses),
         b.contested = bundle[d].contested,
         d \in Guide =>
           /\ \A e \in 1..Entities : \/ b.file[e] >= bundle[d].file[e]
                                     \/ b.file[e] >= clock - EntityTTL
           /\ b.items = bundle[d].items
              \/ \A x \in b.items : Recent(x) /\ x.stored <= clock /\ b.file[x.entity] >= x.stored - EntityTTL
           /\ b.manifest.exported = bundle[d].manifest.exported
              \/ (b.manifest.exported = clock /\ \A x \in b.items : Recent(x)),
         d \in Guide /\ ~b.contested =>
           \A i \in 1..Lists : b.lists[i] >= b.manifest.export /\ b.lists[i] >= bundle[d].lists[i],
         CommandFresh(command[p])', Vouches(command[p])', AnswersRight(command[p])',
         c.alone => command[p].alone /\ Settled(command[p])'
  PROVE  BundlesInv'
<1>1. /\ command'[p] = c
      /\ \A o \in Process \ {p} : command'[o] = command[o]
      /\ command' \in [Process -> Command] /\ \A o \in Process : Staged(command'[o])
  BY Went DEF BundlesInv
<1>2. /\ bundle'[d] = b /\ bundle' \in [Dir -> Bundle]
      /\ \A x \in Dir \ {d} : bundle'[x] = bundle[x]
  BY Kept DEF BundlesInv
<1>3. BundlesTyped'
  BY <1>1, <1>2 DEF BundlesInv, BundlesTyped, Staged
<1>4. Guide \subseteq Dir
  BY DEF Dir
<1>5. bundle[d] \in Bundle /\ clock \in Nat /\ EntityTTL \in Nat /\ MaxAge \in Nat /\ Len(losses) \in Nat
  BY BundlesAssumption DEF BundlesInv, BundlesTyped
<1>6. EntitiesAge'
  <2>1. ASSUME d \in Guide, NEW x \in Item, Fetched(d, x) PROVE Fetched(d, x)'
    <3>1. x.entity \in 1..Entities /\ x.stored \in Int
      BY DEF Item
    <3>2. b.file[x.entity] \in Int /\ bundle[d].file[x.entity] \in Int
      BY <1>5, <3>1 DEF Bundle
    <3>3. b.file[x.entity] >= bundle[d].file[x.entity] \/ b.file[x.entity] >= clock - EntityTTL
      BY <2>1, <3>1
    <3>4. b.file[x.entity] >= x.stored - EntityTTL
      BY <1>5, <2>1, <3>1, <3>2, <3>3 DEF Fetched
    <3>5. QED BY <1>2, <2>1, <3>4 DEF Fetched
  <2>2. ASSUME d \in Guide
        PROVE  /\ bundle'[d].manifest.exported <= clock' /\ BundleFresh(d)'
               /\ b.items = bundle[d].items \/ \A x \in b.items : Recent(x)
    <3>1. bundle[d].manifest.exported <= clock /\ BundleFresh(d)
      BY <2>2 DEF BundlesInv, EntitiesAge
    <3>2. bundle[d].items \subseteq Item /\ b.items \subseteq Item
      BY <1>5 DEF Bundle, Summaries
    <3>3. b.manifest.exported \in Int /\ bundle[d].manifest.exported \in Int
      BY <1>5 DEF Bundle, Manifest
    <3>4. b.manifest.exported <= clock
      BY <1>5, <2>2, <3>1, <3>3
    <3>5. ASSUME NEW x \in b.items
          PROVE  /\ x.stored <= clock /\ b.file[x.entity] >= x.stored - EntityTTL
                 /\ b.manifest.exported <= x.stored + MaxAge
      <4>1. x \in Item /\ x.stored \in Int
        BY <3>2 DEF Item
      <4>2. CASE b.items = bundle[d].items
        <5>1. Fetched(d, x) /\ bundle[d].manifest.exported <= x.stored + MaxAge
          BY <3>1, <4>2 DEF BundleFresh
        <5>2. Fetched(d, x)'
          BY <2>1, <2>2, <4>1, <5>1
        <5>3. b.manifest.exported <= x.stored + MaxAge
          BY <2>2, <5>1 DEF Recent
        <5>4. QED BY <1>2, <5>2, <5>3 DEF Fetched
      <4>3. CASE b.items # bundle[d].items
        <5>1. Recent(x) /\ x.stored <= clock /\ b.file[x.entity] >= x.stored - EntityTTL
          BY <2>2, <4>3
        <5>2. b.manifest.exported <= x.stored + MaxAge
          BY <1>5, <3>3, <3>4, <4>1, <5>1 DEF Recent
        <5>3. QED BY <5>1, <5>2
      <4>4. QED BY <4>2, <4>3
    <3>6. BundleFresh(d)'
      BY <1>2, <3>5 DEF BundleFresh, Fetched
    <3>7. QED BY <1>2, <2>2, <3>4, <3>6
  <2>3. ASSUME NEW x \in Guide PROVE bundle'[x].manifest.exported <= clock' /\ BundleFresh(x)'
    <3>1. CASE x = d
      BY <2>2, <3>1
    <3>2. CASE x # d
      BY <1>2, <1>4, <3>2 DEF BundlesInv, EntitiesAge, BundleFresh, Fetched
    <3>3. QED BY <3>1, <3>2
  <2>4. ASSUME NEW o \in Process \ {p} PROVE CommandFresh(command[o])'
    <3>1. SUFFICES ASSUME command[o].at \notin {"idle", "done"}, command[o].dir \in Guide
                   PROVE  CommandFresh(command[o])'
      BY <1>1 DEF CommandFresh
    <3> DEFINE k == command[o]
    <3>2. CommandFresh(k) /\ k \in Command
      BY DEF BundlesInv, EntitiesAge, BundlesTyped
    <3>3. CASE k.dir # d
      <4>1. bundle'[k.dir] = bundle[k.dir]
        BY <1>2, <1>4, <3>1, <3>3
      <4>2. QED BY <1>1, <3>2, <4>1 DEF CommandFresh, Fetched, Recent
    <3>4. CASE k.dir = d
      <4>1. k.items \subseteq Item /\ k.known \subseteq Item
        BY <3>2 DEF Command, Summaries
      <4>2. (\A x \in k.items : Fetched(d, x) /\ Recent(x)) /\ \A x \in k.known : Fetched(d, x)
        BY <3>1, <3>2, <3>4 DEF CommandFresh
      <4>3. (\A x \in k.items : Fetched(d, x)' /\ Recent(x)) /\ \A x \in k.known : Fetched(d, x)'
        BY <2>1, <3>1, <3>4, <4>1, <4>2
      <4>4. k.at = "manifest" => \A x \in b.items : Recent(x)
        BY <2>2, <3>1, <3>2, <3>4 DEF CommandFresh
      <4>5. command'[o] = k
        BY <1>1
      <4>6. QED BY <1>2, <3>4, <4>3, <4>4, <4>5 DEF CommandFresh, Recent, Fetched
    <3>5. QED BY <3>3, <3>4
  <2>5. QED BY <2>3, <2>4 DEF EntitiesAge
<1>7. WritesInOrder'
  <2>1. Counted'
    <3>1. ASSUME NEW x \in Dir
          PROVE  bundle'[x].manifest.export <= Len(losses) /\ \A i \in 1..Lists : bundle'[x].lists[i] <= Len(losses)
      BY <1>2 DEF BundlesInv, WritesInOrder, Counted
    <3>2. \A o \in Process : command'[o].export <= Len(losses)
      BY <1>1 DEF BundlesInv, WritesInOrder, Counted
    <3>3. QED BY <3>1, <3>2 DEF Counted
  <2>2. \A o \in Process : Exporting(o)' => Exporting(o) /\ On(o)' = On(o)
    BY <1>1 DEF Exporting, Working, Exports, On
  <2>3. ASSUME NEW x \in Guide PROVE Ordered(x)'
    <3>1. Ordered(x)
      BY DEF BundlesInv, WritesInOrder
    <3>2. ~bundle'[x].contested => \A i \in 1..Lists : bundle'[x].lists[i] >= bundle'[x].manifest.export
      BY <1>2, <1>4, <3>1 DEF Ordered
    <3>3. bundle'[x].contested = bundle[x].contested
      BY <1>2, <1>4
    <3>4. QED BY <2>2, <3>1, <3>2, <3>3 DEF Ordered
  <2>4. ASSUME NEW o \in Process \ {p} PROVE Vouches(command[o])' /\ AnswersRight(command[o])'
    <3> DEFINE k == command[o]
    <3>1. Vouches(k) /\ AnswersRight(k) /\ k \in Command /\ Staged(k) /\ command'[o] = k
      BY <1>1 DEF BundlesInv, WritesInOrder, BundlesTyped
    <3>2. AnswersRight(command[o])'
      BY <3>1 DEF AnswersRight
    <3>3. SUFFICES ASSUME k.dir \in Guide, ~bundle'[k.dir].contested
                   PROVE  Vouches(command[o])'
      BY <3>1, <3>2 DEF Vouches
    <3>4. CASE k.dir # d
      <4>1. bundle'[k.dir] = bundle[k.dir]
        BY <1>2, <1>4, <3>3, <3>4
      <4>2. QED BY <3>1, <3>2, <4>1 DEF Vouches, Written
    <3>5. CASE k.dir = d
      <4>1. ~bundle[d].contested /\ Ordered(d)
        BY <1>2, <3>3, <3>5 DEF BundlesInv, WritesInOrder
      <4>2. ~(k.at \notin {"idle", "done"} /\ k.export > 0)
        <5>1. k.at \notin {"idle", "done"} /\ k.export > 0 => Exporting(o) /\ On(o) = d
          BY <3>1, <3>5 DEF Staged, Exports, Exporting, Working, On
        <5>2. QED BY <4>1, <5>1 DEF Ordered
      <4>3. k.at = "read" => /\ \A i \in 1..Lists : bundle[d].lists[i] >= k.seen.export
                             /\ \A i \in 1..Len(k.got) : k.got[i] >= k.seen.export
        BY <3>1, <3>3, <3>5, <4>1 DEF Vouches
      <4>4. \A i \in 1..Lists : bundle[d].lists[i] \in Nat /\ b.lists[i] \in Nat
        BY <1>5 DEF Bundle
      <4>5. k.seen.export \in Nat
        BY <3>1 DEF Command, Manifest
      <4>6. k.at = "read" => \A i \in 1..Lists : b.lists[i] >= k.seen.export
        <5>1. \A i \in 1..Lists : b.lists[i] >= bundle[d].lists[i]
          BY <1>2, <3>3, <3>5
        <5>2. QED BY <4>3, <4>4, <4>5, <5>1
      <4>7. bundle'[command'[o].dir] = b
        BY <1>2, <3>1, <3>5
      <4>8. QED BY <3>1, <3>2, <4>2, <4>3, <4>6, <4>7 DEF Vouches
    <3>6. QED BY <3>4, <3>5
  <2>5. QED BY <2>1, <2>3, <2>4 DEF WritesInOrder
<1>8. LoneCommands'
  <2>1. \A o \in Process \ {p} : ~command[o].alone
    BY DEF BundlesInv, LoneCommands, Exporting
  <2>2. c.alone => \A o \in Process \ {p} : ~Working(o)'
    BY <1>1 DEF BundlesInv, LoneCommands, Working
  <2>3. QED BY <1>1, <2>1, <2>2 DEF LoneCommands
<1>9. QED BY <1>3, <1>6, <1>7, <1>8 DEF BundlesInv

(* What there is to know of an export that writes. *)
LEMMA AtWork ==
  ASSUME BundlesInv, NEW p \in Process, command[p].at \in Writes
  PROVE  LET c == command[p]
             b == bundle[c.dir]
         IN /\ Exporting(p) /\ Exports(c) /\ c.dir \in Dir /\ c.export > 0 /\ c.export \in Nat
            /\ c.export <= Len(losses) /\ c \in Command /\ Staged(c)
            /\ CommandFresh(c) /\ Vouches(c) /\ (c.alone => Settled(c))
            /\ b \in Bundle /\ b.manifest.export <= Len(losses)
            /\ \A i \in 1..Lists : b.lists[i] <= Len(losses)
            /\ c.dir \in Guide => Ordered(c.dir)
<1>1. /\ command[p] \in Command /\ Staged(command[p]) /\ CommandFresh(command[p]) /\ Vouches(command[p])
      /\ command[p].alone => Settled(command[p])
      /\ command[p].export <= Len(losses) /\ command[p].export \in Nat
  BY Known
<1>2. Exports(command[p]) /\ command[p].dir \in Dir /\ command[p].export > 0
  BY <1>1 DEF Staged
<1>3. Exporting(p)
  BY <1>2 DEF Exporting, Exports, Working, Writes
<1>4. bundle[command[p].dir] \in Bundle
  BY <1>2 DEF BundlesInv, BundlesTyped
<1>5. /\ bundle[command[p].dir].manifest.export <= Len(losses)
      /\ \A i \in 1..Lists : bundle[command[p].dir].lists[i] <= Len(losses)
  BY <1>2 DEF BundlesInv, WritesInOrder, Counted
<1>6. command[p].dir \in Guide => Ordered(command[p].dir)
  BY DEF BundlesInv, WritesInOrder
<1>7. QED BY <1>1, <1>2, <1>3, <1>4, <1>5, <1>6

(* A command goes to the first of its next step. *)
LEMMA Reset ==
  ASSUME NEW k \in Command, NEW at \in Steps
  PROVE  LET c == [k EXCEPT !.next = 1, !.at = at]
         IN /\ c \in Command /\ c.next = 1 /\ c.at = at
            /\ c.name = k.name /\ c.dir = k.dir /\ c.export = k.export /\ c.alone = k.alone
            /\ c.items = k.items /\ c.known = k.known /\ c.got = k.got
<1> DEFINE one == 1
           c == [k EXCEPT !.next = one, !.at = at]
<1>0. one \in Nat \ {0}
  OBVIOUS
<1>1. c \in Command
  <2> HIDE DEF one
  <2>1. QED BY <1>0 DEF Command
<1>2. /\ c.next = 1 /\ c.at = at
      /\ c.name = k.name /\ c.dir = k.dir /\ c.export = k.export /\ c.alone = k.alone
      /\ c.items = k.items /\ c.known = k.known /\ c.got = k.got
  BY DEF Command
<1>3. QED BY <1>1, <1>2

(* A list that is written is the newest there is. *)
LEMMA WriteListStep ==
  ASSUME BundlesInv, NEW p \in Process, WriteList(p)
  PROVE  BundlesInv'
<1> DEFINE d == command[p].dir
           i == command[p].next
           export == command[p].export
           lists == [bundle[d].lists EXCEPT ![i] = export]
           b == [bundle[d] EXCEPT !.lists = lists, !.torn = @ \ {i}]
           at == IF ~ManifestLast(d) THEN "done" ELSE IF command[p].hydrates THEN "known" ELSE "items"
           c == IF i < Lists THEN [command[p] EXCEPT !.next = i + 1]
                ELSE [command[p] EXCEPT !.next = 1, !.at = at]
<1>1. /\ command[p].at = "lists" /\ Goes(p, c) /\ Put(d, b)
      /\ UNCHANGED <<clock, cached, losses, index>>
  BY DEF WriteList, At
<1>2. /\ Exporting(p) /\ Exports(command[p]) /\ d \in Dir /\ export > 0 /\ export \in Nat
      /\ export <= Len(losses) /\ command[p] \in Command /\ Staged(command[p])
      /\ CommandFresh(command[p]) /\ Vouches(command[p]) /\ (command[p].alone => Settled(command[p]))
      /\ bundle[d] \in Bundle /\ bundle[d].manifest.export <= Len(losses)
      /\ \A j \in 1..Lists : bundle[d].lists[j] <= Len(losses)
      /\ d \in Guide => Ordered(d)
  BY <1>1, AtWork DEF Writes
<1>3. i \in 1..Lists /\ Lists \in Nat \ {0}
  BY <1>1, <1>2, BundlesAssumption DEF Staged
<1>4. /\ lists \in [1..Lists -> Nat] /\ lists[i] = export
      /\ \A j \in (1..Lists) \ {i} : lists[j] = bundle[d].lists[j]
  BY <1>2, <1>3 DEF Bundle
<1> HIDE DEF lists
<1>5. /\ b \in Bundle /\ b.lists = lists /\ b.manifest = bundle[d].manifest /\ b.items = bundle[d].items
      /\ b.file = bundle[d].file /\ b.torn = bundle[d].torn \ {i} /\ b.contested = bundle[d].contested
  BY <1>2, <1>4 DEF Bundle
<1> HIDE DEF b
<1>6. /\ at \in {"done", "known", "items"} /\ at \in Steps
      /\ at = "done" <=> d \notin Guide
  BY DEF ManifestLast, Steps
<1> HIDE DEF at
<1>7. /\ c \in Command
      /\ c.name = command[p].name /\ c.dir = d /\ c.export = export /\ c.alone = command[p].alone
      /\ c.items = command[p].items /\ c.known = command[p].known /\ c.got = command[p].got
      /\ (i < Lists /\ c.at = "lists" /\ c.next = i + 1) \/ (i = Lists /\ c.at = at)
  <2>1. i + 1 \in Nat \ {0}
    BY <1>3
  <2>2. CASE i < Lists
    <3>1. c = [command[p] EXCEPT !.next = i + 1]
      BY <2>2
    <3> HIDE DEF c
    <3>2. QED BY <1>1, <1>2, <2>1, <2>2, <3>1 DEF Command
  <2>3. CASE ~(i < Lists)
    <3>1. c = [command[p] EXCEPT !.next = 1, !.at = at] /\ i = Lists
      BY <1>3, <2>3
    <3>2. command[p] \in Command /\ at \in Steps
      BY <1>2, <1>6
    <3> HIDE DEF c
    <3>3. /\ c \in Command
          /\ c.name = command[p].name /\ c.dir = command[p].dir /\ c.export = command[p].export
          /\ c.alone = command[p].alone /\ c.items = command[p].items
          /\ c.known = command[p].known /\ c.got = command[p].got /\ c.at = at
      BY <3>1, <3>2, Reset
    <3>4. QED BY <3>1, <3>3
  <2>4. QED BY <2>2, <2>3
<1> HIDE DEF c
<1>8. Staged(c)
  <2>1. c.at = "lists" => c.next \in 1..Lists
    BY <1>3, <1>6, <1>7
  <2>2. Exports(c) /\ c.name # "query" /\ c.at \in {"lists", "done", "known", "items"}
    BY <1>2, <1>6, <1>7 DEF Exports
  <2>3. c.at \in {"known", "items"} => c.dir \in Guide
    BY <1>6, <1>7
  <2>4. QED BY <1>2, <1>7, <2>1, <2>2, <2>3 DEF Staged, Writes
<1>9. command'[p] = c /\ bundle'[d] = b
  BY <1>1, <1>2, <1>5, <1>7, Went, Kept DEF BundlesInv
<1>10. \A j \in 1..Lists : (c.at = "lists" => j < c.next) => j = i \/ j \in Written(command[p])
  BY <1>1, <1>3, <1>6, <1>7 DEF Written
<1>11. CommandFresh(command[p])'
  <2>1. c.at # "manifest"
    BY <1>6, <1>7
  <2>2. QED BY <1>1, <1>2, <1>5, <1>7, <1>9, <2>1 DEF CommandFresh, Fetched, Recent
<1>12. AnswersRight(command[p])'
  BY <1>2, <1>7, <1>9 DEF AnswersRight, Exports
<1>13. d \in Guide /\ ~b.contested =>
         /\ bundle[d].manifest.export <= export
         /\ \A j \in 1..Lists : bundle[d].lists[j] <= export
         /\ \A j \in Written(command[p]) : bundle[d].lists[j] = export
         /\ \A j \in 1..Lists : bundle[d].lists[j] >= bundle[d].manifest.export
  BY <1>1, <1>2, <1>5 DEF Vouches, Ordered
<1>14. Vouches(command[p])'
  <2>1. c.at # "read"
    BY <1>6, <1>7
  <2>2. \A j \in 1..Lists : bundle[d].lists[j] \in Nat
    BY <1>2 DEF Bundle
  <2>3. d \in Guide /\ ~b.contested =>
          /\ b.manifest.export <= export
          /\ \A j \in 1..Lists : b.lists[j] <= export
          /\ \A j \in 1..Lists : (c.at = "lists" => j < c.next) => b.lists[j] = export
    BY <1>2, <1>4, <1>5, <1>10, <1>13, <2>2
  <2>4. QED BY <1>7, <1>9, <2>1, <2>3 DEF Vouches, Written
<1>15. c.alone => command[p].alone /\ Settled(command[p])'
  <2>1. SUFFICES ASSUME command[p].alone PROVE Settled(command[p])'
    BY <1>7
  <2>2. d \in Guide => \A j \in Written(command[p]) : bundle[d].lists[j] = export /\ j \notin bundle[d].torn
    BY <1>2, <2>1 DEF Settled
  <2>3. d \in Guide => \A j \in 1..Lists : (c.at = "lists" => j < c.next) => b.lists[j] = export /\ j \notin b.torn
    BY <1>4, <1>5, <1>10, <2>2
  <2>4. c.at \notin {"manifest", "scan", "index"} /\ (d \in Guide => c.at # "done") /\ c.name # "rebuild"
    BY <1>2, <1>6, <1>7 DEF Exports
  <2>5. QED BY <1>7, <1>9, <2>3, <2>4 DEF Settled, Written
<1>16. \A j \in 1..Lists : b.lists[j] <= Len(losses)
  BY <1>2, <1>4, <1>5
<1>17. d \in Guide /\ ~b.contested =>
         \A j \in 1..Lists : b.lists[j] >= b.manifest.export /\ b.lists[j] >= bundle[d].lists[j]
  <2>1. bundle[d].manifest.export \in Nat /\ \A j \in 1..Lists : bundle[d].lists[j] \in Nat
    BY <1>2 DEF Bundle, Manifest
  <2>2. QED BY <1>2, <1>4, <1>5, <1>13, <2>1
<1>18. /\ cached' \in [1..Entities -> Int] /\ d = On(p) /\ c.export <= Len(losses)
       /\ b.manifest.export <= Len(losses) /\ c.dir = d
       /\ \A e \in 1..Entities : b.file[e] >= bundle[d].file[e]
       /\ b.manifest.exported = bundle[d].manifest.exported
  <2>1. \A e \in 1..Entities : bundle[d].file[e] \in Int
    BY <1>2 DEF Bundle
  <2>2. QED BY <1>1, <1>2, <1>5, <1>7, <2>1 DEF BundlesInv, BundlesTyped, On
<1>19. QED BY <1>1, <1>2, <1>5, <1>7, <1>8, <1>11, <1>12, <1>14, <1>15, <1>16, <1>17, <1>18, WritesTo

(* An entity that is stored is from the cache or new. *)
LEMMA StoreEntityStep ==
  ASSUME BundlesInv, NEW p \in Process, StoreEntity(p)
  PROVE  BundlesInv'
<1> DEFINE d == command[p].dir
           e == command[p].next
           fetched == IF clock - cached[e] <= EntityTTL THEN cached[e] ELSE clock
           b == [bundle[d] EXCEPT !.file[e] = fetched, !.torn = @ \ {EntityFile(e)}]
           c == Summary(command[p], clock)
           new == [entity |-> e, stored |-> clock]
<1>1. /\ command[p].at = "entities" /\ Goes(p, c) /\ Put(d, b) /\ e <= Entities
      /\ cached' = [cached EXCEPT ![e] = fetched] /\ UNCHANGED <<clock, losses, index>>
  BY DEF StoreEntity, At
<1>2. /\ Exporting(p) /\ Exports(command[p]) /\ d \in Dir /\ command[p].export > 0
      /\ command[p].export <= Len(losses) /\ command[p] \in Command /\ Staged(command[p])
      /\ CommandFresh(command[p]) /\ Vouches(command[p]) /\ (command[p].alone => Settled(command[p]))
      /\ bundle[d] \in Bundle /\ bundle[d].manifest.export <= Len(losses)
      /\ \A j \in 1..Lists : bundle[d].lists[j] <= Len(losses)
      /\ d \in Guide => Ordered(d)
  BY <1>1, AtWork DEF Writes
<1>3. d \in Guide
  BY <1>1, <1>2 DEF Staged
<1>4. e \in 1..Entities /\ clock \in Nat /\ EntityTTL \in Nat /\ MaxAge \in Nat
  BY <1>1, <1>2, BundlesAssumption DEF Command, BundlesInv, BundlesTyped
<1>5. cached[e] \in Int /\ cached \in [1..Entities -> Int]
  BY <1>4 DEF BundlesInv, BundlesTyped
<1>6. fetched \in Int /\ fetched >= clock - EntityTTL
  BY <1>4, <1>5
<1> HIDE DEF fetched
<1>7. cached' \in [1..Entities -> Int]
  BY <1>1, <1>5, <1>6
<1>8. c \in Command
  BY <1>2, <1>4, SummaryTyped
<1>9. /\ c.name = command[p].name /\ c.at = "entities" /\ c.dir = d /\ c.alone = command[p].alone
      /\ c.export = command[p].export /\ c.known = command[p].known
      /\ c.items = command[p].items \cup {new}
  BY <1>1, <1>2, SummaryFields
<1> HIDE DEF c
<1>10. /\ b \in Bundle /\ b.lists = bundle[d].lists /\ b.manifest = bundle[d].manifest
       /\ b.items = bundle[d].items /\ b.contested = bundle[d].contested
       /\ b.torn \subseteq bundle[d].torn /\ b.file[e] = fetched
       /\ \A x \in (1..Entities) \ {e} : b.file[x] = bundle[d].file[x]
  BY <1>2, <1>4, <1>6 DEF Bundle
<1> HIDE DEF b
<1>11. \A x \in 1..Entities : b.file[x] >= bundle[d].file[x] \/ b.file[x] >= clock - EntityTTL
  <2>1. \A x \in 1..Entities : bundle[d].file[x] \in Int
    BY <1>2 DEF Bundle
  <2>2. QED BY <1>4, <1>6, <1>10, <2>1
<1>12. command'[p] = c /\ bundle'[d] = b
  BY <1>1, <1>2, <1>8, <1>10, Went, Kept DEF BundlesInv
<1>13. Staged(c)
  BY <1>2, <1>3, <1>9 DEF Staged, Exports, Writes
<1>14. CommandFresh(command[p])'
  <2> DEFINE Lasts(x) == x.stored <= clock /\ b.file[x.entity] >= x.stored - EntityTTL
  <2>1. ASSUME NEW x \in Item, Fetched(d, x) PROVE Lasts(x)
    <3>1. x.entity \in 1..Entities /\ x.stored \in Int
      BY DEF Item
    <3>2. b.file[x.entity] \in Int /\ bundle[d].file[x.entity] \in Int
      BY <1>2, <1>10, <3>1 DEF Bundle
    <3>3. b.file[x.entity] >= bundle[d].file[x.entity] \/ b.file[x.entity] >= clock - EntityTTL
      BY <1>11, <3>1
    <3>4. QED BY <1>4, <2>1, <3>1, <3>2, <3>3 DEF Fetched
  <2>2. command[p].items \subseteq Item /\ command[p].known \subseteq Item
    BY <1>2 DEF Command, Summaries
  <2>3. /\ \A x \in command[p].items : Fetched(d, x) /\ Recent(x)
        /\ \A x \in command[p].known : Fetched(d, x)
    BY <1>1, <1>2, <1>3 DEF CommandFresh
  <2>4. /\ \A x \in command[p].items : Lasts(x) /\ Recent(x)
        /\ \A x \in command[p].known : Lasts(x)
    BY <2>1, <2>2, <2>3
  <2>5. Lasts(new) /\ Recent(new)
    BY <1>4, <1>6, <1>10 DEF Recent
  <2>6. (\A x \in c.items : Lasts(x) /\ Recent(x)) /\ \A x \in c.known : Lasts(x)
    <3> HIDE DEF new, Lasts
    <3>1. QED BY <1>9, <2>4, <2>5
  <2>7. clock' = clock /\ bundle'[command'[p].dir] = b /\ command'[p].at = "entities"
    BY <1>1, <1>9, <1>12
  <2>8. QED BY <1>12, <2>6, <2>7 DEF CommandFresh, Fetched, Recent
<1>15. Vouches(command[p])' /\ AnswersRight(command[p])'
  BY <1>1, <1>2, <1>9, <1>10, <1>12 DEF Vouches, AnswersRight, Written
<1>16. c.alone => command[p].alone /\ Settled(command[p])'
  BY <1>1, <1>2, <1>9, <1>10, <1>12 DEF Settled, Written
<1>17. d \in Guide /\ ~b.contested =>
         \A j \in 1..Lists : b.lists[j] >= b.manifest.export /\ b.lists[j] >= bundle[d].lists[j]
  <2>1. \A j \in 1..Lists : bundle[d].lists[j] \in Nat
    BY <1>2 DEF Bundle
  <2>2. QED BY <1>2, <1>10, <2>1 DEF Ordered
<1>18. /\ \A j \in 1..Lists : b.lists[j] <= Len(losses)
       /\ d = On(p) /\ c.export <= Len(losses)
       /\ b.manifest.export <= Len(losses) /\ c.dir = d
       /\ b.manifest.exported = bundle[d].manifest.exported
  BY <1>2, <1>9, <1>10 DEF On
<1>19. QED BY <1>1, <1>2, <1>7, <1>8, <1>10, <1>11, <1>13, <1>14, <1>15, <1>16, <1>17, <1>18, WritesTo

(* The summaries that are written are recent. *)
LEMMA WriteItemsStep ==
  ASSUME BundlesInv, NEW p \in Process, WriteItems(p)
  PROVE  BundlesInv'
<1> DEFINE d == command[p].dir
           items == command[p].items
           hydrated == IF items = {} THEN Never ELSE clock
           b == [bundle[d] EXCEPT !.items = items, !.torn = @ \ {ItemsFile}]
           c == [command[p] EXCEPT !.at = "manifest", !.hydrated = hydrated]
<1>1. /\ command[p].at \in {"entities", "items"} /\ Goes(p, c) /\ Put(d, b)
      /\ UNCHANGED <<clock, cached, losses, index>>
  BY DEF WriteItems, At, Items
<1>2. /\ Exporting(p) /\ Exports(command[p]) /\ d \in Dir /\ command[p].export > 0
      /\ command[p].export <= Len(losses) /\ command[p] \in Command /\ Staged(command[p])
      /\ CommandFresh(command[p]) /\ Vouches(command[p]) /\ (command[p].alone => Settled(command[p]))
      /\ bundle[d] \in Bundle /\ bundle[d].manifest.export <= Len(losses)
      /\ \A j \in 1..Lists : bundle[d].lists[j] <= Len(losses)
      /\ d \in Guide => Ordered(d)
  BY <1>1, AtWork DEF Writes
<1>3. d \in Guide
  BY <1>1, <1>2 DEF Staged
<1>4. items \in Summaries /\ clock \in Nat
  BY <1>2 DEF Command, BundlesInv, BundlesTyped
<1>5. hydrated \in Int
  BY <1>4, BundlesAssumption DEF Never
<1> HIDE DEF hydrated
<1>6. /\ c \in Command /\ c.name = command[p].name /\ c.at = "manifest" /\ c.dir = d
      /\ c.alone = command[p].alone /\ c.export = command[p].export /\ c.known = command[p].known
      /\ c.items = items
  BY <1>2, <1>5 DEF Command, Steps
<1> HIDE DEF c
<1>7. /\ b \in Bundle /\ b.lists = bundle[d].lists /\ b.manifest = bundle[d].manifest
      /\ b.items = items /\ b.contested = bundle[d].contested /\ b.file = bundle[d].file
      /\ b.torn = bundle[d].torn \ {ItemsFile}
  BY <1>2, <1>4 DEF Bundle
<1> HIDE DEF b
<1>8. command'[p] = c /\ bundle'[d] = b
  BY <1>1, <1>2, <1>6, <1>7, Went, Kept DEF BundlesInv
<1>9. Staged(c)
  BY <1>2, <1>3, <1>6 DEF Staged, Exports, Writes
<1>10. /\ \A x \in items : Fetched(d, x) /\ Recent(x)
       /\ \A x \in command[p].known : Fetched(d, x)
  BY <1>1, <1>2, <1>3 DEF CommandFresh
<1>11. CommandFresh(command[p])'
  BY <1>1, <1>6, <1>7, <1>8, <1>10 DEF CommandFresh, Fetched, Recent
<1>12. Vouches(command[p])' /\ AnswersRight(command[p])'
  BY <1>1, <1>2, <1>6, <1>7, <1>8 DEF Vouches, AnswersRight, Written
<1>13. c.alone => command[p].alone /\ Settled(command[p])'
  BY <1>1, <1>2, <1>6, <1>7, <1>8 DEF Settled, Written
<1>14. d \in Guide /\ ~b.contested =>
         \A j \in 1..Lists : b.lists[j] >= b.manifest.export /\ b.lists[j] >= bundle[d].lists[j]
  <2>1. \A j \in 1..Lists : bundle[d].lists[j] \in Nat
    BY <1>2 DEF Bundle
  <2>2. QED BY <1>2, <1>7, <2>1 DEF Ordered
<1>15. \A x \in b.items : Recent(x) /\ x.stored <= clock /\ b.file[x.entity] >= x.stored - EntityTTL
  BY <1>7, <1>10 DEF Fetched
<1>16. \A x \in 1..Entities : b.file[x] >= bundle[d].file[x]
  <2>1. \A x \in 1..Entities : bundle[d].file[x] \in Int
    BY <1>2 DEF Bundle
  <2>2. QED BY <1>7, <2>1
<1>17. /\ \A j \in 1..Lists : b.lists[j] <= Len(losses)
       /\ d = On(p) /\ c.export <= Len(losses) /\ b.manifest.export <= Len(losses) /\ c.dir = d
       /\ b.manifest.exported = bundle[d].manifest.exported
       /\ cached' \in [1..Entities -> Int]
  BY <1>1, <1>2, <1>6, <1>7 DEF On, BundlesInv, BundlesTyped
<1>18. QED BY <1>1, <1>2, <1>6, <1>7, <1>9, <1>11, <1>12, <1>13, <1>14, <1>15, <1>16, <1>17, WritesTo

(* The manifest comes last, when all else is this export's. *)
LEMMA WriteManifestStep ==
  ASSUME BundlesInv, NEW p \in Process, WriteManifest(p)
  PROVE  BundlesInv'
<1> DEFINE d == command[p].dir
           export == command[p].export
           items == Cardinality(command[p].items)
           hydrates == command[p].hydrates
           hydrated == command[p].hydrated
           manifest == [export |-> export, exported |-> clock, hydrates |-> hydrates,
                        hydrated |-> hydrated, items |-> items]
           b == [bundle[d] EXCEPT !.torn = @ \ {ManifestFile}, !.manifest = manifest]
           at == IF ManifestLast(d) THEN "scan" ELSE "lists"
           c == [command[p] EXCEPT !.next = 1, !.at = at]
<1>1. /\ command[p].at = "manifest" /\ Goes(p, c) /\ Put(d, b)
      /\ UNCHANGED <<clock, cached, losses, index>>
  BY DEF WriteManifest, At
<1>2. /\ Exporting(p) /\ Exports(command[p]) /\ d \in Dir /\ export > 0 /\ export \in Nat
      /\ export <= Len(losses) /\ command[p] \in Command /\ Staged(command[p])
      /\ CommandFresh(command[p]) /\ Vouches(command[p]) /\ (command[p].alone => Settled(command[p]))
      /\ bundle[d] \in Bundle /\ bundle[d].manifest.export <= Len(losses)
      /\ \A j \in 1..Lists : bundle[d].lists[j] <= Len(losses)
      /\ d \in Guide => Ordered(d)
  BY <1>1, AtWork DEF Writes
<1>3. items \in Nat /\ hydrates \in BOOLEAN /\ hydrated \in Int /\ clock \in Nat
  BY <1>2, FS_CardinalityType DEF Command, Summaries, BundlesInv, BundlesTyped
<1>4. manifest \in Manifest /\ manifest.export = export /\ manifest.exported = clock /\ manifest.items = items
  <2> HIDE DEF items, hydrates, hydrated, export
  <2>1. QED BY <1>2, <1>3 DEF Manifest
<1> HIDE DEF manifest
<1>5. /\ b \in Bundle /\ b.lists = bundle[d].lists /\ b.manifest = manifest /\ b.items = bundle[d].items
      /\ b.file = bundle[d].file /\ b.torn = bundle[d].torn \ {ManifestFile}
      /\ b.contested = bundle[d].contested
  BY <1>2, <1>4 DEF Bundle
<1> HIDE DEF b
<1>6. at \in Steps /\ at \in {"scan", "lists"} /\ (at = "scan" <=> d \in Guide)
  BY DEF Steps, ManifestLast
<1> HIDE DEF at
<1>7. /\ c \in Command /\ c.next = 1 /\ c.at = at
      /\ c.name = command[p].name /\ c.dir = d /\ c.export = export /\ c.alone = command[p].alone
      /\ c.items = command[p].items /\ c.known = command[p].known
  BY <1>2, <1>6, Reset
<1> HIDE DEF c
<1>8. command'[p] = c /\ bundle'[d] = b
  BY <1>1, <1>2, <1>5, <1>7, Went, Kept DEF BundlesInv
<1>9. Staged(c)
  <2>1. 1 \in 1..Lists
    BY BundlesAssumption
  <2>2. Exports(c) /\ c.name # "query"
    BY <1>2, <1>7 DEF Exports
  <2>3. QED BY <1>2, <1>6, <1>7, <2>1, <2>2 DEF Staged, Writes
<1>10. CommandFresh(command[p])'
  <2>1. c.at # "manifest"
    BY <1>6, <1>7
  <2>2. QED BY <1>1, <1>2, <1>5, <1>7, <1>8, <2>1 DEF CommandFresh, Fetched, Recent
<1>11. AnswersRight(command[p])'
  BY <1>6, <1>7, <1>8 DEF AnswersRight
<1>12. d \in Guide /\ ~b.contested =>
         /\ \A j \in 1..Lists : bundle[d].lists[j] = export
         /\ \A j \in 1..Lists : bundle[d].lists[j] \in Nat
  BY <1>1, <1>2, <1>5 DEF Vouches, Written
<1>13. Vouches(command[p])'
  <2>1. c.at # "read"
    BY <1>6, <1>7
  <2>2. d \in Guide /\ ~b.contested => b.manifest.export <= export /\ \A j \in 1..Lists : b.lists[j] <= export
    BY <1>2, <1>4, <1>5, <1>12
  <2>3. QED BY <1>5, <1>7, <1>8, <1>12, <2>1, <2>2 DEF Vouches, Written
<1>14. c.alone => command[p].alone /\ Settled(command[p])'
  <2>1. SUFFICES ASSUME command[p].alone PROVE Settled(command[p])'
    BY <1>7
  <2>2. d \in Guide =>
          /\ \A j \in 1..Lists : bundle[d].lists[j] = export /\ j \notin bundle[d].torn
          /\ bundle[d].items = command[p].items /\ ItemsFile \notin bundle[d].torn
    BY <1>1, <1>2, <2>1 DEF Settled, Written
  <2>3. d \in Guide =>
          /\ \A j \in 1..Lists : b.lists[j] = export /\ j \notin b.torn
          /\ ManifestFile \notin b.torn /\ ItemsFile \notin b.torn
          /\ b.manifest.export = export /\ b.manifest.items = Cardinality(b.items)
    BY <1>4, <1>5, <2>2
  <2>4. c.at \in {"scan", "lists"}
    BY <1>6, <1>7
  <2>5. QED BY <1>7, <1>8, <2>3, <2>4 DEF Settled, Written
<1>15. d \in Guide /\ ~b.contested =>
         \A j \in 1..Lists : b.lists[j] >= b.manifest.export /\ b.lists[j] >= bundle[d].lists[j]
  BY <1>2, <1>4, <1>5, <1>12
<1>16. d \in Guide => b.manifest.exported = clock /\ \A x \in b.items : Recent(x)
  BY <1>1, <1>2, <1>4, <1>5 DEF CommandFresh
<1>17. \A x \in 1..Entities : b.file[x] >= bundle[d].file[x]
  <2>1. \A x \in 1..Entities : bundle[d].file[x] \in Int
    BY <1>2 DEF Bundle
  <2>2. QED BY <1>5, <2>1
<1>18. /\ \A j \in 1..Lists : b.lists[j] <= Len(losses)
       /\ d = On(p) /\ c.export <= Len(losses) /\ b.manifest.export <= Len(losses) /\ c.dir = d
       /\ cached' \in [1..Entities -> Int]
  BY <1>1, <1>2, <1>4, <1>5, <1>7 DEF On, BundlesInv, BundlesTyped
<1>19. QED BY <1>1, <1>2, <1>5, <1>7, <1>9, <1>10, <1>11, <1>13, <1>14, <1>15, <1>16, <1>17, <1>18, WritesTo

(* A torn file keeps its old content for who can read it. *)
LEMMA TearFileStep ==
  ASSUME BundlesInv, NEW p \in Process, TearFile(p)
  PROVE  BundlesInv'
<1> DEFINE d == command[p].dir
<1>1. PICK f \in Writing(command[p]) : Put(d, [bundle[d] EXCEPT !.torn = @ \cup {f}])
  BY DEF TearFile
<1> DEFINE b == [bundle[d] EXCEPT !.torn = @ \cup {f}]
<1>2. Goes(p, Idle) /\ UNCHANGED <<clock, cached, losses, index>>
  BY DEF TearFile
<1>3. command[p].at \in {"lists", "entities", "manifest"}
  BY DEF Writing
<1>4. /\ Exporting(p) /\ d \in Dir /\ command[p] \in Command
      /\ bundle[d] \in Bundle /\ bundle[d].manifest.export <= Len(losses)
      /\ \A j \in 1..Lists : bundle[d].lists[j] <= Len(losses)
      /\ d \in Guide => Ordered(d)
  BY <1>3, AtWork DEF Writes
<1>5. f \in Int
  <2>1. command[p].next \in Nat /\ Lists \in Nat
    BY <1>4, BundlesAssumption DEF Command
  <2>2. QED BY <2>1 DEF Writing, EntityFile, ItemsFile, ManifestFile
<1>6. /\ b \in Bundle /\ b.lists = bundle[d].lists /\ b.manifest = bundle[d].manifest
      /\ b.items = bundle[d].items /\ b.file = bundle[d].file /\ b.contested = bundle[d].contested
  BY <1>4, <1>5 DEF Bundle
<1> HIDE DEF b
<1>7. Put(d, b)
  BY <1>1 DEF b
<1>8. Idle.at = "idle" /\ Idle.export = 0 /\ ~Idle.alone /\ Idle.name = "-"
  BY DEF Idle
<1>9. Idle \in Command /\ Staged(Idle)
  BY NoneTyped
<1>10. command'[p] = Idle
  BY <1>2, <1>9, Went DEF BundlesInv
<1>11. CommandFresh(command[p])' /\ Vouches(command[p])' /\ AnswersRight(command[p])'
  BY <1>8, <1>10 DEF CommandFresh, Vouches, AnswersRight
<1>12. d \in Guide /\ ~b.contested =>
         \A j \in 1..Lists : b.lists[j] >= b.manifest.export /\ b.lists[j] >= bundle[d].lists[j]
  <2>1. \A j \in 1..Lists : bundle[d].lists[j] \in Nat
    BY <1>4 DEF Bundle
  <2>2. QED BY <1>4, <1>6, <2>1 DEF Ordered
<1>13. \A x \in 1..Entities : b.file[x] >= bundle[d].file[x]
  <2>1. \A x \in 1..Entities : bundle[d].file[x] \in Int
    BY <1>4 DEF Bundle
  <2>2. QED BY <1>6, <2>1
<1>14. /\ \A j \in 1..Lists : b.lists[j] <= Len(losses)
       /\ d = On(p) /\ Idle.export <= Len(losses) /\ b.manifest.export <= Len(losses)
       /\ b.manifest.exported = bundle[d].manifest.exported
       /\ cached' \in [1..Entities -> Int]
  BY <1>2, <1>4, <1>6, <1>8 DEF On, BundlesInv, BundlesTyped
<1>15. QED BY <1>2, <1>4, <1>6, <1>7, <1>8, <1>9, <1>11, <1>12, <1>13, <1>14, WritesTo

-----------------------------------------------------------------------------
(* A command has answered, or the user deletes a bundle.                    *)

LEMMA FinishStep ==
  ASSUME BundlesInv, NEW p \in Process, Finish(p)
  PROVE  BundlesInv'
<1> DEFINE settling == command[p].export > 0 /\ command[p].alone
<1>1. /\ command[p].at = "done" /\ Goes(p, Idle) /\ UNCHANGED <<clock, cached, losses, index>>
      /\ bundle' = IF settling THEN [bundle EXCEPT ![command[p].dir].contested = FALSE] ELSE bundle
  BY DEF Finish, At
<1>2. PICK d : d = command[p].dir
  OBVIOUS
<1>3. /\ command[p] \in Command /\ Staged(command[p]) /\ (command[p].alone => Settled(command[p]))
      /\ command[p].export > 0 => d \in Dir
  BY <1>2, Known DEF Staged
<1>4. Idle.at = "idle" /\ Idle.export = 0 /\ ~Idle.alone /\ Idle.name = "-" /\ Idle \in Command /\ Staged(Idle)
  BY NoneTyped DEF Idle
<1>5. /\ command'[p] = Idle
      /\ \A o \in Process \ {p} : command'[o] = command[o]
      /\ command' \in [Process -> Command] /\ \A o \in Process : Staged(command'[o])
  BY <1>1, <1>4, Went DEF BundlesInv
<1>6. /\ bundle' \in [Dir -> Bundle] /\ SameFiles
      /\ \A x \in Dir : bundle'[x].contested = IF settling /\ x = d THEN FALSE ELSE bundle[x].contested
  <2>1. CASE settling
    <3> DEFINE b == [bundle[d] EXCEPT !.contested = FALSE]
    <3>1. bundle' = [bundle EXCEPT ![d] = b] /\ d \in Dir
      BY <1>1, <1>2, <1>3, <2>1
    <3>2. bundle[d] \in Bundle
      BY <3>1 DEF BundlesInv, BundlesTyped
    <3>3. /\ b \in Bundle /\ b.lists = bundle[d].lists /\ b.manifest = bundle[d].manifest
          /\ b.items = bundle[d].items /\ b.file = bundle[d].file /\ b.torn = bundle[d].torn
          /\ b.contested = FALSE
      BY <3>2 DEF Bundle
    <3> HIDE DEF b
    <3>4. bundle'[d] = b /\ (\A x \in Dir \ {d} : bundle'[x] = bundle[x]) /\ bundle' \in [Dir -> Bundle]
      BY <3>1, <3>3 DEF BundlesInv, BundlesTyped
    <3>5. QED BY <2>1, <3>3, <3>4 DEF SameFiles
  <2>2. CASE ~settling
    BY <1>1, <2>2 DEF BundlesInv, BundlesTyped, SameFiles
  <2>3. QED BY <2>1, <2>2
<1>7. BundlesTyped'
  BY <1>1, <1>5, <1>6 DEF BundlesInv, BundlesTyped, Staged
<1>8. Guide \subseteq Dir
  BY DEF Dir
<1>9. EntitiesAge'
  <2>1. ASSUME NEW x \in Guide PROVE bundle'[x].manifest.exported <= clock' /\ BundleFresh(x)'
    BY <1>1, <1>6, <1>8 DEF BundlesInv, EntitiesAge, SameFiles, BundleFresh, Fetched
  <2>2. ASSUME NEW o \in Process PROVE CommandFresh(command[o])'
    <3>1. CASE o = p
      BY <1>4, <1>5, <3>1 DEF CommandFresh
    <3>2. CASE o # p
      <4> DEFINE k == command[o]
      <4>1. command'[o] = k /\ CommandFresh(k)
        BY <1>5, <3>2 DEF BundlesInv, EntitiesAge
      <4>2. k.dir \in Guide => bundle'[k.dir].items = bundle[k.dir].items /\ bundle'[k.dir].file = bundle[k.dir].file
        BY <1>6, <1>8 DEF SameFiles
      <4>3. QED BY <1>1, <4>1, <4>2 DEF CommandFresh, Fetched, Recent
    <3>3. QED BY <3>1, <3>2
  <2>3. QED BY <2>1, <2>2 DEF EntitiesAge
<1>10. settling => \A o \in Process \ {p} : ~Working(o)
  BY DEF BundlesInv, LoneCommands
<1>11. WritesInOrder'
  <2>1. Counted'
    <3>1. 0 <= Len(losses)
      BY Known
    <3>2. QED BY <1>1, <1>4, <1>5, <1>6, <3>1 DEF BundlesInv, WritesInOrder, Counted, SameFiles
  <2>2. \A o \in Process : Exporting(o)' => o # p /\ Exporting(o) /\ On(o)' = On(o)
    BY <1>4, <1>5 DEF Exporting, Working, On
  <2>3. ASSUME NEW x \in Guide PROVE Ordered(x)'
    <3>1. CASE settling /\ x = d
      <4>1. \A i \in 1..Lists : bundle[d].lists[i] = command[p].export
        BY <1>1, <1>2, <1>3, <3>1 DEF Settled, Written
      <4>2. bundle[d].manifest.export = command[p].export /\ command[p].export \in Nat
        BY <1>1, <1>2, <1>3, <3>1 DEF Settled, Command
      <4>3. \A o \in Process : ~Exporting(o)'
        BY <1>10, <2>2, <3>1 DEF Exporting
      <4>4. bundle'[d].lists = bundle[d].lists /\ bundle'[d].manifest = bundle[d].manifest
        BY <1>6, <1>8, <3>1 DEF SameFiles
      <4>5. QED BY <3>1, <4>1, <4>2, <4>3, <4>4 DEF Ordered
    <3>2. CASE ~(settling /\ x = d)
      <4>1. /\ bundle'[x].contested = bundle[x].contested /\ bundle'[x].lists = bundle[x].lists
            /\ bundle'[x].manifest = bundle[x].manifest
        BY <1>6, <1>8, <3>2 DEF SameFiles
      <4>2. Ordered(x)
        BY DEF BundlesInv, WritesInOrder
      <4>3. QED BY <2>2, <4>1, <4>2 DEF Ordered
    <3>3. QED BY <3>1, <3>2
  <2>4. ASSUME NEW o \in Process PROVE Vouches(command[o])' /\ AnswersRight(command[o])'
    <3>1. CASE o = p
      BY <1>4, <1>5, <3>1 DEF Vouches, AnswersRight
    <3>2. CASE o # p
      <4> DEFINE k == command[o]
      <4>1. command'[o] = k /\ Vouches(k) /\ AnswersRight(k)
        BY <1>5, <3>2 DEF BundlesInv, WritesInOrder
      <4>2. AnswersRight(command[o])'
        BY <4>1 DEF AnswersRight
      <4>3. CASE settling
        <5>1. k.at \in {"idle", "done"}
          BY <1>10, <3>2, <4>3 DEF Working
        <5>2. QED BY <4>1, <4>2, <5>1 DEF Vouches
      <4>4. CASE ~settling
        <5>1. bundle' = bundle
          BY <1>1, <4>4
        <5>2. QED BY <4>1, <4>2, <5>1 DEF Vouches, Written
      <4>5. QED BY <4>3, <4>4
    <3>3. QED BY <3>1, <3>2
  <2>5. QED BY <2>1, <2>3, <2>4 DEF WritesInOrder
<1>12. LoneCommands'
  <2>1. Scan' = Scan
    BY <1>6, ScanKept DEF BundlesInv
  <2>2. \A o \in Process : Working(o)' => Working(o)
    BY <1>4, <1>5 DEF Working
  <2>3. ASSUME NEW o \in Process, command'[o].alone
        PROVE  (\A q \in Process \ {o} : ~Working(q)') /\ Settled(command[o])'
    <3> DEFINE k == command[o]
    <3>1. o # p
      BY <1>4, <1>5, <2>3
    <3>2. command'[o] = k /\ Settled(k) /\ \A q \in Process \ {o} : ~Working(q)
      BY <1>5, <2>3, <3>1 DEF BundlesInv, LoneCommands
    <3>3. k.dir \in Guide =>
            /\ bundle'[k.dir].lists = bundle[k.dir].lists /\ bundle'[k.dir].manifest = bundle[k.dir].manifest
            /\ bundle'[k.dir].items = bundle[k.dir].items /\ bundle'[k.dir].torn = bundle[k.dir].torn
      BY <1>6, <1>8 DEF SameFiles
    <3>4. Settled(command[o])'
      BY <1>1, <2>1, <3>2, <3>3 DEF Settled, Written
    <3>5. QED BY <2>2, <3>2, <3>4
  <2>4. QED BY <2>3 DEF LoneCommands
<1>13. QED BY <1>7, <1>9, <1>11, <1>12 DEF BundlesInv

(* Nobody is at a bundle that is deleted, and nobody was alone. *)
LEMMA RemoveStep ==
  ASSUME BundlesInv, NEW d \in Dir, Remove(d)
  PROVE  BundlesInv'
<1>1. /\ UNCHANGED <<clock, cached, losses, index>>
      /\ \A o \in Process : command[o].dir # d
      /\ command' = [o \in Process |-> [command[o] EXCEPT !.alone = FALSE]]
      /\ Put(d, NoBundle)
  BY DEF Remove, On
<1>2. /\ bundle'[d] = NoBundle /\ (\A x \in Dir \ {d} : bundle'[x] = bundle[x]) /\ bundle' \in [Dir -> Bundle]
  BY <1>1, NoneTyped, Kept DEF BundlesInv
<1>3. ASSUME NEW o \in Process
      PROVE  LET k == command[o]
                 n == command'[o]
             IN /\ n \in Command /\ Staged(n)
                /\ n.name = k.name /\ n.at = k.at /\ n.dir = k.dir /\ n.alone = FALSE /\ n.export = k.export
                /\ n.next = k.next /\ n.items = k.items /\ n.known = k.known /\ n.seen = k.seen
                /\ n.got = k.got /\ n.contested = k.contested
  <2>1. command[o] \in Command /\ Staged(command[o])
    BY DEF BundlesInv, BundlesTyped
  <2>2. command'[o] = [command[o] EXCEPT !.alone = FALSE]
    BY <1>1
  <2>3. command'[o] \in Command
    BY ONLY <2>1, <2>2 DEF Command
  <2>4. LET k == command[o]
            n == command'[o]
        IN /\ n.name = k.name /\ n.at = k.at /\ n.dir = k.dir /\ n.alone = FALSE /\ n.export = k.export
           /\ n.next = k.next /\ n.items = k.items /\ n.known = k.known /\ n.seen = k.seen
           /\ n.got = k.got /\ n.contested = k.contested
    BY ONLY <2>1, <2>2 DEF Command
  <2>5. Staged(command'[o])
    BY <2>1, <2>4 DEF Staged, Exports
  <2>6. QED BY <2>3, <2>4, <2>5
<1>4. BundlesTyped'
  <2>1. command' \in [Process -> Command] /\ \A o \in Process : Staged(command'[o])
    BY <1>1, <1>3
  <2>2. QED BY <1>1, <1>2, <2>1 DEF BundlesInv, BundlesTyped, Staged
<1>5. \A o \in Process : command[o].dir \in Guide => bundle'[command[o].dir] = bundle[command[o].dir]
  BY <1>1, <1>2 DEF Dir
<1>6. /\ NoBundle.items = {} /\ NoBundle.manifest.exported = Never /\ NoBundle.manifest.export = 0
      /\ \A i \in 1..Lists : NoBundle.lists[i] = 0
  BY DEF NoBundle, NoManifest
<1>7. EntitiesAge'
  <2>1. ASSUME NEW x \in Guide PROVE bundle'[x].manifest.exported <= clock' /\ BundleFresh(x)'
    <3>1. CASE x = d
      <4>1. Never <= clock
        BY BundlesAssumption DEF Never, BundlesInv, BundlesTyped
      <4>2. QED BY <1>1, <1>2, <1>6, <3>1, <4>1 DEF BundleFresh
    <3>2. CASE x # d
      <4>1. bundle'[x] = bundle[x]
        BY <1>2, <3>2 DEF Dir
      <4>2. QED BY <1>1, <4>1 DEF BundlesInv, EntitiesAge, BundleFresh, Fetched
    <3>3. QED BY <3>1, <3>2
  <2>2. ASSUME NEW o \in Process PROVE CommandFresh(command[o])'
    <3>1. CommandFresh(command[o])
      BY DEF BundlesInv, EntitiesAge
    <3>2. SUFFICES ASSUME command[o].at \notin {"idle", "done"}, command[o].dir \in Guide
                   PROVE  CommandFresh(command[o])'
      BY <1>3 DEF CommandFresh
    <3>3. clock' = clock /\ bundle'[command[o].dir] = bundle[command[o].dir]
      BY <1>1, <1>5, <3>2
    <3>4. /\ command'[o].at = command[o].at /\ command'[o].dir = command[o].dir
          /\ command'[o].items = command[o].items /\ command'[o].known = command[o].known
      BY <1>3
    <3>5. QED BY <3>1, <3>2, <3>3, <3>4 DEF CommandFresh, Fetched, Recent
  <2>3. QED BY <2>1, <2>2 DEF EntitiesAge
<1>8. WritesInOrder'
  <2>1. Counted'
    <3>1. Len(losses) \in Nat
      BY DEF BundlesInv, BundlesTyped
    <3>2. ASSUME NEW x \in Dir
          PROVE  bundle'[x].manifest.export <= Len(losses) /\ \A i \in 1..Lists : bundle'[x].lists[i] <= Len(losses)
      BY <1>2, <1>6, <3>1 DEF BundlesInv, WritesInOrder, Counted
    <3>3. QED BY <1>1, <1>3, <3>2 DEF BundlesInv, WritesInOrder, Counted
  <2>2. \A o \in Process : (Exporting(o)' <=> Exporting(o)) /\ On(o)' = On(o) /\ On(o) # d
    BY <1>1, <1>3 DEF Exporting, Working, On
  <2>3. ASSUME NEW x \in Guide PROVE Ordered(x)'
    <3>1. CASE x = d
      BY <1>2, <1>6, <2>2, <3>1 DEF Ordered
    <3>2. CASE x # d
      <4>1. bundle'[x] = bundle[x] /\ Ordered(x)
        BY <1>2, <3>2 DEF Dir, BundlesInv, WritesInOrder
      <4>2. QED BY <2>2, <4>1 DEF Ordered
    <3>3. QED BY <3>1, <3>2
  <2>4. ASSUME NEW o \in Process PROVE Vouches(command[o])' /\ AnswersRight(command[o])'
    <3>1. Vouches(command[o]) /\ AnswersRight(command[o])
      BY DEF BundlesInv, WritesInOrder
    <3>2. QED BY <1>3, <1>5, <3>1 DEF Vouches, AnswersRight, Written
  <2>5. QED BY <2>1, <2>3, <2>4 DEF WritesInOrder
<1>9. LoneCommands'
  BY <1>3 DEF LoneCommands
<1>10. QED BY <1>4, <1>7, <1>8, <1>9 DEF BundlesInv

-----------------------------------------------------------------------------

LEMMA BundlesStart == BundlesInit => BundlesInv
<1> SUFFICES ASSUME BundlesInit PROVE BundlesInv
  OBVIOUS
<1>1. /\ clock = 0 /\ losses = <<>> /\ bundle = NoBundles /\ cached = [e \in 1..Entities |-> Never]
      /\ index \in [state : {"none", "foreign"}, rows : {{}}]
      /\ command = [p \in Process |-> Idle]
  BY DEF BundlesInit
<1>2. Never \in Int /\ Never <= 0
  BY BundlesAssumption DEF Never
<1>3. /\ NoBundle \in Bundle /\ NoBundle.items = {} /\ NoBundle.manifest.exported = Never
      /\ NoBundle.manifest.export = 0 /\ \A i \in 1..Lists : NoBundle.lists[i] = 0
  BY NoneTyped DEF NoBundle, NoManifest
<1>4. /\ Idle.at = "idle" /\ Idle.export = 0 /\ Idle.alone = FALSE /\ Idle.name = "-"
      /\ Idle \in Command /\ Staged(Idle)
  BY NoneTyped DEF Idle
<1>5. (\A d \in Dir : bundle[d] = NoBundle) /\ \A p \in Process : command[p] = Idle
  BY <1>1 DEF NoBundles
<1>6. BundlesTyped
  <2>1. index \in [state : {"none", "foreign", "ours"}, rows : SUBSET BundleRow]
    BY <1>1
  <2>2. clock \in Nat /\ losses \in Seq(BOOLEAN) /\ cached \in [1..Entities -> Int]
    BY <1>1, <1>2
  <2>3. bundle \in [Dir -> Bundle] /\ command \in [Process -> Command]
    BY <1>1, <1>3, <1>4 DEF NoBundles
  <2>4. QED BY <1>4, <1>5, <2>1, <2>2, <2>3 DEF BundlesTyped
<1>7. EntitiesAge
  BY <1>1, <1>2, <1>3, <1>4, <1>5 DEF EntitiesAge, BundleFresh, CommandFresh, Dir
<1>8. WritesInOrder
  <2>1. Len(losses) = 0
    BY <1>1
  <2>2. Counted
    BY <1>3, <1>4, <1>5, <2>1 DEF Counted
  <2>3. \A d \in Guide : Ordered(d)
    BY <1>3, <1>4, <1>5 DEF Ordered, Exporting, Working, Dir
  <2>4. QED BY <1>4, <1>5, <2>2, <2>3 DEF WritesInOrder, Vouches, AnswersRight
<1>9. LoneCommands
  BY <1>4, <1>5 DEF LoneCommands
<1>10. QED BY <1>6, <1>7, <1>8, <1>9 DEF BundlesInv

(* Whatever commands do, die of or delete, the files are as they say.       *)
THEOREM BundlesInvariant == BundlesSpec => []BundlesInv
<1>1. BundlesInit => BundlesInv
  BY BundlesStart
<1>2. BundlesInv /\ [BundlesNext]_bundling => BundlesInv'
  <2> SUFFICES ASSUME BundlesInv, [BundlesNext]_bundling PROVE BundlesInv'
    OBVIOUS
  <2>1. CASE UNCHANGED bundling
    <3>1. BundlesTyped'
      BY <2>1 DEF bundling, BundlesInv, BundlesTyped, Staged
    <3>2. EntitiesAge'
      BY <2>1 DEF bundling, BundlesInv, EntitiesAge, BundleFresh, CommandFresh, Fetched, Recent
    <3>3. WritesInOrder'
      BY <2>1 DEF bundling, BundlesInv, WritesInOrder, Counted, Ordered, Vouches, AnswersRight, Written,
                  Exporting, Working, On
    <3>4. LoneCommands'
      BY <2>1 DEF bundling, BundlesInv, LoneCommands, Settled, Written, Working, Scan, Readable, Torn
    <3>5. QED BY <3>1, <3>2, <3>3, <3>4 DEF BundlesInv
  <2>2. ASSUME NEW p \in Process, NEW d \in Dir, NEW new \in BOOLEAN,
               guide_export(p, d, new) \/ guide_bundle_refresh(p, d, new)
        PROVE  BundlesInv'
    BY <2>2, ExportStep, RefreshStep
  <2>3. ASSUME NEW p \in Process, NEW d \in Dir, guide_query(p, d) PROVE BundlesInv'
    BY <2>3, QueryStep
  <2>4. ASSUME NEW p \in Process, guide_bundle_index_rebuild(p) PROVE BundlesInv'
    BY <2>4, RebuildStep
  <2>5. ASSUME NEW p \in Process, NEW lost \in BOOLEAN, FetchGuide(p, lost) PROVE BundlesInv'
    BY <2>5, FetchGuideStep
  <2>6. ASSUME NEW p \in Process, WriteList(p) \/ LoadKnown(p) \/ KeepEntity(p) \/ StoreEntity(p) \/ LoseEntity(p)
        PROVE  BundlesInv'
    BY <2>6, WriteListStep, LoadKnownStep, KeepEntityStep, StoreEntityStep, LoseEntityStep
  <2>7. ASSUME NEW p \in Process, WriteItems(p) \/ WriteManifest(p) \/ ScanRoot(p) \/ WriteIndex(p)
        PROVE  BundlesInv'
    BY <2>7, WriteItemsStep, WriteManifestStep, ScanRootStep, WriteIndexStep
  <2>8. ASSUME NEW p \in Process, ReadList(p) \/ Finish(p) \/ Stop(p) \/ TearFile(p) \/ TearIndex(p)
        PROVE  BundlesInv'
    BY <2>8, ReadListStep, FinishStep, StopStep, TearFileStep, TearIndexStep
  <2>9. CASE HourPasses
    BY <2>9, HourPassesStep
  <2>10. ASSUME NEW e \in 1..Entities, ShowEntity(e) PROVE BundlesInv'
    BY <2>10, ShowEntityStep
  <2>11. ASSUME NEW d \in Dir, Remove(d) PROVE BundlesInv'
    BY <2>11, RemoveStep
  <2>12. QED BY <2>1, <2>2, <2>3, <2>4, <2>5, <2>6, <2>7, <2>8, <2>9, <2>10, <2>11 DEF BundlesNext
<1>3. QED BY <1>1, <1>2, PTL DEF BundlesSpec

(* A fresh manifest is at most a maximal age newer than any entity's        *)
(* summary, and that at most a cache life newer than the entity.            *)
LEMMA HydrationIsBounded == BundlesInv => HydrationBounded
<1> SUFFICES ASSUME BundlesInv, NEW d \in Guide, Fresh(bundle[d].manifest), NEW x \in bundle[d].items
             PROVE  clock - bundle[d].file[x.entity] <= 2 * MaxAge + EntityTTL
  BY DEF HydrationBounded
<1>1. bundle[d] \in Bundle /\ clock \in Nat /\ MaxAge \in Nat /\ EntityTTL \in Nat
  BY BundlesAssumption DEF BundlesInv, BundlesTyped, Dir
<1>2. x \in Item
  BY <1>1 DEF Bundle, Summaries
<1>3. x.stored \in Int /\ bundle[d].file[x.entity] \in Int /\ bundle[d].manifest.exported \in Int
  BY <1>1, <1>2 DEF Item, Bundle, Manifest
<1>4. /\ bundle[d].file[x.entity] >= x.stored - EntityTTL
      /\ bundle[d].manifest.exported <= x.stored + MaxAge
  BY DEF BundlesInv, EntitiesAge, BundleFresh, Fetched
<1>5. clock - bundle[d].manifest.exported <= MaxAge
  BY DEF Fresh
<1>6. QED BY <1>1, <1>3, <1>4, <1>5

LEMMA ManifestsVouch == BundlesInv => ManifestVouches
BY DEF BundlesInv, WritesInOrder, AnswersRight, ManifestVouches

(* Where the index is there and every row still has its bundle, commands    *)
(* read the index; else they scan.                                          *)
LEMMA IndexedAsScanned ==
  ASSUME BundlesInv, NEW p \in Process, Undisturbed(p),
         command[p].name = "rebuild" \/ (command[p].export > 0 /\ On(p) \in Guide)
  PROVE  /\ Discover = Scan
         /\ index.state # "foreign" => index.state = "ours" /\ index.rows = Scan
<1>1. \/ index.state = "foreign" /\ command[p].name # "rebuild"
      \/ index.state = "ours" /\ index.rows = Scan
  BY DEF BundlesInv, LoneCommands, Settled, Undisturbed, At, On
<1>2. QED BY <1>1 DEF Discover, Valid

LEMMA AllAreFound == BundlesInv => FindsAll
BY IndexedAsScanned DEF FindsAll

(* An export that was alone has written every file, and the index last. *)
LEMMA ExportsAreClean == BundlesInv => InspectsClean
<1> SUFFICES ASSUME BundlesInv, NEW p \in Process, Undisturbed(p), command[p].export > 0,
                    On(p) \in Guide, index.state # "foreign"
             PROVE  Clean(On(p))
  BY DEF InspectsClean
<1> DEFINE d == command[p].dir
           b == bundle[d]
<1>1. index.state = "ours" /\ index.rows = Scan /\ Discover = Scan
  BY IndexedAsScanned
<1>2. command[p].at = "done" /\ Settled(command[p]) /\ d \in Guide
  BY DEF BundlesInv, LoneCommands, Undisturbed, At, On
<1>3. /\ \A i \in 1..Lists : b.lists[i] = command[p].export /\ i \notin b.torn
      /\ b.manifest.export = command[p].export
      /\ ManifestFile \notin b.torn /\ ItemsFile \notin b.torn
      /\ b.manifest.items = Cardinality(b.items)
  BY <1>2 DEF Settled, Written
<1>4. Readable(d) /\ Loads(d)
  BY <1>3 DEF Readable, Torn, Loads
<1>5. [dir |-> d, manifest |-> bundle[d].manifest] \in Scan
  BY <1>2, <1>4 DEF Scan
<1>6. Found(d)
  BY <1>1, <1>5 DEF Found
<1>7. \A row \in Scan : Holds(row.dir)
  BY DEF Scan, Readable, Holds
<1>8. Valid
  BY <1>1, <1>7 DEF Valid
<1>9. QED BY <1>3, <1>4, <1>6, <1>8 DEF Clean, On

(* What a refresh leaves alone is not too old, a reader's manifest vouches  *)
(* for what it reads, and after whatever happened bundles are found and in  *)
(* order.                                                                   *)
THEOREM BundlesAlwaysHold == BundlesSpec => []BundlesHold
<1>1. BundlesInv => BundlesHold
  BY HydrationIsBounded, ManifestsVouch, AllAreFound, ExportsAreClean DEF BundlesHold
<1>2. QED BY <1>1, BundlesInvariant, PTL
=============================================================================
