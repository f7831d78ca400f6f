--------------------------- MODULE WrapperProofs ---------------------------
(***************************************************************************)
(* The wrapper's commands for any providers, rows and answers.             *)
(*                                                                         *)
(* The fan-out.  OneWaitEach rests on Breaker: a provider that has met a   *)
(* failure finds the breaker open.  OutageIsNotEmptyPage rests on Settled: *)
(* when the envelope is put together no provider's answer changes any      *)
(* more.  CacheClaimsHonest rests on Recorded: every ledger is true of the *)
(* operations that were done under it.                                     *)
(*                                                                         *)
(* The merged page.  PageHolds rests on PageMade, which ties the merged    *)
(* list to the providers' lists by counting: the row at position i is, of  *)
(* its provider's, the one whose number is how many of its rows come up to *)
(* i.                                                                      *)
(*                                                                         *)
(* Which provider a command reads, and what a resolve answers.             *)
(* StaysInGame rests on InGame, ResolveHolds on ResolveMade: the keys of   *)
(* two answers are never the same, so that there is one first of them.     *)
(*                                                                         *)
(* Cooldown packets.  PacketHolds rests on PacketMade, which says at each  *)
(* read what is known by then of the player, his spec and his casts; that  *)
(* samples are of like phases rests on the order of a fight's visits.      *)
(*                                                                         *)
(* Guide comparisons.  GuidesHold rests on GuidesMade: every row that      *)
(* anyone holds names a bundle that is what the row says, unless something *)
(* else wrote to it, and a directory that is being written to is named by  *)
(* no row and is its writer's alone.                                       *)
(***************************************************************************)
EXTENDS FanOut, MergedPage, Discovery, CooldownPacket, GuideCompare,
        SequenceTheorems, FiniteSetTheorems, TLAPS

(* A ledger stays one whatever is put into its fields.                     *)
LEMMA LedgerFields ==
  ASSUME NEW l \in Ledgers, NEW b \in SUBSET {"file", "redis"}, NEW n \in Nat, NEW e \in Nat
  PROVE  /\ [l EXCEPT !.backends = b] \in Ledgers
         /\ [l EXCEPT !.backends = b, !.lookups = n] \in Ledgers
         /\ [l EXCEPT !.backends = b, !.errors = e] \in Ledgers
BY DEF Ledgers

LEMMA LedgerTyped ==
  ASSUME NEW l \in Ledgers, NEW backend \in {"file", "redis"}, NEW found \in Ages \cup {NoAge},
         NEW child \in Ledgers
  PROVE  /\ AddStore(l, backend) \in Ledgers /\ AddHit(l, backend, found) \in Ledgers
         /\ AddMiss(l, backend) \in Ledgers /\ AddError(l, backend) \in Ledgers
         /\ Merge(l, child) \in Ledgers
<1>1. Oldest(l.oldest, found) \in Ages \cup {NoAge} /\ Oldest(l.oldest, child.oldest) \in Ages \cup {NoAge}
  BY DEF Oldest, Ledgers
<1>2. /\ l.backends \cup {backend} \in SUBSET {"file", "redis"}
      /\ l.backends \cup child.backends \in SUBSET {"file", "redis"}
  BY DEF Ledgers
<1>3. /\ l.lookups + 1 \in Nat /\ l.hits + 1 \in Nat /\ l.errors + 1 \in Nat
      /\ l.lookups + child.lookups \in Nat /\ l.hits + child.hits \in Nat
      /\ l.errors + child.errors \in Nat
  BY DEF Ledgers
<1>4. AddStore(l, backend) \in Ledgers
  BY <1>2, LedgerFields DEF AddStore
<1>5. AddMiss(l, backend) \in Ledgers
  BY <1>2, <1>3, LedgerFields DEF AddMiss
<1>6. AddError(l, backend) \in Ledgers
  BY <1>2, <1>3, LedgerFields DEF AddError
<1>7. AddHit(l, backend, found) \in Ledgers
  <2> DEFINE b == l.backends \cup {backend}
             n == l.lookups + 1
             h == l.hits + 1
             o == Oldest(l.oldest, found)
  <2>1. AddHit(l, backend, found) = [l EXCEPT !.backends = b, !.lookups = n, !.hits = h,
                                              !.ageless = (@ \/ found = NoAge), !.oldest = o]
    BY Zenon DEF AddHit
  <2>2. b \in SUBSET {"file", "redis"} /\ n \in Nat /\ h \in Nat /\ o \in Ages \cup {NoAge}
    BY <1>1, <1>2, <1>3
  <2> HIDE DEF b, n, h, o
  <2>3. QED BY <2>1, <2>2 DEF Ledgers
<1>8. Merge(l, child) \in Ledgers
  <2> DEFINE b == l.backends \cup child.backends
             n == l.lookups + child.lookups
             h == l.hits + child.hits
             e == l.errors + child.errors
             o == Oldest(l.oldest, child.oldest)
  <2>1. Merge(l, child) = [l EXCEPT !.backends = b, !.lookups = n, !.hits = h, !.errors = e,
                                    !.ageless = (@ \/ child.ageless), !.oldest = o]
    BY Zenon DEF Merge
  <2>2. /\ b \in SUBSET {"file", "redis"} /\ n \in Nat /\ h \in Nat /\ e \in Nat
        /\ o \in Ages \cup {NoAge}
    BY <1>1, <1>2, <1>3
  <2> HIDE DEF b, n, h, e, o
  <2>3. QED BY <2>1, <2>2 DEF Ledgers
<1>9. QED BY <1>4, <1>5, <1>6, <1>7, <1>8

LEMMA InitTyped == Init => TypeOK
<1> SUFFICES ASSUME Init PROVE TypeOK
  OBVIOUS
<1>1. EmptyLedger \in Ledgers
  BY DEF EmptyLedger, Ledgers
<1>2. ledger \in [Provider -> Ledgers] /\ total \in Ledgers
  BY <1>1 DEF Init
<1>3. answer \in [Provider -> Answers]
  BY DEF Init, NoAnswer, Answers
<1>4. ops \in [Provider -> Seq([kind : OpKind, found : Ages \cup {NoAge}])]
  BY DEF Init
<1>5. QED BY <1>2, <1>3, <1>4 DEF Init, TypeOK, NoEnvelope

(* What Record does to the types, whatever is recorded.                    *)
LEMMA RecordTyped ==
  ASSUME TypeOK, NEW p \in Provider, NEW kind \in OpKind, NEW found \in Ages \cup {NoAge},
         NEW l \in Ledgers, Record(p, Op(kind, found), l)
  PROVE  /\ ops' \in [Provider -> Seq([kind : OpKind, found : Ages \cup {NoAge}])]
         /\ ledger' \in [Provider -> Ledgers]
<1>1. Op(kind, found) \in [kind : OpKind, found : Ages \cup {NoAge}]
  BY DEF Op
<1>2. Append(ops[p], Op(kind, found)) \in Seq([kind : OpKind, found : Ages \cup {NoAge}])
  <2> DEFINE R == [kind : OpKind, found : Ages \cup {NoAge}]
  <2>1. ops[p] \in Seq(R) /\ Op(kind, found) \in R
    BY <1>1 DEF TypeOK
  <2> HIDE DEF R
  <2>2. Append(ops[p], Op(kind, found)) \in Seq(R)
    BY <2>1
  <2>3. QED BY <2>2 DEF R
<1>3. QED BY <1>2 DEF TypeOK, Record

LEMMA NextTyped == TypeOK /\ [Next]_vars => TypeOK'
<1> SUFFICES ASSUME TypeOK, [Next]_vars PROVE TypeOK'
  OBVIOUS
<1>1. ASSUME NEW p \in Provider, Begin(p) PROVE TypeOK'
  <2>1. AddStore(ledger[p], Backend(p)) \in Ledgers
    BY LedgerTyped DEF TypeOK, Backend
  <2>2. QED BY <1>1, <2>1 DEF TypeOK, Begin, Step
<1>2. ASSUME NEW p \in Provider, LookUpFile(p) PROVE TypeOK'
  <2>1. /\ ops' \in [Provider -> Seq([kind : OpKind, found : Ages \cup {NoAge}])]
        /\ ledger' \in [Provider -> Ledgers]
    BY <1>2, RecordTyped, LedgerTyped DEF TypeOK, LookUpFile, OpKind
  <2>2. QED BY <1>2, <2>1 DEF TypeOK, LookUpFile
<1>3. ASSUME NEW p \in Provider, AskRedis(p) PROVE TypeOK'
  BY <1>3 DEF TypeOK, AskRedis, Step
<1>4. ASSUME NEW p \in Provider, RedisAnswers(p) PROVE TypeOK'
  <2>1. /\ ops' \in [Provider -> Seq([kind : OpKind, found : Ages \cup {NoAge}])]
        /\ ledger' \in [Provider -> Ledgers]
    <3>1. CASE UNCHANGED <<ops, ledger>>
      BY <3>1 DEF TypeOK
    <3>2. CASE Record(p, Op("miss", NoAge), AddMiss(ledger[p], "redis"))
      BY <3>2, RecordTyped, LedgerTyped DEF TypeOK, OpKind
    <3>3. CASE Record(p, Op("hit", NoAge), AddHit(ledger[p], "redis", NoAge))
      BY <3>3, RecordTyped, LedgerTyped DEF TypeOK, OpKind
    <3>4. QED BY <1>4, <3>1, <3>2, <3>3 DEF RedisAnswers
  <2>2. QED BY <1>4, <2>1 DEF TypeOK, RedisAnswers, Step
<1>5. ASSUME NEW p \in Provider, RedisFails(p) \/ SkipRedis(p) PROVE TypeOK'
  <2>1. /\ AddError(ledger[p], "redis") \in Ledgers
        /\ AddMiss(AddError(ledger[p], "redis"), "redis") \in Ledgers
    BY LedgerTyped DEF TypeOK
  <2>2. /\ ops' \in [Provider -> Seq([kind : OpKind, found : Ages \cup {NoAge}])]
        /\ ledger' \in [Provider -> Ledgers]
    BY <1>5, <2>1, RecordTyped DEF RedisFails, SkipRedis, OpKind
  <2>3. QED BY <1>5, <2>2 DEF TypeOK, RedisFails, SkipRedis, Step
<1>6. ASSUME NEW p \in Provider, Return(p) PROVE TypeOK'
  <2>1. ASSUME NEW rows \in BOOLEAN,
               answer' = [answer EXCEPT ![p] = [ok |-> TRUE, rows |-> rows, code |-> "none", exit |-> 0]]
        PROVE answer' \in [Provider -> Answers]
    BY <2>1 DEF TypeOK, Answers
  <2>2. ASSUME NEW f \in Failures,
               answer' = [answer EXCEPT ![p] = [ok |-> FALSE, rows |-> FALSE, code |-> f.code, exit |-> f.exit]]
        PROVE answer' \in [Provider -> Answers]
    <3>1. f.exit \in Nat
      BY FanOutAssumption
    <3>2. QED BY <2>2, <3>1 DEF TypeOK, Answers
  <2>3. answer' \in [Provider -> Answers]
    BY <1>6, <2>1, <2>2 DEF Return
  <2>4. QED BY <1>6, <2>3 DEF TypeOK, Return, Step
<1>7. ASSUME NEW p \in Provider, Close(p) PROVE TypeOK'
  <2>1. Merge(total, ledger[p]) \in Ledgers
    BY LedgerTyped DEF TypeOK
  <2>2. QED BY <1>7, <2>1 DEF TypeOK, Close, Step
<1>8. CASE Emit
  BY <1>8 DEF TypeOK, Emit
<1>9. CASE UNCHANGED vars
  BY <1>9 DEF TypeOK, vars
<1>10. QED BY <1>1, <1>2, <1>3, <1>4, <1>5, <1>6, <1>7, <1>8, <1>9 DEF Next, ProviderStep

(* The types, for any providers and any number of operations.              *)
THEOREM TypeCorrect == Spec => []TypeOK
<1>1. QED BY InitTyped, NextTyped, PTL DEF Spec
-----------------------------------------------------------------------------
(* A provider that has met a failure has tripped the breaker, and is not  *)
(* asking Redis: others may have tripped it while it asks.  So it fails   *)
(* once at most.                                                          *)
FailedAt(p, i) == i \in DOMAIN ops[p] /\ ops[p][i].kind \in {"failed get", "failed set"}

Breaker ==
  \A p \in Provider :
    /\ \A i \in Nat : FailedAt(p, i) => tripped /\ pc[p] \notin {"getting", "setting"}
    /\ \A i, j \in Nat : FailedAt(p, i) /\ FailedAt(p, j) => i = j

(* What Record appends.                                                     *)
LEMMA RecordAppends ==
  ASSUME TypeOK, NEW p \in Provider, NEW op, NEW l, Record(p, op, l)
  PROVE  /\ \A q \in Provider \ {p} : ops'[q] = ops[q]
         /\ \A i : i \in DOMAIN ops'[p] <=> i \in DOMAIN ops[p] \/ i = Len(ops[p]) + 1
         /\ ops'[p][Len(ops[p]) + 1] = op
         /\ \A i \in DOMAIN ops[p] : ops'[p][i] = ops[p][i]
<1> DEFINE R == [kind : OpKind, found : Ages \cup {NoAge}]
<1>1. ops \in [Provider -> Seq(R)]
  BY DEF TypeOK
<1> HIDE DEF R
<1>2. ops[p] \in Seq(R) /\ ops'[p] = Append(ops[p], op) /\ \A q \in Provider \ {p} : ops'[q] = ops[q]
  BY <1>1 DEF Record
<1>3. \A i : i \in DOMAIN ops'[p] <=> i \in DOMAIN ops[p] \/ i = Len(ops[p]) + 1
  <2>1. /\ Len(ops[p]) \in Nat /\ DOMAIN ops[p] = 1..Len(ops[p])
        /\ DOMAIN ops'[p] = 1..(Len(ops[p]) + 1)
    BY <1>2
  <2>2. QED BY <2>1
<1>4. QED BY <1>2, <1>3

(* Recording anything but a failure leaves the failures as they are.        *)
LEMMA RecordOther ==
  ASSUME TypeOK, NEW p \in Provider, NEW kind \in OpKind \ {"failed get", "failed set"},
         NEW found, NEW l, Record(p, Op(kind, found), l)
  PROVE  \A q \in Provider, i \in Nat : FailedAt(q, i)' <=> FailedAt(q, i)
<1>1. ASSUME NEW q \in Provider \ {p}, NEW i \in Nat PROVE FailedAt(q, i)' <=> FailedAt(q, i)
  <2>1. ops'[q] = ops[q]
    BY RecordAppends
  <2>2. QED BY <2>1 DEF FailedAt
<1>2. ASSUME NEW i \in Nat PROVE FailedAt(p, i)' <=> FailedAt(p, i)
  <2> DEFINE last == Len(ops[p]) + 1
  <2>1. /\ \A j : j \in DOMAIN ops'[p] <=> j \in DOMAIN ops[p] \/ j = last
        /\ \A j \in DOMAIN ops[p] : ops'[p][j] = ops[p][j]
        /\ ops'[p][last] = Op(kind, found)
    BY RecordAppends
  <2> HIDE DEF last
  <2>2. ops'[p][last].kind \notin {"failed get", "failed set"}
    <3>1. Op(kind, found).kind = kind
      BY DEF Op
    <3>2. QED BY <2>1, <3>1
  <2>3. CASE i \in DOMAIN ops[p]
    BY <2>1, <2>3 DEF FailedAt
  <2>4. CASE i \notin DOMAIN ops[p]
    BY <2>1, <2>2, <2>4 DEF FailedAt
  <2>5. QED BY <2>3, <2>4
<1>3. QED BY <1>1, <1>2

LEMMA NextBreaker == TypeOK /\ Breaker /\ [Next]_vars => Breaker'
<1> SUFFICES ASSUME TypeOK, Breaker, [Next]_vars PROVE Breaker'
  OBVIOUS
<1>1. ASSUME UNCHANGED ops, tripped => tripped',
             \A p \in Provider : pc'[p] \in {"getting", "setting"} =>
               pc[p] \in {"getting", "setting"} \/ ~tripped
      PROVE Breaker'
  BY <1>1 DEF Breaker, FailedAt
<1>2. ASSUME NEW p \in Provider, Begin(p) \/ AskRedis(p) \/ Return(p) \/ Close(p) PROVE Breaker'
  BY <1>1, <1>2 DEF Begin, AskRedis, Return, Close, Step, TypeOK
<1>3. CASE Emit \/ UNCHANGED vars
  BY <1>1, <1>3 DEF Emit, vars
<1>4. ASSUME NEW p \in Provider, LookUpFile(p) PROVE Breaker'
  <2>1. \A q \in Provider, i \in Nat : FailedAt(q, i)' <=> FailedAt(q, i)
    BY <1>4, RecordOther DEF LookUpFile, OpKind
  <2>2. QED BY <1>4, <2>1 DEF LookUpFile, Breaker
<1>5. ASSUME NEW p \in Provider, SkipRedis(p) PROVE Breaker'
  <2>1. \A q \in Provider, i \in Nat : FailedAt(q, i)' <=> FailedAt(q, i)
    BY <1>5, RecordOther DEF SkipRedis, OpKind
  <2>2. QED BY <1>5, <2>1 DEF SkipRedis, Breaker
<1>6. ASSUME NEW p \in Provider, RedisAnswers(p) PROVE Breaker'
  <2>1. \A q \in Provider, i \in Nat : FailedAt(q, i)' <=> FailedAt(q, i)
    <3>1. CASE UNCHANGED ops
      BY <3>1 DEF FailedAt
    <3>2. ASSUME NEW l, Record(p, Op("miss", NoAge), l) \/ Record(p, Op("hit", NoAge), l)
          PROVE \A q \in Provider, i \in Nat : FailedAt(q, i)' <=> FailedAt(q, i)
      BY <3>2, RecordOther DEF OpKind
    <3>3. QED BY <1>6, <3>1, <3>2 DEF RedisAnswers
  <2>2. QED BY <1>6, <2>1 DEF RedisAnswers, Breaker, Step, TypeOK
<1>7. ASSUME NEW p \in Provider, RedisFails(p) PROVE Breaker'
  <2>0. PICK kind \in {"failed get", "failed set"} : \E l : Record(p, Op(kind, NoAge), l)
    BY <1>7 DEF RedisFails
  <2>1. PICK l : Record(p, Op(kind, NoAge), l)
    BY <2>0
  <2>2. \A i \in Nat : ~FailedAt(p, i)
    BY <1>7 DEF Breaker, RedisFails, Step
  <2>3. \A i \in Nat : FailedAt(p, i)' => i = Len(ops[p]) + 1
    <3>1. ASSUME NEW i \in Nat, FailedAt(p, i)', i # Len(ops[p]) + 1 PROVE FALSE
      <4>1. i \in DOMAIN ops'[p] /\ ops'[p][i].kind \in {"failed get", "failed set"}
        BY <3>1 DEF FailedAt
      <4>2. i \in DOMAIN ops[p] /\ ops'[p][i] = ops[p][i]
        BY <2>1, <3>1, <4>1, RecordAppends
      <4>3. QED BY <2>2, <4>1, <4>2 DEF FailedAt
    <3>2. QED BY <3>1
  <2>4. \A q \in Provider \ {p}, i \in Nat : FailedAt(q, i)' <=> FailedAt(q, i)
    BY <2>1, RecordAppends DEF FailedAt
  <2>5. tripped' /\ pc'[p] = "calling" /\ \A q \in Provider \ {p} : pc'[q] = pc[q]
    BY <1>7 DEF RedisFails, Step, TypeOK
  <2>6. QED BY <2>3, <2>4, <2>5 DEF Breaker
<1>8. QED BY <1>2, <1>3, <1>4, <1>5, <1>6, <1>7 DEF Next, ProviderStep

(* However many threads find Redis down at the same time, each provider     *)
(* waits for it once at most.                                               *)
THEOREM WaitsOnce == Spec => []OneWaitEach
<1>1. Init => Breaker
  <2> SUFFICES ASSUME Init PROVE \A p \in Provider, i \in Nat : ~FailedAt(p, i)
    BY DEF Breaker
  <2>1. \A p \in Provider : ops[p] = <<>>
    BY DEF Init
  <2>2. DOMAIN <<>> = {}
    OBVIOUS
  <2>3. QED BY <2>1, <2>2 DEF FailedAt
<1>2. TypeOK /\ Breaker => OneWaitEach
  <2> SUFFICES ASSUME TypeOK, Breaker, NEW p \in Provider
               PROVE Count({p}, {"failed get", "failed set"}) <= 1
    BY DEF OneWaitEach
  <2> DEFINE Fails == {o \in Operations({p}) : ops[o[1]][o[2]].kind \in {"failed get", "failed set"}}
  <2>1. \A o \in Fails : \E i \in Nat : o = <<p, i>> /\ FailedAt(p, i)
    <3>1. Operations({p}) = {p} \X DOMAIN ops[p]
      BY DEF Operations
    <3>2. DOMAIN ops[p] \subseteq Nat
      <4>1. ops[p] \in Seq([kind : OpKind, found : Ages \cup {NoAge}])
        BY DEF TypeOK
      <4>2. QED BY <4>1
    <3>3. \A o \in {p} \X DOMAIN ops[p] : o = <<p, o[2]>> /\ o[1] = p /\ o[2] \in DOMAIN ops[p]
      OBVIOUS
    <3>4. QED BY <3>1, <3>2, <3>3 DEF FailedAt
  <2>2. \A o, q \in Fails : o = q
    BY <2>1 DEF Breaker
  <2> HIDE DEF Fails
  <2>3. Cardinality(Fails) <= 1
    <3>1. CASE Fails = {}
      BY <3>1, FS_EmptySet
    <3>2. CASE \E o : o \in Fails
      <4>1. PICK o : Fails = {o}
        BY <2>2, <3>2
      <4>2. QED BY <4>1, FS_Singleton
    <3>3. QED BY <3>1, <3>2
  <2>4. QED BY <2>3 DEF Count, Fails
<1>3. QED BY <1>1, <1>2, InitTyped, NextTyped, NextBreaker, PTL DEF Spec
-----------------------------------------------------------------------------
(* Once a provider's call is over its answer is one of success or failure   *)
(* and stays so, and the envelope comes after all of them.                  *)
Settled ==
  /\ \A p \in Provider : pc[p] \in {"returned", "done"} =>
       \/ answer[p].ok /\ answer[p].exit = 0
       \/ ~answer[p].ok /\ answer[p].exit > 0
  /\ envelope.kind # "none" => \A p \in included : pc[p] = "done"
  /\ envelope.kind = "error" => envelope.failed \subseteq included
  /\ OutageIsNotEmptyPage

(* The exit code of several failures is that of all of them, or 1.          *)
LEMMA SharedExit ==
  ASSUME TypeOK, Failed # {}, \A p \in Failed : answer[p].exit > 0
  PROVE  /\ SharedFailure(Failed).exit > 0
         /\ SharedFailure(Failed).exit = 5 => \A p \in Failed : answer[p].exit = 5
<1> DEFINE exits == {answer[p].exit : p \in Failed}
           exit == IF Cardinality(exits) = 1 THEN CHOOSE e \in exits : TRUE ELSE 1
<1>1. SharedFailure(Failed).exit = exit
  BY DEF SharedFailure
<1>2. IsFiniteSet(exits)
  <2>1. Failed \subseteq Provider
    BY DEF Failed, TypeOK
  <2>2. IsFiniteSet(Failed)
    BY <2>1, FanOutAssumption, FS_Subset
  <2> DEFINE f == [p \in Failed |-> answer[p].exit]
  <2>3. f \in Surjection(Failed, exits)
    BY DEF Surjection
  <2>4. QED BY <2>2, <2>3, FS_Surjection
<1>3. CASE Cardinality(exits) = 1
  <2> HIDE DEF exits
  <2>1. PICK e : exits = {e}
    BY <1>2, <1>3, FS_Singleton
  <2>2. exit = e
    BY <1>3, <2>1
  <2>3. \A p \in Failed : answer[p].exit = e
    BY <2>1 DEF exits
  <2>4. QED BY <1>1, <2>2, <2>3
<1>4. CASE Cardinality(exits) # 1
  BY <1>1, <1>4
<1>5. QED BY <1>3, <1>4

LEMMA NextSettled == TypeOK /\ Settled /\ [Next]_vars => Settled'
<1> SUFFICES ASSUME TypeOK, Settled, [Next]_vars PROVE Settled'
  OBVIOUS
<1>1. ASSUME NEW p \in Provider,
             Begin(p) \/ LookUpFile(p) \/ AskRedis(p) \/ RedisAnswers(p) \/ RedisFails(p)
               \/ SkipRedis(p) \/ Close(p)
      PROVE Settled'
  <2>1. UNCHANGED <<answer, envelope, included>>
    BY <1>1 DEF Begin, LookUpFile, AskRedis, RedisAnswers, RedisFails, SkipRedis, Close
  <2>2. \A q \in Provider :
          /\ pc'[q] \in {"returned", "done"} => pc[q] \in {"returned", "done"}
          /\ pc[q] = "done" => pc'[q] = "done"
    BY <1>1 DEF TypeOK, Step, Begin, LookUpFile, AskRedis, RedisAnswers, RedisFails, SkipRedis, Close
  <2>3. OutageIsNotEmptyPage'
    BY <2>1 DEF Settled, OutageIsNotEmptyPage
  <2>4. included \subseteq Provider
    BY DEF TypeOK
  <2>5. QED BY <2>1, <2>2, <2>3, <2>4 DEF Settled
<1>2. ASSUME NEW p \in Provider, Return(p) PROVE Settled'
  <2>1. \/ answer'[p].ok /\ answer'[p].exit = 0
        \/ ~answer'[p].ok /\ answer'[p].exit > 0
    <3>1. ASSUME NEW rows \in BOOLEAN,
                 answer' = [answer EXCEPT ![p] = [ok |-> TRUE, rows |-> rows, code |-> "none", exit |-> 0]]
          PROVE answer'[p].ok /\ answer'[p].exit = 0
      BY <3>1 DEF TypeOK
    <3>2. ASSUME NEW f \in Failures,
                 answer' = [answer EXCEPT ![p] = [ok |-> FALSE, rows |-> FALSE, code |-> f.code, exit |-> f.exit]]
          PROVE ~answer'[p].ok /\ answer'[p].exit > 0
      <4>1. f.exit \in Nat \ {0}
        BY FanOutAssumption
      <4>2. QED BY <3>2, <4>1 DEF TypeOK
    <3>3. QED BY <1>2, <3>1, <3>2 DEF Return
  <2>2. \A q \in Provider \ {p} : answer'[q] = answer[q] /\ pc'[q] = pc[q]
    BY <1>2 DEF TypeOK, Return, Step
  <2>3. UNCHANGED <<envelope, included>> /\ pc[p] = "calling" /\ pc'[p] = "returned"
    BY <1>2 DEF TypeOK, Return, Step
  <2>4. p \notin included \/ envelope.kind = "none"
    BY <2>3 DEF Settled
  <2>5. included \subseteq Provider
    BY DEF TypeOK
  <2>6. OutageIsNotEmptyPage'
    <3>1. CASE envelope.kind = "none"
      BY <2>3, <3>1 DEF OutageIsNotEmptyPage
    <3>2. CASE p \notin included /\ envelope.kind # "none"
      <4>1. \A q \in included : answer'[q] = answer[q]
        BY <2>2, <2>5, <3>2
      <4>2. OutageIsNotEmptyPage
        BY DEF Settled
      <4>3. CASE envelope.kind = "ok"
        BY <2>3, <4>1, <4>2, <4>3 DEF OutageIsNotEmptyPage
      <4>4. CASE envelope.kind = "error"
        <5>1. envelope.failed \subseteq included
          BY <4>4 DEF Settled
        <5>2. QED BY <2>3, <4>1, <4>2, <4>4, <5>1 DEF OutageIsNotEmptyPage
      <4>5. QED BY <2>3, <3>2, <4>3, <4>4 DEF TypeOK
    <3>3. QED BY <2>4, <3>1, <3>2
  <2>7. QED BY <2>1, <2>2, <2>3, <2>4, <2>5, <2>6 DEF Settled
<1>3. CASE Emit
  <2>1. \A p \in included : \/ answer[p].ok /\ answer[p].exit = 0
                            \/ ~answer[p].ok /\ answer[p].exit > 0
    <3>1. included \subseteq Provider
      BY DEF TypeOK
    <3>2. \A p \in included : pc[p] = "done"
      BY <1>3 DEF Emit
    <3>3. QED BY <3>1, <3>2 DEF Settled
  <2>2. UNCHANGED <<included, pc, answer>> /\ \A p \in included : pc[p] = "done"
    BY <1>3 DEF Emit
  <2>3. CASE Answered # {}
    <3>1. envelope'.kind = "ok" /\ envelope'.failed = Failed
      BY <1>3, <2>3 DEF Emit
    <3>2. QED BY <2>1, <2>2, <2>3, <3>1 DEF Settled, OutageIsNotEmptyPage, Answered, Failed
  <2>4. CASE Answered = {} /\ Failed # {}
    <3>1. /\ envelope'.kind = "error" /\ envelope'.failed = Failed
          /\ envelope'.exit = SharedFailure(Failed).exit
      BY <1>3, <2>4 DEF Emit
    <3>2. \A p \in Failed : answer[p].exit > 0
      BY <2>1 DEF Failed
    <3>3. \A p \in included \ HintOnly : answer[p].exit > 0
      BY <2>1, <2>4 DEF Answered
    <3>4. OutageIsNotEmptyPage'
      BY <2>2, <2>4, <3>1, <3>2, <3>3, SharedExit DEF OutageIsNotEmptyPage
    <3>5. Failed \subseteq included
      BY DEF Failed
    <3>6. QED BY <2>2, <3>1, <3>4, <3>5 DEF Settled
  <2>5. CASE Answered = {} /\ Failed = {}
    <3>1. envelope'.kind = "error" /\ envelope'.exit = 2 /\ envelope'.failed = {}
      BY <1>3, <2>5 DEF Emit
    <3>2. \A p \in included \ HintOnly : answer[p].exit > 0
      BY <2>1, <2>5 DEF Answered
    <3>3. OutageIsNotEmptyPage'
      BY <2>2, <3>1, <3>2 DEF OutageIsNotEmptyPage
    <3>4. QED BY <2>2, <3>1, <3>3 DEF Settled
  <2>6. QED BY <2>3, <2>4, <2>5
<1>4. CASE UNCHANGED vars
  BY <1>4 DEF vars, Settled, OutageIsNotEmptyPage
<1>5. QED BY <1>1, <1>2, <1>3, <1>4 DEF Next, ProviderStep

(* For any providers, whichever fail and in whatever order they end: an     *)
(* outage is never reported as an empty page, nor a bug as an outage.       *)
THEOREM OutageIsReported == Spec => []OutageIsNotEmptyPage
<1>1. Init => Settled
  BY DEF Init, Settled, OutageIsNotEmptyPage, NoEnvelope, TypeOK
<1>2. Settled => OutageIsNotEmptyPage
  BY DEF Settled
<1>3. QED BY <1>1, <1>2, InitTyped, NextTyped, NextSettled, PTL DEF Spec
-----------------------------------------------------------------------------
(* What the cache blocks tell.  A ledger is compared with the operations it *)
(* was made from; f stands for the operations so far, before or after a     *)
(* step.                                                                    *)
Operation == [kind : OpKind, found : Ages \cup {NoAge}]
Histories == [Provider -> Seq(Operation)]

LookupKind == OpKind \ {"failed set", "skipped set"}
ErrorKind == OpKind \ {"hit", "miss"}

Places(f, ps, kinds) ==
  {o \in UNION {{p} \X DOMAIN f[p] : p \in ps} : f[o[1]][o[2]].kind \in kinds}
Tally(f, ps, kinds) == Cardinality(Places(f, ps, kinds))
FoundBy(f, ps) == {f[o[1]][o[2]].found : o \in Places(f, ps, {"hit"})}

OldestOf(held, found) ==
  /\ held # NoAge => held \in found /\ \A h \in found : h # NoAge => h.age <= held.age
  /\ held = NoAge => found \subseteq {NoAge}

LedgerOf(l, ps, f) ==
  /\ l.backends = {Backend(p) : p \in ps}
  /\ l.lookups = Tally(f, ps, LookupKind)
  /\ l.hits = Tally(f, ps, {"hit"})
  /\ l.errors = Tally(f, ps, ErrorKind)
  /\ l.ageless <=> NoAge \in FoundBy(f, ps)
  /\ OldestOf(l.oldest, FoundBy(f, ps))

LEMMA Placed ==
  ASSUME NEW f \in Histories, NEW ps \in SUBSET Provider, NEW kinds
  PROVE  \A o : o \in Places(f, ps, kinds) <=>
           \E p \in ps : \E i \in DOMAIN f[p] : o = <<p, i>> /\ f[p][i].kind \in kinds
<1>1. \A o : o \in UNION {{p} \X DOMAIN f[p] : p \in ps} <=>
        \E p \in ps : \E i \in DOMAIN f[p] : o = <<p, i>>
  <2>1. \A o : o \in UNION {{p} \X DOMAIN f[p] : p \in ps} <=>
          \E p \in ps : o \in {p} \X DOMAIN f[p]
    OBVIOUS
  <2>2. \A p, o : o \in {p} \X DOMAIN f[p] <=> \E i \in DOMAIN f[p] : o = <<p, i>>
    OBVIOUS
  <2>3. QED BY <2>1, <2>2
<1>2. \A p, i : <<p, i>>[1] = p /\ <<p, i>>[2] = i
  OBVIOUS
<1>3. QED BY <1>1, <1>2 DEF Places

LEMMA FoundAt ==
  ASSUME NEW f \in Histories, NEW ps \in SUBSET Provider
  PROVE  \A h : h \in FoundBy(f, ps) <=>
           \E p \in ps : \E i \in DOMAIN f[p] : f[p][i].kind = "hit" /\ h = f[p][i].found
<1>1. \A o : o \in Places(f, ps, {"hit"}) <=>
        \E p \in ps : \E i \in DOMAIN f[p] : o = <<p, i>> /\ f[p][i].kind = "hit"
  BY Placed
<1>2. \A p, i : <<p, i>>[1] = p /\ <<p, i>>[2] = i
  OBVIOUS
<1>3. ASSUME NEW o \in Places(f, ps, {"hit"})
      PROVE  \E p \in ps : \E i \in DOMAIN f[p] :
               f[p][i].kind = "hit" /\ f[o[1]][o[2]].found = f[p][i].found
  BY <1>1, <1>2
<1>4. ASSUME NEW p \in ps, NEW i \in DOMAIN f[p], f[p][i].kind = "hit"
      PROVE  f[p][i].found \in FoundBy(f, ps)
  <2>1. <<p, i>> \in Places(f, ps, {"hit"})
    BY <1>1, <1>4
  <2>2. f[<<p, i>>[1]][<<p, i>>[2]].found = f[p][i].found
    BY <1>2
  <2>3. QED BY <2>1, <2>2 DEF FoundBy
<1>5. \A h \in FoundBy(f, ps) : \E o \in Places(f, ps, {"hit"}) : h = f[o[1]][o[2]].found
  BY DEF FoundBy
<1>6. QED BY <1>3, <1>4, <1>5

LEMMA FoundTyped ==
  ASSUME NEW f \in Histories, NEW ps \in SUBSET Provider
  PROVE  FoundBy(f, ps) \subseteq Ages \cup {NoAge}
<1>1. ASSUME NEW p \in ps, NEW i \in DOMAIN f[p] PROVE f[p][i].found \in Ages \cup {NoAge}
  <2>1. f[p] \in Seq(Operation)
    BY DEF Histories
  <2>2. f[p][i] \in Operation
    BY <2>1
  <2>3. QED BY <2>2 DEF Operation
<1>2. QED BY <1>1, FoundAt

LEMMA PlacesFinite ==
  ASSUME NEW f \in Histories, NEW ps \in SUBSET Provider, NEW kinds
  PROVE  IsFiniteSet(Places(f, ps, kinds)) /\ Tally(f, ps, kinds) \in Nat
<1> DEFINE row == [p \in ps |-> {p} \X DOMAIN f[p]]
           rows == {{p} \X DOMAIN f[p] : p \in ps}
<1>1. IsFiniteSet(rows)
  <2>1. IsFiniteSet(ps)
    BY FanOutAssumption, FS_Subset
  <2>2. row \in Surjection(ps, rows)
    BY DEF Surjection
  <2>3. QED BY <2>1, <2>2, FS_Surjection
<1>2. \A s \in rows : IsFiniteSet(s)
  <2>1. ASSUME NEW p \in ps PROVE IsFiniteSet({p} \X DOMAIN f[p])
    <3>1. f[p] \in Seq(Operation)
      BY DEF Histories
    <3>2. Len(f[p]) \in Nat /\ DOMAIN f[p] = 1..Len(f[p])
      BY <3>1
    <3>3. IsFiniteSet(DOMAIN f[p])
      BY <3>2, FS_Interval
    <3>4. QED BY <3>3, FS_Singleton, FS_Product
  <2>2. QED BY <2>1
<1>3. IsFiniteSet(UNION rows)
  BY <1>1, <1>2, FS_UNION
<1>4. Places(f, ps, kinds) \subseteq UNION rows
  BY DEF Places
<1>5. IsFiniteSet(Places(f, ps, kinds))
  BY <1>3, <1>4, FS_Subset
<1>6. QED BY <1>5, FS_CardinalityType DEF Tally

LEMMA CountsAdd ==
  ASSUME NEW S, NEW T, IsFiniteSet(S), IsFiniteSet(T), S \cap T = {},
         Cardinality(S) \in Nat, Cardinality(T) \in Nat
  PROVE  Cardinality(S \cup T) = Cardinality(S) + Cardinality(T)
<1>1. Cardinality(S \cup T) = Cardinality(S) + Cardinality(T) - Cardinality(S \cap T)
  BY FS_Union
<1>2. Cardinality(S \cap T) = 0
  BY FS_EmptySet
<1>3. QED BY <1>1, <1>2

(* Kinds that exclude each other add up. *)
LEMMA KindsAdd ==
  ASSUME NEW f \in Histories, NEW ps \in SUBSET Provider, NEW K, NEW L, K \cap L = {}
  PROVE  Tally(f, ps, K \cup L) = Tally(f, ps, K) + Tally(f, ps, L)
<1>1. Places(f, ps, K \cup L) = Places(f, ps, K) \cup Places(f, ps, L)
  BY DEF Places
<1>2. Places(f, ps, K) \cap Places(f, ps, L) = {}
  BY DEF Places
<1>3. /\ IsFiniteSet(Places(f, ps, K)) /\ Cardinality(Places(f, ps, K)) \in Nat
      /\ IsFiniteSet(Places(f, ps, L)) /\ Cardinality(Places(f, ps, L)) \in Nat
  BY PlacesFinite DEF Tally
<1>4. QED BY <1>1, <1>2, <1>3, CountsAdd DEF Tally

(* So do providers. *)
LEMMA ProvidersAdd ==
  ASSUME NEW f \in Histories, NEW ps \in SUBSET Provider, NEW qs \in SUBSET Provider,
         ps \cap qs = {}, NEW kinds
  PROVE  Tally(f, ps \cup qs, kinds) = Tally(f, ps, kinds) + Tally(f, qs, kinds)
<1>1. Places(f, ps \cup qs, kinds) = Places(f, ps, kinds) \cup Places(f, qs, kinds)
  BY Placed
<1>2. Places(f, ps, kinds) \cap Places(f, qs, kinds) = {}
  BY Placed
<1>3. /\ IsFiniteSet(Places(f, ps, kinds)) /\ Cardinality(Places(f, ps, kinds)) \in Nat
      /\ IsFiniteSet(Places(f, qs, kinds)) /\ Cardinality(Places(f, qs, kinds)) \in Nat
  BY PlacesFinite DEF Tally
<1>4. QED BY <1>1, <1>2, <1>3, CountsAdd DEF Tally

LEMMA FoundAdd ==
  ASSUME NEW f \in Histories, NEW ps \in SUBSET Provider, NEW qs \in SUBSET Provider
  PROVE  FoundBy(f, ps \cup qs) = FoundBy(f, ps) \cup FoundBy(f, qs)
BY FoundAt

(* What other providers do leaves a ledger true.                            *)
LEMMA OthersApart ==
  ASSUME NEW f \in Histories, NEW g \in Histories, NEW ps \in SUBSET Provider,
         \A p \in ps : g[p] = f[p]
  PROVE  /\ \A kinds : Tally(g, ps, kinds) = Tally(f, ps, kinds)
         /\ FoundBy(g, ps) = FoundBy(f, ps)
         /\ \A l : LedgerOf(l, ps, f) => LedgerOf(l, ps, g)
<1>1. \A kinds : Places(g, ps, kinds) = Places(f, ps, kinds)
  <2>1. ASSUME NEW kinds PROVE Places(g, ps, kinds) = Places(f, ps, kinds)
    <3>1. \A o : o \in Places(g, ps, kinds) <=> o \in Places(f, ps, kinds)
      <4>1. \A o : o \in Places(f, ps, kinds) <=>
              \E p \in ps : \E i \in DOMAIN f[p] : o = <<p, i>> /\ f[p][i].kind \in kinds
        BY Placed
      <4>2. \A o : o \in Places(g, ps, kinds) <=>
              \E p \in ps : \E i \in DOMAIN g[p] : o = <<p, i>> /\ g[p][i].kind \in kinds
        BY Placed
      <4>3. QED BY <4>1, <4>2
    <3>2. \A o \in Places(g, ps, kinds) : o \in Places(f, ps, kinds)
      BY <3>1
    <3>3. \A o \in Places(f, ps, kinds) : o \in Places(g, ps, kinds)
      BY <3>1
    <3>4. QED BY <3>2, <3>3
  <2>2. QED BY <2>1
<1>2. \A kinds : Tally(g, ps, kinds) = Tally(f, ps, kinds)
  BY <1>1 DEF Tally
<1>3. FoundBy(g, ps) = FoundBy(f, ps)
  BY FoundAt
<1>4. QED BY <1>2, <1>3 DEF LedgerOf

(* One more operation of p: where it stands, and what it adds.              *)
More(f, p, op) == [f EXCEPT ![p] = Append(f[p], op)]

LEMMA OneMore ==
  ASSUME NEW f \in Histories, NEW p \in Provider, NEW op \in Operation
  PROVE  /\ More(f, p, op) \in Histories
         /\ \A kinds : Tally(More(f, p, op), {p}, kinds) =
                         Tally(f, {p}, kinds) + (IF op.kind \in kinds THEN 1 ELSE 0)
         /\ FoundBy(More(f, p, op), {p}) =
              FoundBy(f, {p}) \cup (IF op.kind = "hit" THEN {op.found} ELSE {})
<1> DEFINE g == More(f, p, op)
           last == Len(f[p]) + 1
<1>1. f[p] \in Seq(Operation) /\ g[p] = Append(f[p], op)
  BY DEF Histories, More
<1>2. g \in Histories
  BY <1>1 DEF Histories, More
<1>3. /\ last \notin DOMAIN f[p] /\ g[p][last] = op
      /\ \A i \in DOMAIN f[p] : g[p][i] = f[p][i]
      /\ DOMAIN g[p] = DOMAIN f[p] \cup {last}
  <2>1. Len(f[p]) \in Nat /\ DOMAIN f[p] = 1..Len(f[p]) /\ DOMAIN g[p] = 1..last
    BY <1>1
  <2>2. /\ last \notin DOMAIN f[p] /\ DOMAIN g[p] = DOMAIN f[p] \cup {last}
    BY <2>1
  <2>3. g[p][last] = op /\ \A i \in DOMAIN f[p] : g[p][i] = f[p][i]
    BY <1>1, <2>1
  <2>4. QED BY <2>2, <2>3
<1> HIDE DEF g, last
<1>4. ASSUME NEW kinds
      PROVE  Tally(g, {p}, kinds) = Tally(f, {p}, kinds) + (IF op.kind \in kinds THEN 1 ELSE 0)
  <2>1. \A o : o \in Places(f, {p}, kinds) <=>
          \E i \in DOMAIN f[p] : o = <<p, i>> /\ f[p][i].kind \in kinds
    BY Placed
  <2>2. \A o : o \in Places(g, {p}, kinds) <=>
          \E i \in DOMAIN g[p] : o = <<p, i>> /\ g[p][i].kind \in kinds
    BY <1>2, Placed
  <2>3. IsFiniteSet(Places(f, {p}, kinds)) /\ Tally(f, {p}, kinds) \in Nat
    BY PlacesFinite
  <2>4. CASE op.kind \in kinds
    <3>0. \A i : <<p, last>> = <<p, i>> => i = last
      OBVIOUS
    <3>1. <<p, last>> \notin Places(f, {p}, kinds)
      BY <1>3, <2>1, <3>0
    <3>2. \A o : o \in Places(g, {p}, kinds) <=> o \in Places(f, {p}, kinds) \/ o = <<p, last>>
      BY <1>3, <2>1, <2>2, <2>4
    <3>3. Places(g, {p}, kinds) = Places(f, {p}, kinds) \cup {<<p, last>>}
      BY <3>2
    <3>4. Cardinality(Places(g, {p}, kinds)) = Cardinality(Places(f, {p}, kinds)) + 1
      BY <2>3, <3>1, <3>3, FS_AddElement
    <3>5. QED BY <2>4, <3>4 DEF Tally
  <2>5. CASE op.kind \notin kinds
    <3>1. \A o : o \in Places(g, {p}, kinds) <=> o \in Places(f, {p}, kinds)
      BY <1>3, <2>1, <2>2, <2>5
    <3>2. Places(g, {p}, kinds) = Places(f, {p}, kinds)
      BY <3>1
    <3>3. QED BY <2>3, <2>5, <3>2 DEF Tally
  <2>6. QED BY <2>4, <2>5
<1>5. FoundBy(g, {p}) = FoundBy(f, {p}) \cup (IF op.kind = "hit" THEN {op.found} ELSE {})
  <2>1. \A h : h \in FoundBy(f, {p}) <=> \E i \in DOMAIN f[p] : f[p][i].kind = "hit" /\ h = f[p][i].found
    BY FoundAt
  <2>2. \A h : h \in FoundBy(g, {p}) <=> \E i \in DOMAIN g[p] : g[p][i].kind = "hit" /\ h = g[p][i].found
    BY <1>2, FoundAt
  <2>3. \A h : h \in FoundBy(g, {p}) <=> h \in FoundBy(f, {p}) \/ (op.kind = "hit" /\ h = op.found)
    <3>1. ASSUME NEW h, h \in FoundBy(g, {p})
          PROVE  h \in FoundBy(f, {p}) \/ (op.kind = "hit" /\ h = op.found)
      <4>1. PICK i \in DOMAIN g[p] : g[p][i].kind = "hit" /\ h = g[p][i].found
        BY <2>2, <3>1
      <4>2. QED BY <1>3, <2>1, <4>1
    <3>2. ASSUME NEW h, h \in FoundBy(f, {p}) PROVE h \in FoundBy(g, {p})
      <4>1. PICK i \in DOMAIN f[p] : f[p][i].kind = "hit" /\ h = f[p][i].found
        BY <2>1, <3>2
      <4>2. i \in DOMAIN g[p] /\ g[p][i] = f[p][i]
        BY <1>3
      <4>3. QED BY <2>2, <4>1, <4>2
    <3>3. ASSUME op.kind = "hit" PROVE op.found \in FoundBy(g, {p})
      <4>1. last \in DOMAIN g[p] /\ g[p][last] = op
        BY <1>3
      <4>2. QED BY <2>2, <3>3, <4>1
    <3>4. QED BY <3>1, <3>2, <3>3
  <2>4. QED BY <2>3
<1>6. QED BY <1>2, <1>4, <1>5 DEF g

(* The older of two ages is the oldest of all. *)
LEMMA OldestOfBoth ==
  ASSUME NEW held \in Ages \cup {NoAge}, NEW other \in Ages \cup {NoAge},
         NEW H \in SUBSET (Ages \cup {NoAge}), NEW G \in SUBSET (Ages \cup {NoAge}),
         OldestOf(held, H), OldestOf(other, G)
  PROVE  OldestOf(Oldest(held, other), H \cup G)
<1>1. \A a \in Ages : a.age \in Nat
  BY FanOutAssumption
<1>2. CASE other # NoAge /\ (held = NoAge \/ other.age > held.age)
  <2>1. Oldest(held, other) = other
    BY <1>2 DEF Oldest
  <2>2. \A h \in H : h # NoAge => h.age <= other.age
    BY <1>1, <1>2 DEF OldestOf
  <2>3. QED BY <1>2, <2>1, <2>2 DEF OldestOf
<1>3. CASE ~(other # NoAge /\ (held = NoAge \/ other.age > held.age))
  <2>1. Oldest(held, other) = held
    BY <1>3 DEF Oldest
  <2>2. CASE other = NoAge
    BY <2>1, <2>2 DEF OldestOf
  <2>3. CASE other # NoAge
    <3>1. held # NoAge /\ other.age <= held.age
      BY <1>1, <1>3, <2>3
    <3>2. \A h \in G : h # NoAge => h.age <= held.age
      BY <1>1, <2>3, <3>1 DEF OldestOf
    <3>3. QED BY <2>1, <3>1, <3>2 DEF OldestOf
  <2>4. QED BY <2>2, <2>3
<1>4. QED BY <1>2, <1>3

(* An entry that counts what was done keeps the ledger true. *)
LEMMA EntryTold ==
  ASSUME NEW f \in Histories, NEW p \in Provider, NEW op \in Operation,
         NEW l \in Ledgers, LedgerOf(l, {p}, f), NEW m,
         m.backends = l.backends \cup {Backend(p)},
         m.lookups = l.lookups + (IF op.kind \in LookupKind THEN 1 ELSE 0),
         m.hits = l.hits + (IF op.kind \in {"hit"} THEN 1 ELSE 0),
         m.errors = l.errors + (IF op.kind \in ErrorKind THEN 1 ELSE 0),
         m.ageless <=> l.ageless \/ (op.kind = "hit" /\ op.found = NoAge),
         m.oldest = IF op.kind = "hit" THEN Oldest(l.oldest, op.found) ELSE l.oldest
  PROVE  LedgerOf(m, {p}, More(f, p, op))
<1>1. l.oldest \in Ages \cup {NoAge} /\ op.found \in Ages \cup {NoAge}
  BY DEF Ledgers, Operation
<1>2. m.backends = {Backend(q) : q \in {p}}
  BY DEF LedgerOf
<1>3. /\ m.lookups = Tally(More(f, p, op), {p}, LookupKind)
      /\ m.hits = Tally(More(f, p, op), {p}, {"hit"})
      /\ m.errors = Tally(More(f, p, op), {p}, ErrorKind)
  <2> DEFINE g == More(f, p, op)
  <2>1. /\ l.lookups = Tally(f, {p}, LookupKind)
        /\ l.hits = Tally(f, {p}, {"hit"})
        /\ l.errors = Tally(f, {p}, ErrorKind)
    BY DEF LedgerOf
  <2>2. \A kinds : Tally(g, {p}, kinds) = Tally(f, {p}, kinds) + (IF op.kind \in kinds THEN 1 ELSE 0)
    BY OneMore
  <2> HIDE DEF g
  <2>3. /\ Tally(g, {p}, LookupKind) = l.lookups + (IF op.kind \in LookupKind THEN 1 ELSE 0)
        /\ Tally(g, {p}, {"hit"}) = l.hits + (IF op.kind \in {"hit"} THEN 1 ELSE 0)
        /\ Tally(g, {p}, ErrorKind) = l.errors + (IF op.kind \in ErrorKind THEN 1 ELSE 0)
    BY <2>1, <2>2
  <2>4. /\ m.lookups = Tally(g, {p}, LookupKind)
        /\ m.hits = Tally(g, {p}, {"hit"})
        /\ m.errors = Tally(g, {p}, ErrorKind)
    BY <2>3
  <2>5. QED BY <2>4 DEF g
<1>4. /\ FoundBy(More(f, p, op), {p}) = FoundBy(f, {p}) \cup (IF op.kind = "hit" THEN {op.found} ELSE {})
      /\ FoundBy(f, {p}) \subseteq Ages \cup {NoAge}
  <2>1. FoundBy(More(f, p, op), {p}) = FoundBy(f, {p}) \cup (IF op.kind = "hit" THEN {op.found} ELSE {})
    BY OneMore
  <2>2. FoundBy(f, {p}) \subseteq Ages \cup {NoAge}
    BY FoundTyped
  <2>3. QED BY <2>1, <2>2
<1>5. l.ageless <=> NoAge \in FoundBy(f, {p})
  BY DEF LedgerOf
<1>6. OldestOf(l.oldest, FoundBy(f, {p}))
  BY DEF LedgerOf
<1>7. CASE op.kind = "hit"
  <2>1. OldestOf(op.found, {op.found})
    <3>1. op.found # NoAge => op.found.age \in Nat
      BY <1>1, FanOutAssumption
    <3>2. QED BY <3>1 DEF OldestOf
  <2>2. OldestOf(m.oldest, FoundBy(More(f, p, op), {p}))
    <3>1. FoundBy(More(f, p, op), {p}) = FoundBy(f, {p}) \cup {op.found}
      BY <1>4, <1>7
    <3>2. OldestOf(Oldest(l.oldest, op.found), FoundBy(f, {p}) \cup {op.found})
      <4>1. FoundBy(f, {p}) \in SUBSET (Ages \cup {NoAge}) /\ {op.found} \in SUBSET (Ages \cup {NoAge})
        BY <1>1, <1>4
      <4>2. QED BY <4>1, <1>1, <1>6, <2>1, OldestOfBoth, Zenon
    <3>3. m.oldest = Oldest(l.oldest, op.found)
      BY <1>7
    <3>4. QED BY <3>1, <3>2, <3>3
  <2>3. m.ageless <=> NoAge \in FoundBy(More(f, p, op), {p})
    BY <1>4, <1>5, <1>7
  <2>4. QED BY <1>2, <1>3, <2>2, <2>3 DEF LedgerOf
<1>8. CASE op.kind # "hit"
  <2>1. FoundBy(More(f, p, op), {p}) = FoundBy(f, {p})
    BY <1>4, <1>8
  <2>2. m.oldest = l.oldest /\ (m.ageless <=> l.ageless)
    BY <1>8
  <2>3. QED BY <1>2, <1>3, <1>5, <1>6, <2>1, <2>2 DEF LedgerOf
<1>9. QED BY <1>7, <1>8

(* A ledger that takes over another tells of the operations of both.        *)
LEMMA MergeTold ==
  ASSUME NEW f \in Histories, NEW ps \in SUBSET Provider, NEW qs \in SUBSET Provider,
         ps \cap qs = {}, NEW l \in Ledgers, NEW child \in Ledgers,
         LedgerOf(l, ps, f), LedgerOf(child, qs, f)
  PROVE  LedgerOf(Merge(l, child), ps \cup qs, f)
<1> DEFINE m == Merge(l, child)
<1>1. /\ m.backends = l.backends \cup child.backends
      /\ m.lookups = l.lookups + child.lookups
      /\ m.hits = l.hits + child.hits
      /\ m.errors = l.errors + child.errors
      /\ m.ageless <=> l.ageless \/ child.ageless
      /\ m.oldest = Oldest(l.oldest, child.oldest)
  BY DEF Merge, Ledgers
<1> HIDE DEF m
<1>2. m.backends = {Backend(q) : q \in ps \cup qs}
  BY <1>1 DEF LedgerOf
<1>3. \A kinds : Tally(f, ps \cup qs, kinds) = Tally(f, ps, kinds) + Tally(f, qs, kinds)
  BY ProvidersAdd
<1>4. /\ m.lookups = Tally(f, ps \cup qs, LookupKind)
      /\ m.hits = Tally(f, ps \cup qs, {"hit"})
      /\ m.errors = Tally(f, ps \cup qs, ErrorKind)
  BY <1>1, <1>3 DEF LedgerOf
<1>5. /\ FoundBy(f, ps \cup qs) = FoundBy(f, ps) \cup FoundBy(f, qs)
      /\ FoundBy(f, ps) \subseteq Ages \cup {NoAge} /\ FoundBy(f, qs) \subseteq Ages \cup {NoAge}
  BY FoundAdd, FoundTyped
<1>6. l.oldest \in Ages \cup {NoAge} /\ child.oldest \in Ages \cup {NoAge}
  BY DEF Ledgers
<1>7. OldestOf(m.oldest, FoundBy(f, ps \cup qs))
  <2>1. OldestOf(l.oldest, FoundBy(f, ps)) /\ OldestOf(child.oldest, FoundBy(f, qs))
    BY DEF LedgerOf
  <2>2. OldestOf(Oldest(l.oldest, child.oldest), FoundBy(f, ps) \cup FoundBy(f, qs))
    BY <1>5, <1>6, <2>1, OldestOfBoth
  <2>3. m.oldest = Oldest(l.oldest, child.oldest)
    BY <1>1
  <2>4. QED BY <1>5, <2>2, <2>3
<1>8. m.ageless <=> NoAge \in FoundBy(f, ps \cup qs)
  BY <1>1, <1>5 DEF LedgerOf
<1>9. QED BY <1>2, <1>4, <1>7, <1>8 DEF LedgerOf, m

(* The block of a ledger that is true of ps tells of ps. *)
LEMMA BlockTells ==
  ASSUME TypeOK, NEW ps \in SUBSET Provider, ps # {}, NEW l \in Ledgers, LedgerOf(l, ps, ops)
  PROVE  TellsOf(Provenance(l), ps)
<1> DEFINE b == Provenance(l)
           misses == OpKind \ {"hit", "failed set", "skipped set"}
<1>1. ops \in Histories
  BY DEF TypeOK, Histories, Operation
<1>2. \A kinds : Count(ps, kinds) = Tally(ops, ps, kinds)
  BY DEF Count, Tally, Places, Operations
<1>3. HitsOf(ps) = FoundBy(ops, ps)
  BY DEF HitsOf, FoundBy, Places, Operations
<1>4. l.backends # {} /\ l.backends \subseteq {"file", "redis"}
  BY DEF LedgerOf, Ledgers
<1>5. /\ b.lookups = l.lookups /\ b.hits = l.hits /\ b.errors = l.errors
      /\ b.allHits = (l.lookups > 0 /\ l.hits = l.lookups)
      /\ b.oldest = IF l.ageless THEN NoAge ELSE l.oldest
      /\ b.backend = IF Cardinality(l.backends) = 1 THEN CHOOSE x \in l.backends : TRUE ELSE "mixed"
  <2>1. b = [backend |-> IF Cardinality(l.backends) = 1 THEN CHOOSE x \in l.backends : TRUE ELSE "mixed",
             lookups |-> l.lookups, hits |-> l.hits, allHits |-> l.lookups > 0 /\ l.hits = l.lookups,
             oldest |-> IF l.ageless THEN NoAge ELSE l.oldest, errors |-> l.errors]
    BY <1>4, Zenon DEF Provenance
  <2> HIDE DEF b
  <2>2. /\ b.lookups = l.lookups /\ b.hits = l.hits /\ b.errors = l.errors
        /\ b.oldest = IF l.ageless THEN NoAge ELSE l.oldest
        /\ b.backend = IF Cardinality(l.backends) = 1 THEN CHOOSE x \in l.backends : TRUE ELSE "mixed"
    BY <2>1
  <2>3. b.allHits = (l.lookups > 0 /\ l.hits = l.lookups)
    BY <2>1
  <2>4. QED BY <2>2, <2>3
<1> HIDE DEF b
<1>6. b.allHits <=> b.lookups > 0 /\ Count(ps, misses) = 0
  <2>1. Tally(ops, ps, {"hit"} \cup misses) = Tally(ops, ps, {"hit"}) + Tally(ops, ps, misses)
    <3>1. {"hit"} \cap misses = {}
      OBVIOUS
    <3> HIDE DEF misses
    <3>2. QED BY <1>1, <3>1, KindsAdd
  <2>2. {"hit"} \cup misses = LookupKind
    BY DEF LookupKind, OpKind
  <2>3. Tally(ops, ps, {"hit"}) \in Nat /\ Tally(ops, ps, misses) \in Nat
    BY <1>1, PlacesFinite
  <2> HIDE DEF misses
  <2>4. /\ l.lookups = Tally(ops, ps, {"hit"} \cup misses)
        /\ l.hits = Tally(ops, ps, {"hit"})
    BY <2>2 DEF LedgerOf
  <2>5. l.hits = l.lookups <=> Count(ps, misses) = 0
    BY <1>2, <2>1, <2>3, <2>4
  <2>6. QED BY <1>5, <2>5
<1>7. b.backend = "mixed" <=> \E p, q \in ps : Backend(p) # Backend(q)
  <2>1. IsFiniteSet(l.backends)
    <3>1. IsFiniteSet({"file", "redis"})
      <4>1. IsFiniteSet({"file"} \cup {"redis"})
        BY FS_Singleton, FS_Union
      <4>2. {"file", "redis"} = {"file"} \cup {"redis"}
        OBVIOUS
      <4>3. QED BY <4>1, <4>2
    <3>2. QED BY <1>4, <3>1, FS_Subset
  <2>2. l.backends = {Backend(p) : p \in ps}
    BY DEF LedgerOf
  <2>3. CASE Cardinality(l.backends) = 1
    <3>1. PICK x : l.backends = {x}
      BY <2>1, <2>3, FS_Singleton
    <3>2. b.backend = x /\ x # "mixed"
      BY <1>4, <1>5, <2>3, <3>1
    <3>3. \A p \in ps : Backend(p) = x
      BY <2>2, <3>1
    <3>4. QED BY <3>2, <3>3
  <2>4. CASE Cardinality(l.backends) # 1
    <3>1. b.backend = "mixed"
      BY <1>5, <2>4
    <3>2. \A x : l.backends # {x}
      BY <2>4, FS_Singleton
    <3>3. PICK p \in ps : Backend(p) \in l.backends
      BY <2>2
    <3>4. \E y \in l.backends : y # Backend(p)
      BY <3>2, <3>3
    <3>5. QED BY <2>2, <3>1, <3>4
  <2>5. QED BY <2>3, <2>4
<1>8. /\ b.oldest # NoAge =>
           b.oldest \in HitsOf(ps) /\ \A h \in HitsOf(ps) : h # NoAge /\ h.age <= b.oldest.age
      /\ b.oldest = NoAge => HitsOf(ps) = {} \/ NoAge \in HitsOf(ps)
  <2>1. (l.ageless <=> NoAge \in FoundBy(ops, ps)) /\ OldestOf(l.oldest, FoundBy(ops, ps))
    BY DEF LedgerOf
  <2>2. l.ageless \in BOOLEAN
    BY DEF Ledgers
  <2>3. CASE l.ageless
    BY <1>3, <1>5, <2>1, <2>3
  <2>4. CASE ~l.ageless
    <3>1. b.oldest = l.oldest /\ NoAge \notin HitsOf(ps)
      BY <1>3, <1>5, <2>1, <2>4
    <3>2. OldestOf(b.oldest, HitsOf(ps))
      BY <1>3, <2>1, <3>1
    <3>3. QED BY <3>1, <3>2 DEF OldestOf
  <2>5. QED BY <2>2, <2>3, <2>4
<1>9. /\ b.lookups = Count(ps, OpKind \ {"failed set", "skipped set"})
      /\ b.hits = Count(ps, {"hit"})
      /\ b.errors = Count(ps, OpKind \ {"hit", "miss"})
  BY <1>2, <1>5 DEF LedgerOf, LookupKind, ErrorKind
<1>10. QED BY <1>6, <1>7, <1>8, <1>9 DEF TellsOf, b

(* Every ledger is true of what was done under it: a provider's own of its  *)
(* own operations, the command's of those whose call is over.  A store is   *)
(* built when the call begins, and no call is over before the envelope is   *)
(* printed but those it waits for.                                          *)
Closed == {p \in Provider : pc[p] = "done"}

Recorded ==
  /\ \A p \in Provider :
       /\ pc[p] = "queued" => ops[p] = <<>> /\ ledger[p] = EmptyLedger
       /\ pc[p] # "queued" => p \in included /\ LedgerOf(ledger[p], {p}, ops)
       /\ pc[p] \in {"getting", "setting"} => p \in InRedis
       /\ pc[p] = "done" /\ answer[p].ok => block[p] = Provenance(ledger[p])
  /\ block = [p \in Provider |-> block[p]]
  /\ LedgerOf(total, Closed, ops)
  /\ envelope.kind = "ok" => included # {} /\ envelope.cache = Provenance(total)

(* One operation of one provider: the others' ledgers, the command's and    *)
(* every block stay true.                                                   *)
LEMMA RecordKeeps ==
  ASSUME TypeOK, Recorded, NEW p \in Provider, NEW op \in Operation, NEW l \in Ledgers,
         Record(p, op, l), LedgerOf(l, {p}, More(ops, p, op)),
         pc[p] \notin {"queued", "returned", "done"},
         pc' = pc \/ pc' = [pc EXCEPT ![p] = "calling"],
         UNCHANGED <<included, total, answer, block, envelope>>
  PROVE  Recorded'
<1>1. ops \in Histories /\ ops' = More(ops, p, op)
  BY DEF TypeOK, Histories, Operation, Record, More
<1>2. ops' \in Histories /\ \A q \in Provider \ {p} : ops'[q] = ops[q] /\ ledger'[q] = ledger[q]
  BY <1>1, OneMore DEF Record, TypeOK, More, Histories
<1>3. ledger'[p] = l
  BY DEF Record, TypeOK
<1>4. /\ pc'[p] \notin {"queued", "returned", "done"}
      /\ pc'[p] \in {"getting", "setting"} => pc[p] \in {"getting", "setting"}
      /\ \A q \in Provider \ {p} : pc'[q] = pc[q]
  BY DEF TypeOK
<1>5. ASSUME NEW q \in Provider \ {p}
      PROVE  /\ pc'[q] = "queued" => ops'[q] = <<>> /\ ledger'[q] = EmptyLedger
             /\ pc'[q] # "queued" => q \in included' /\ LedgerOf(ledger'[q], {q}, ops')
             /\ pc'[q] \in {"getting", "setting"} => q \in InRedis
             /\ pc'[q] = "done" /\ answer'[q].ok => block'[q] = Provenance(ledger'[q])
  <2>1. LedgerOf(ledger[q], {q}, ops) => LedgerOf(ledger[q], {q}, ops')
    BY <1>1, <1>2, OthersApart
  <2>2. QED BY <1>2, <1>4, <2>1 DEF Recorded
<1>6. /\ pc'[p] # "queued" /\ pc'[p] # "done" /\ p \in included'
      /\ LedgerOf(ledger'[p], {p}, ops')
      /\ pc'[p] \in {"getting", "setting"} => p \in InRedis
  BY <1>1, <1>3, <1>4 DEF Recorded
<1>7. LedgerOf(total', Closed', ops')
  <2>1. Closed' = Closed /\ p \notin Closed
    BY <1>4 DEF Closed
  <2>2. LedgerOf(total, Closed, ops) => LedgerOf(total, Closed, ops')
    <3>1. \A q \in Closed : ops'[q] = ops[q]
      BY <1>2, <2>1 DEF Closed
    <3>2. Closed \in SUBSET Provider
      BY DEF Closed
    <3>3. QED BY <1>1, <1>2, <3>1, <3>2, OthersApart
  <2>3. QED BY <2>1, <2>2 DEF Recorded
<1>8. envelope'.kind = "ok" => included' # {} /\ envelope'.cache = Provenance(total')
  BY DEF Recorded
<1>9. \A q \in Provider :
        /\ pc'[q] = "queued" => ops'[q] = <<>> /\ ledger'[q] = EmptyLedger
        /\ pc'[q] # "queued" => q \in included' /\ LedgerOf(ledger'[q], {q}, ops')
        /\ pc'[q] \in {"getting", "setting"} => q \in InRedis
        /\ pc'[q] = "done" /\ answer'[q].ok => block'[q] = Provenance(ledger'[q])
  BY <1>5, <1>6
<1>10. QED BY <1>7, <1>8, <1>9 DEF Recorded

(* What each way of recording does to a ledger. *)
LEMMA EntriesTold ==
  ASSUME TypeOK, NEW p \in Provider, LedgerOf(ledger[p], {p}, ops), NEW found \in Ages \cup {NoAge}
  PROVE  /\ LedgerOf(AddMiss(ledger[p], Backend(p)), {p}, More(ops, p, Op("miss", NoAge)))
         /\ LedgerOf(AddHit(ledger[p], Backend(p), found), {p}, More(ops, p, Op("hit", found)))
         /\ \A kind \in LookupKind \cap ErrorKind :
              LedgerOf(AddMiss(AddError(ledger[p], Backend(p)), Backend(p)), {p}, More(ops, p, Op(kind, NoAge)))
         /\ \A kind \in ErrorKind \ LookupKind :
              LedgerOf(AddError(ledger[p], Backend(p)), {p}, More(ops, p, Op(kind, NoAge)))
<1> DEFINE l == ledger[p]
<1>1. ops \in Histories /\ l \in Ledgers
  BY DEF TypeOK, Histories, Operation
<1>2. \A kind \in OpKind, age \in Ages \cup {NoAge} :
        Op(kind, age) \in Operation /\ Op(kind, age).kind = kind /\ Op(kind, age).found = age
  BY DEF Op, Operation
<1>3. /\ "hit" \in LookupKind /\ "hit" \notin ErrorKind /\ "hit" \in OpKind
      /\ "miss" \in LookupKind /\ "miss" \notin ErrorKind /\ "miss" \in OpKind
      /\ \A k \in ErrorKind : k \in OpKind /\ k \notin {"hit"}
  <2>1. \A k \in ErrorKind : k \in OpKind /\ k \notin {"hit"}
    BY DEF ErrorKind
  <2>2. QED BY <2>1 DEF LookupKind, ErrorKind, OpKind
<1>4. /\ l.lookups \in Nat /\ l.hits \in Nat /\ l.errors \in Nat /\ l.ageless \in BOOLEAN
  BY <1>1 DEF Ledgers
<1> HIDE DEF l
<1>5. LedgerOf(AddMiss(l, Backend(p)), {p}, More(ops, p, Op("miss", NoAge)))
  <2> DEFINE m == AddMiss(l, Backend(p))
  <2>1. /\ m.backends = l.backends \cup {Backend(p)} /\ m.lookups = l.lookups + 1 /\ m.hits = l.hits
        /\ m.errors = l.errors /\ m.ageless = l.ageless /\ m.oldest = l.oldest
    BY <1>1 DEF AddMiss, Ledgers
  <2> HIDE DEF m
  <2>2. Op("miss", NoAge) \in Operation /\ Op("miss", NoAge).kind = "miss"
    BY <1>2, <1>3
  <2>3. /\ m.lookups = l.lookups + (IF Op("miss", NoAge).kind \in LookupKind THEN 1 ELSE 0)
        /\ m.hits = l.hits + (IF Op("miss", NoAge).kind \in {"hit"} THEN 1 ELSE 0)
        /\ m.errors = l.errors + (IF Op("miss", NoAge).kind \in ErrorKind THEN 1 ELSE 0)
    <3>1. Op("miss", NoAge).kind \in LookupKind /\ Op("miss", NoAge).kind \notin ErrorKind /\ Op("miss", NoAge).kind \notin {"hit"}
      BY <1>3, <2>2
    <3>2. QED BY <1>4, <2>1, <3>1
  <2>4. LedgerOf(l, {p}, ops)
    BY DEF l
  <2>5. LedgerOf(m, {p}, More(ops, p, Op("miss", NoAge)))
    BY <1>1, <2>1, <2>2, <2>3, <2>4, EntryTold
  <2>6. QED BY <2>5 DEF m
<1>6. LedgerOf(AddHit(l, Backend(p), found), {p}, More(ops, p, Op("hit", found)))
  <2> DEFINE m == AddHit(l, Backend(p), found)
  <2>1. /\ m.backends = l.backends \cup {Backend(p)} /\ m.lookups = l.lookups + 1 /\ m.hits = l.hits + 1
        /\ m.errors = l.errors /\ m.ageless = (l.ageless \/ found = NoAge)
        /\ m.oldest = Oldest(l.oldest, found)
    BY <1>1 DEF AddHit, Ledgers
  <2> HIDE DEF m
  <2>2. Op("hit", found) \in Operation /\ Op("hit", found).kind = "hit" /\ Op("hit", found).found = found
    BY <1>2, <1>3
  <2>3. /\ m.lookups = l.lookups + (IF Op("hit", found).kind \in LookupKind THEN 1 ELSE 0)
        /\ m.hits = l.hits + (IF Op("hit", found).kind \in {"hit"} THEN 1 ELSE 0)
        /\ m.errors = l.errors + (IF Op("hit", found).kind \in ErrorKind THEN 1 ELSE 0)
    <3>1. Op("hit", found).kind \in LookupKind /\ Op("hit", found).kind \notin ErrorKind /\ Op("hit", found).kind \in {"hit"}
      BY <1>3, <2>2
    <3>2. QED BY <1>4, <2>1, <3>1
  <2>4. LedgerOf(l, {p}, ops)
    BY DEF l
  <2>5. LedgerOf(m, {p}, More(ops, p, Op("hit", found)))
    BY <1>1, <2>1, <2>2, <2>3, <2>4, EntryTold
  <2>6. QED BY <2>5 DEF m
<1>7. ASSUME NEW kind \in LookupKind \cap ErrorKind
      PROVE LedgerOf(AddMiss(AddError(l, Backend(p)), Backend(p)), {p}, More(ops, p, Op(kind, NoAge)))
  <2> DEFINE m == AddMiss(AddError(l, Backend(p)), Backend(p))
  <2>1. /\ m.backends = l.backends \cup {Backend(p)} /\ m.lookups = l.lookups + 1 /\ m.hits = l.hits
        /\ m.errors = l.errors + 1 /\ m.ageless = l.ageless /\ m.oldest = l.oldest
    BY <1>1 DEF AddMiss, AddError, Ledgers
  <2> HIDE DEF m
  <2>2. Op(kind, NoAge) \in Operation /\ Op(kind, NoAge).kind = kind
    <3>1. kind \in OpKind
      BY <1>3, <1>7
    <3>2. QED BY <1>2, <3>1
  <2>3. /\ m.lookups = l.lookups + (IF Op(kind, NoAge).kind \in LookupKind THEN 1 ELSE 0)
        /\ m.hits = l.hits + (IF Op(kind, NoAge).kind \in {"hit"} THEN 1 ELSE 0)
        /\ m.errors = l.errors + (IF Op(kind, NoAge).kind \in ErrorKind THEN 1 ELSE 0)
    <3>1. /\ Op(kind, NoAge).kind \in LookupKind /\ Op(kind, NoAge).kind \in ErrorKind
          /\ Op(kind, NoAge).kind \notin {"hit"}
      <4>1. kind \in ErrorKind /\ kind \in LookupKind
        BY <1>7
      <4>2. kind \notin {"hit"}
        BY <1>3, <4>1
      <4>3. Op(kind, NoAge).kind = kind
        BY <2>2
      <4>4. QED BY <4>1, <4>2, <4>3
    <3>2. QED BY <1>4, <2>1, <3>1
  <2>4. LedgerOf(l, {p}, ops)
    BY DEF l
  <2>5. LedgerOf(m, {p}, More(ops, p, Op(kind, NoAge)))
    <3>1. Op(kind, NoAge).kind # "hit"
      BY <1>3, <1>7, <2>2
    <3> DEFINE op == Op(kind, NoAge)
    <3> HIDE DEF op
    <3>2. op \in Operation /\ op.kind # "hit"
      BY <2>2, <3>1 DEF op
    <3>3. /\ m.ageless <=> l.ageless \/ (op.kind = "hit" /\ op.found = NoAge)
          /\ m.oldest = IF op.kind = "hit" THEN Oldest(l.oldest, op.found) ELSE l.oldest
      BY <2>1, <3>2
    <3>4. /\ m.lookups = l.lookups + (IF op.kind \in LookupKind THEN 1 ELSE 0)
          /\ m.hits = l.hits + (IF op.kind \in {"hit"} THEN 1 ELSE 0)
          /\ m.errors = l.errors + (IF op.kind \in ErrorKind THEN 1 ELSE 0)
      BY <2>3 DEF op
    <3>5. LedgerOf(m, {p}, More(ops, p, op))
      BY <1>1, <2>1, <2>4, <3>2, <3>3, <3>4, EntryTold
    <3>6. QED BY <3>5 DEF op
  <2>6. QED BY <2>5 DEF m
<1>8. ASSUME NEW kind \in ErrorKind \ LookupKind
      PROVE LedgerOf(AddError(l, Backend(p)), {p}, More(ops, p, Op(kind, NoAge)))
  <2> DEFINE m == AddError(l, Backend(p))
  <2>1. /\ m.backends = l.backends \cup {Backend(p)} /\ m.lookups = l.lookups /\ m.hits = l.hits
        /\ m.errors = l.errors + 1 /\ m.ageless = l.ageless /\ m.oldest = l.oldest
    BY <1>1 DEF AddError, Ledgers
  <2> HIDE DEF m
  <2>2. Op(kind, NoAge) \in Operation /\ Op(kind, NoAge).kind = kind
    <3>1. kind \in OpKind
      BY <1>3, <1>8
    <3>2. QED BY <1>2, <3>1
  <2>3. /\ m.lookups = l.lookups + (IF Op(kind, NoAge).kind \in LookupKind THEN 1 ELSE 0)
        /\ m.hits = l.hits + (IF Op(kind, NoAge).kind \in {"hit"} THEN 1 ELSE 0)
        /\ m.errors = l.errors + (IF Op(kind, NoAge).kind \in ErrorKind THEN 1 ELSE 0)
    <3>1. /\ Op(kind, NoAge).kind \notin LookupKind /\ Op(kind, NoAge).kind \in ErrorKind
          /\ Op(kind, NoAge).kind \notin {"hit"}
      <4>1. kind \in ErrorKind /\ kind \notin LookupKind
        BY <1>8
      <4>2. kind \notin {"hit"}
        BY <1>3, <4>1
      <4>3. Op(kind, NoAge).kind = kind
        BY <2>2
      <4>4. QED BY <4>1, <4>2, <4>3
    <3>2. QED BY <1>4, <2>1, <3>1
  <2>4. LedgerOf(l, {p}, ops)
    BY DEF l
  <2>5. LedgerOf(m, {p}, More(ops, p, Op(kind, NoAge)))
    <3>1. Op(kind, NoAge).kind # "hit"
      BY <1>3, <1>8, <2>2
    <3> DEFINE op == Op(kind, NoAge)
    <3> HIDE DEF op
    <3>2. op \in Operation /\ op.kind # "hit"
      BY <2>2, <3>1 DEF op
    <3>3. /\ m.ageless <=> l.ageless \/ (op.kind = "hit" /\ op.found = NoAge)
          /\ m.oldest = IF op.kind = "hit" THEN Oldest(l.oldest, op.found) ELSE l.oldest
      BY <2>1, <3>2
    <3>4. /\ m.lookups = l.lookups + (IF op.kind \in LookupKind THEN 1 ELSE 0)
          /\ m.hits = l.hits + (IF op.kind \in {"hit"} THEN 1 ELSE 0)
          /\ m.errors = l.errors + (IF op.kind \in ErrorKind THEN 1 ELSE 0)
      BY <2>3 DEF op
    <3>5. LedgerOf(m, {p}, More(ops, p, op))
      BY <1>1, <2>1, <2>4, <3>2, <3>3, <3>4, EntryTold
    <3>6. QED BY <3>5 DEF op
  <2>6. QED BY <2>5 DEF m
<1>9. QED BY <1>5, <1>6, <1>7, <1>8 DEF l

(* Nothing was done yet: an empty ledger is true of no provider, and with a *)
(* store of one that did nothing.                                           *)
LEMMA NothingTold ==
  ASSUME NEW f \in Histories
  PROVE  /\ LedgerOf(EmptyLedger, {}, f)
         /\ \A p \in Provider : f[p] = <<>> => LedgerOf(AddStore(EmptyLedger, Backend(p)), {p}, f)
<1>1. ASSUME NEW ps \in SUBSET Provider, \A p \in ps : f[p] = <<>>
      PROVE  FoundBy(f, ps) = {} /\ \A kinds : Tally(f, ps, kinds) = 0
  <2>1. \A p \in ps : DOMAIN f[p] = {}
    BY <1>1
  <2>2. FoundBy(f, ps) = {}
    BY <2>1, FoundAt
  <2>3. ASSUME NEW kinds PROVE Tally(f, ps, kinds) = 0
    <3>1. Places(f, ps, kinds) = {}
      BY <2>1, Placed
    <3>2. QED BY <3>1, FS_EmptySet DEF Tally
  <2>4. QED BY <2>2, <2>3
<1>2. LedgerOf(EmptyLedger, {}, f)
  <2>1. FoundBy(f, {}) = {} /\ \A kinds : Tally(f, {}, kinds) = 0
    BY <1>1
  <2>2. QED BY <2>1 DEF LedgerOf, EmptyLedger, OldestOf
<1>3. ASSUME NEW p \in Provider, f[p] = <<>>
      PROVE  LedgerOf(AddStore(EmptyLedger, Backend(p)), {p}, f)
  <2>1. FoundBy(f, {p}) = {} /\ \A kinds : Tally(f, {p}, kinds) = 0
    BY <1>1, <1>3
  <2>2. QED BY <2>1 DEF LedgerOf, AddStore, EmptyLedger, OldestOf
<1>4. QED BY <1>2, <1>3

LEMMA NextRecorded == TypeOK /\ Settled /\ Recorded /\ [Next]_vars => Recorded'
<1> SUFFICES ASSUME TypeOK, Settled, Recorded, [Next]_vars PROVE Recorded'
  OBVIOUS
<1>1. ops \in Histories /\ ledger \in [Provider -> Ledgers] /\ total \in Ledgers
  BY DEF TypeOK, Histories, Operation
<1>2. \A kind \in OpKind, age \in Ages \cup {NoAge} : Op(kind, age) \in Operation
  BY DEF Op, Operation
<1>3. \A p \in Provider : pc[p] # "queued" => LedgerOf(ledger[p], {p}, ops)
  BY DEF Recorded
<1>4. \A p \in InRedis : Backend(p) = "redis"
  BY DEF Backend
<1>. "failed get" \in LookupKind \cap ErrorKind /\ "skipped get" \in LookupKind \cap ErrorKind
  BY DEF LookupKind, ErrorKind, OpKind
<1>. "failed set" \in ErrorKind \ LookupKind /\ "skipped set" \in ErrorKind \ LookupKind
  BY DEF LookupKind, ErrorKind, OpKind
<1>5. ASSUME NEW p \in Provider, Begin(p) PROVE Recorded'
  <2>1. /\ pc[p] = "queued" /\ pc' = [pc EXCEPT ![p] = "calling"] /\ p \in included
        /\ ledger' = [ledger EXCEPT ![p] = AddStore(ledger[p], Backend(p))]
        /\ UNCHANGED <<included, total, answer, block, envelope, ops>>
    BY <1>5 DEF Begin, Step
  <2>2. ops[p] = <<>> /\ ledger[p] = EmptyLedger
    BY <2>1 DEF Recorded
  <2>3. LedgerOf(ledger'[p], {p}, ops)
    BY <1>1, <2>1, <2>2, NothingTold
  <2>4. Closed' = Closed
    BY <2>1 DEF Closed, TypeOK
  <2>5. \A q \in Provider \ {p} : pc'[q] = pc[q] /\ ledger'[q] = ledger[q]
    BY <2>1 DEF TypeOK
  <2>6. pc'[p] = "calling"
    BY <2>1 DEF TypeOK
  <2>7. QED BY <2>1, <2>3, <2>4, <2>5, <2>6 DEF Recorded
<1>6. ASSUME NEW p \in Provider, LookUpFile(p) PROVE Recorded'
  <2>1. /\ pc[p] = "calling" /\ Backend(p) = "file"
        /\ UNCHANGED <<included, pc, total, answer, block, envelope>>
    BY <1>6 DEF LookUpFile, Backend
  <2>2. CASE Record(p, Op("miss", NoAge), AddMiss(ledger[p], "file"))
    BY <1>1, <1>2, <1>3, <2>1, <2>2, EntriesTold, LedgerTyped, RecordKeeps DEF OpKind
  <2>3. ASSUME NEW found \in Ages, Record(p, Op("hit", found), AddHit(ledger[p], "file", found))
        PROVE Recorded'
    BY <1>1, <1>2, <1>3, <2>1, <2>3, EntriesTold, LedgerTyped, RecordKeeps DEF OpKind
  <2>4. QED BY <1>6, <2>2, <2>3 DEF LookUpFile
<1>7. ASSUME NEW p \in Provider, AskRedis(p) PROVE Recorded'
  <2>1. /\ pc[p] = "calling" /\ p \in InRedis
        /\ pc' = [pc EXCEPT ![p] = "getting"] \/ pc' = [pc EXCEPT ![p] = "setting"]
        /\ UNCHANGED <<included, ledger, total, answer, block, envelope, ops>>
    BY <1>7 DEF AskRedis, Step
  <2>2. /\ pc'[p] \in {"getting", "setting"}
        /\ \A q \in Provider \ {p} : pc'[q] = pc[q]
    BY <2>1 DEF TypeOK
  <2>3. Closed' = Closed
    BY <2>1, <2>2 DEF Closed
  <2>4. QED BY <2>1, <2>2, <2>3 DEF Recorded
<1>8. ASSUME NEW p \in Provider, RedisAnswers(p) \/ RedisFails(p) PROVE Recorded'
  <2>1. /\ pc[p] \in {"getting", "setting"} /\ pc' = [pc EXCEPT ![p] = "calling"]
        /\ UNCHANGED <<included, total, answer, block, envelope>>
    BY <1>8 DEF RedisAnswers, RedisFails, Step
  <2>2. Backend(p) = "redis" /\ LedgerOf(ledger[p], {p}, ops)
    BY <1>3, <1>4, <2>1 DEF Recorded
  <2>3. CASE UNCHANGED <<ops, ledger>>
    <3>1. /\ pc'[p] = "calling"
          /\ \A q \in Provider \ {p} : pc'[q] = pc[q]
      BY <2>1 DEF TypeOK
    <3>2. Closed' = Closed
      BY <2>1, <3>1 DEF Closed
    <3>3. QED BY <2>1, <2>3, <3>1, <3>2 DEF Recorded
  <2>4. CASE Record(p, Op("miss", NoAge), AddMiss(ledger[p], "redis"))
    BY <1>1, <1>2, <2>1, <2>2, <2>4, EntriesTold, LedgerTyped, RecordKeeps DEF OpKind
  <2>5. CASE Record(p, Op("hit", NoAge), AddHit(ledger[p], "redis", NoAge))
    BY <1>1, <1>2, <2>1, <2>2, <2>5, EntriesTold, LedgerTyped, RecordKeeps DEF OpKind
  <2>6. CASE Record(p, Op("failed get", NoAge), AddMiss(AddError(ledger[p], "redis"), "redis"))
    BY <1>1, <1>2, <2>1, <2>2, <2>6, EntriesTold, LedgerTyped, RecordKeeps DEF OpKind
  <2>7. CASE Record(p, Op("failed set", NoAge), AddError(ledger[p], "redis"))
    BY <1>1, <1>2, <2>1, <2>2, <2>7, EntriesTold, LedgerTyped, RecordKeeps DEF OpKind
  <2>8. QED BY <1>8, <2>3, <2>4, <2>5, <2>6, <2>7 DEF RedisAnswers, RedisFails
<1>9. ASSUME NEW p \in Provider, SkipRedis(p) PROVE Recorded'
  <2>1. /\ pc[p] = "calling" /\ Backend(p) = "redis" /\ LedgerOf(ledger[p], {p}, ops)
        /\ UNCHANGED <<included, pc, total, answer, block, envelope>>
    BY <1>3, <1>4, <1>9 DEF SkipRedis
  <2>2. CASE Record(p, Op("skipped get", NoAge), AddMiss(AddError(ledger[p], "redis"), "redis"))
    BY <1>1, <1>2, <2>1, <2>2, EntriesTold, LedgerTyped, RecordKeeps DEF OpKind
  <2>3. CASE Record(p, Op("skipped set", NoAge), AddError(ledger[p], "redis"))
    BY <1>1, <1>2, <2>1, <2>3, EntriesTold, LedgerTyped, RecordKeeps DEF OpKind
  <2>4. QED BY <1>9, <2>2, <2>3 DEF SkipRedis
<1>10. ASSUME NEW p \in Provider, Return(p) PROVE Recorded'
  <2>1. /\ pc[p] = "calling" /\ pc' = [pc EXCEPT ![p] = "returned"]
        /\ UNCHANGED <<included, ledger, total, block, envelope, ops>>
    BY <1>10 DEF Return, Step
  <2>2. \A q \in Provider \ {p} : pc'[q] = pc[q] /\ answer'[q] = answer[q]
    BY <1>10 DEF Return, Step, TypeOK
  <2>3. pc'[p] = "returned"
    BY <2>1 DEF TypeOK
  <2>4. Closed' = Closed
    BY <2>1, <2>2, <2>3 DEF Closed
  <2>5. QED BY <2>1, <2>2, <2>3, <2>4 DEF Recorded
<1>11. ASSUME NEW p \in Provider, Close(p) PROVE Recorded'
  <2>1. /\ pc[p] = "returned" /\ pc' = [pc EXCEPT ![p] = "done"]
        /\ total' = Merge(total, ledger[p])
        /\ block' = [block EXCEPT ![p] = IF answer[p].ok THEN Provenance(ledger[p]) ELSE NoBlock]
        /\ UNCHANGED <<included, ledger, answer, envelope, ops>>
    BY <1>11 DEF Close, Step
  <2>2. p \in included /\ LedgerOf(ledger[p], {p}, ops)
    BY <2>1 DEF Recorded
  <2>3. envelope.kind = "none"
    BY <2>1, <2>2 DEF Settled
  <2>4. /\ block' = [q \in Provider |-> block'[q]]
        /\ answer[p].ok => block'[p] = Provenance(ledger[p])
        /\ \A q \in Provider \ {p} : block'[q] = block[q]
    BY <2>1 DEF Recorded
  <2>5. /\ pc'[p] = "done"
        /\ \A q \in Provider \ {p} : pc'[q] = pc[q]
    BY <2>1 DEF TypeOK
  <2>6. Closed' = Closed \cup {p} /\ Closed \cap {p} = {} /\ Closed \in SUBSET Provider
    BY <2>1, <2>5 DEF Closed
  <2>7. LedgerOf(total, Closed, ops)
    BY DEF Recorded
  <2>8. LedgerOf(Merge(total, ledger[p]), Closed \cup {p}, ops)
    BY <1>1, <2>2, <2>6, <2>7, MergeTold
  <2>9. LedgerOf(total', Closed', ops')
    BY <2>1, <2>6, <2>8
  <2>10. ASSUME NEW q \in Provider
         PROVE  /\ pc'[q] = "queued" => ops'[q] = <<>> /\ ledger'[q] = EmptyLedger
                /\ pc'[q] # "queued" => q \in included' /\ LedgerOf(ledger'[q], {q}, ops')
                /\ pc'[q] \in {"getting", "setting"} => q \in InRedis
                /\ pc'[q] = "done" /\ answer'[q].ok => block'[q] = Provenance(ledger'[q])
    <3>1. CASE q = p
      BY <2>1, <2>2, <2>4, <2>5, <3>1
    <3>2. CASE q # p
      BY <2>1, <2>4, <2>5, <3>2 DEF Recorded
    <3>3. QED BY <3>1, <3>2
  <2>11. QED BY <2>1, <2>3, <2>4, <2>9, <2>10 DEF Recorded
<1>12. CASE Emit
  <2>1. UNCHANGED <<included, pc, ledger, total, answer, block, ops>>
    BY <1>12 DEF Emit
  <2>2. ASSUME envelope'.kind = "ok" PROVE included # {} /\ envelope'.cache = Provenance(total)
    <3>1. Answered # {}
      BY <1>12, <2>2 DEF Emit
    <3>2. included # {}
      BY <3>1 DEF Answered
    <3>3. QED BY <1>12, <3>1, <3>2 DEF Emit
  <2>3. Closed' = Closed
    BY <2>1 DEF Closed
  <2>4. QED BY <2>1, <2>2, <2>3 DEF Recorded
<1>13. CASE UNCHANGED vars
  <2>1. Closed' = Closed
    BY <1>13 DEF vars, Closed
  <2>2. QED BY <1>13, <2>1 DEF vars, Recorded
<1>14. QED BY <1>5, <1>6, <1>7, <1>8, <1>9, <1>10, <1>11, <1>12, <1>13 DEF Next, ProviderStep

(* For any providers, caches and failures, in whatever order they look up,  *)
(* fail and finish: a success envelope's cache block tells of every lookup  *)
(* that was made for it and of no other, and so does each provider's own.   *)
THEOREM CacheClaimsAreHonest == Spec => []CacheClaimsHonest
<1>1. Init => Settled
  BY DEF Init, Settled, OutageIsNotEmptyPage, NoEnvelope, TypeOK
<1>2. Init => Recorded
  <2> SUFFICES ASSUME Init PROVE Recorded
    OBVIOUS
  <2>1. ops \in Histories
    BY InitTyped DEF TypeOK, Histories, Operation
  <2>2. Closed = {}
    BY DEF Init, Closed
  <2>3. LedgerOf(total, Closed, ops)
    BY <2>1, <2>2, NothingTold DEF Init
  <2>4. QED BY <2>3 DEF Init, Recorded, NoEnvelope
<1>3. TypeOK /\ Settled /\ Recorded => CacheClaimsHonest
  <2> SUFFICES ASSUME TypeOK, Settled, Recorded PROVE CacheClaimsHonest
    OBVIOUS
  <2>1. included \subseteq Provider /\ total \in Ledgers /\ \A p \in Provider : ledger[p] \in Ledgers
    BY DEF TypeOK
  <2>2. ASSUME envelope.kind = "ok" PROVE TellsOf(envelope.cache, included)
    <3>1. \A p \in included : pc[p] = "done"
      BY <2>2 DEF Settled
    <3>2. \A p \in Provider : pc[p] = "done" => p \in included
      BY DEF Recorded
    <3>3. Closed = included
      BY <2>1, <3>1, <3>2 DEF Closed
    <3>4. LedgerOf(total, included, ops) /\ included # {} /\ envelope.cache = Provenance(total)
      BY <2>2, <3>3 DEF Recorded
    <3>5. QED BY <2>1, <3>4, BlockTells
  <2>3. ASSUME NEW p \in included, pc[p] = "done", answer[p].ok PROVE TellsOf(block[p], {p})
    <3>1. LedgerOf(ledger[p], {p}, ops) /\ block[p] = Provenance(ledger[p])
      BY <2>1, <2>3 DEF Recorded
    <3>2. QED BY <2>1, <3>1, BlockTells
  <2>4. QED BY <2>2, <2>3 DEF CacheClaimsHonest
<1>4. QED BY <1>1, <1>2, <1>3, InitTyped, NextTyped, NextSettled, NextRecorded, PTL DEF Spec

-----------------------------------------------------------------------------
(* The merged page.                                                         *)

Rows == [by : Lister, score : Scores, anchor : BOOLEAN, off : BOOLEAN, exact : BOOLEAN]

PageTyped ==
  /\ limit \in Limits
  /\ lists \in [Lister -> Seq(Rows)] /\ queue \in [Lister -> Seq(Rows)]
  /\ ordered \in Seq(Rows)
  /\ filled \in 0..Len(ordered)
  /\ turn \in {"interleaving", "filling", "done"}

(* What the providers' lists are made of.                                  *)
ListsMade ==
  \A p \in Lister : \A i \in DOMAIN lists[p] :
    /\ lists[p][i].by = p
    /\ lists[p][i].anchor => p \in Entity /\ i = 1
    /\ lists[p][i].off => p \in Profile
    /\ \A j \in DOMAIN lists[p] : lists[p][i].off = lists[p][j].off

(* What has been taken of each list, and what is rest of it.               *)
TakenInOrder ==
  \A p \in Lister :
    /\ Len(queue[p]) = Len(lists[p]) - Cardinality(RowsOf(p, DOMAIN ordered))
    /\ \A k \in DOMAIN queue[p] : queue[p][k] = lists[p][Cardinality(RowsOf(p, DOMAIN ordered)) + k]
    /\ \A i \in RowsOf(p, DOMAIN ordered) : ordered[i] = lists[p][Place(i)]

(* The anchor leads, and rows off the intent come last.                    *)
IntentOrdered ==
  /\ \A i, j \in DOMAIN ordered : ordered[i].off /\ ~ordered[j].off => j < i
  /\ \A i \in DOMAIN ordered : ordered[i].anchor => i = 1
  /\ \A i \in DOMAIN ordered, q \in Lister : \A k \in DOMAIN queue[q] : ordered[i].off => queue[q][k].off
  /\ \A q \in Lister : \A k \in DOMAIN queue[q] : queue[q][k].anchor => k = 1 /\ ordered = <<>>

(* The rows considered for the page, and why some wait.                    *)
SharesKept ==
  /\ turn = "interleaving" => filled = 0
  /\ turn # "interleaving" => \A p \in Lister : queue[p] = <<>>
  /\ capped \cup deferred = {i \in 1..filled : ~ordered[i].off}
  /\ capped \cap deferred = {}
  /\ Cardinality(capped) <= Room
  /\ \A p \in Lister : Cardinality(RowsOf(p, capped)) <= Cap
  /\ \A j \in deferred : ~HasShare(j) /\ \A i \in capped : ordered[i].by = ordered[j].by => i < j
  /\ filled > 0 /\ 1 \in OnIntent => 1 \in capped
  /\ turn = "done" => filled = Len(ordered) /\ page = capped \cup Promoted \cup OffPage

PageMade == PageTyped /\ ListsMade /\ TakenInOrder /\ IntentOrdered /\ SharesKept

-----------------------------------------------------------------------------
(* Positions.                                                              *)

(* The first n of a finite set of positions are n, or all of it.           *)
LEMMA FirstOfCount ==
  ASSUME NEW S \in SUBSET Nat, IsFiniteSet(S), NEW n \in Nat
  PROVE  /\ FirstOf(n, S) \subseteq S /\ IsFiniteSet(FirstOf(n, S))
         /\ Cardinality(FirstOf(n, S)) = IF n < Cardinality(S) THEN n ELSE Cardinality(S)
         /\ Cardinality(S) <= n => FirstOf(n, S) = S
         /\ \A i \in FirstOf(n, S), j \in S : j < i => j \in FirstOf(n, S)
<1> DEFINE Below(i) == {j \in S : j < i}
           rank == [i \in S |-> Cardinality(Below(i))]
           N == Cardinality(S)
<1>0. N \in Nat
  BY FS_CardinalityType
<1>1. ASSUME NEW i \in S
      PROVE  IsFiniteSet(Below(i)) /\ Cardinality(Below(i)) \in Nat /\ Cardinality(Below(i)) < N
  <2>1. Below(i) \in SUBSET S /\ i \notin Below(i)
    OBVIOUS
  <2>2. IsFiniteSet(Below(i)) /\ Cardinality(Below(i)) <= N /\ (N = Cardinality(Below(i)) => S = Below(i))
    BY <2>1, FS_Subset, Zenon
  <2>3. Cardinality(Below(i)) \in Nat
    BY <2>2, FS_CardinalityType
  <2>4. Cardinality(Below(i)) # N
    BY <2>1, <2>2
  <2> HIDE DEF Below, N
  <2>5. QED BY <2>2, <2>3, <2>4, <1>0
<1>2. ASSUME NEW i \in S, NEW j \in S, j < i
      PROVE  Cardinality(Below(j)) < Cardinality(Below(i))
  <2>0. \A k \in S : k < j => k < i
    <3>1. i \in Nat /\ j \in Nat /\ \A k \in S : k \in Nat
      OBVIOUS
    <3>2. QED BY <3>1, <1>2
  <2>1. Below(j) \in SUBSET Below(i) /\ j \in Below(i) /\ j \notin Below(j)
    <3>1. j \in Nat
      OBVIOUS
    <3>2. ~(j < j)
      BY <3>1
    <3>3. QED BY <3>2, <2>0, <1>2, Zenon
  <2>2. Cardinality(Below(j)) <= Cardinality(Below(i)) /\ (Cardinality(Below(i)) = Cardinality(Below(j)) => Below(i) = Below(j))
    BY <2>1, <1>1, FS_Subset, Zenon
  <2>3. Cardinality(Below(i)) # Cardinality(Below(j))
    BY <2>1, <2>2
  <2>4. Cardinality(Below(i)) \in Nat /\ Cardinality(Below(j)) \in Nat
    BY <1>1
  <2> HIDE DEF Below
  <2>5. QED BY <2>2, <2>3, <2>4
<1> HIDE DEF Below
<1>3. rank \in Injection(S, 0..(N-1))
  <2>1. rank \in [S -> 0..(N-1)]
    <3>1. \A i \in S : Cardinality(Below(i)) \in 0..(N-1)
      <4> HIDE DEF N
      <4>1. QED BY <1>0, <1>1 DEF N
    <3>2. QED BY <3>1
  <2>2. \A i, j \in S : i # j => rank[i] # rank[j]
    <3> SUFFICES ASSUME NEW i \in S, NEW j \in S, i # j PROVE Cardinality(Below(i)) # Cardinality(Below(j))
      OBVIOUS
    <3>1. i < j \/ j < i
      OBVIOUS
    <3>2. Cardinality(Below(i)) \in Nat /\ Cardinality(Below(j)) \in Nat
      BY <1>1
    <3>3. QED BY <3>1, <3>2, <1>2
  <2>3. QED BY <2>1, <2>2 DEF Injection, IsInjective
<1>4. IsFiniteSet(0..(N-1)) /\ Cardinality(0..(N-1)) = N
  <2> HIDE DEF N
  <2>1. N - 1 \in Int /\ 0 \in Int
    BY <1>0
  <2>2. /\ IsFiniteSet(0..(N-1))
        /\ Cardinality(0..(N-1)) = IF 0 > N - 1 THEN 0 ELSE (N - 1) - 0 + 1
    BY <2>1, FS_Interval, Zenon
  <2>3. QED BY <2>2, <1>0
<1>5. rank \in Surjection(S, 0..(N-1))
  BY <1>3, <1>4, FS_Injection, Zenon
<1> DEFINE m == IF n < N THEN n ELSE N
           F == FirstOf(n, S)
           low == [i \in F |-> rank[i]]
<1>6. F = {i \in S : rank[i] < n}
  BY DEF FirstOf, Below
<1>7. \A i \in S : rank[i] \in 0..(N-1)
  BY <1>3 DEF Injection
<1>8. \A i, j \in S : rank[i] = rank[j] => i = j
  BY <1>3 DEF Injection, IsInjective
<1>9. \A k \in 0..(N-1) : \E i \in S : rank[i] = k
  BY <1>5 DEF Surjection
<1>10. F \in SUBSET S
  BY <1>6
<1>11. IsFiniteSet(F)
  BY <1>10, FS_Subset, Zenon
<1>12. \A i \in F, j \in S : j < i => j \in F
  <2> SUFFICES ASSUME NEW i \in F, NEW j \in S, j < i PROVE rank[j] < n
    BY <1>6
  <2>1. rank[j] < rank[i] /\ rank[i] < n
    BY <1>2, <1>6, <1>10
  <2> HIDE DEF rank, N, F
  <2>2. i \in S
    BY <1>10
  <2>3. rank[j] \in Nat /\ rank[i] \in Nat
    BY <1>0, <1>7, <2>2
  <2>4. QED BY <2>1, <2>3
<1> HIDE DEF rank, F, N
<1>13. m \in Nat /\ m <= N /\ m <= n
  BY <1>0
<1>14. low \in Bijection(F, 0..(m-1))
  <2>1. \A i \in F : low[i] \in 0..(m-1)
    BY <1>0, <1>6, <1>7
  <2>2. low \in [F -> 0..(m-1)]
    BY <2>1
  <2>3. \A i, j \in F : low[i] = low[j] => i = j
    BY <1>8, <1>10
  <2>4. \A k \in 0..(m-1) : \E i \in F : low[i] = k
    <3> SUFFICES ASSUME NEW k \in 0..(m-1) PROVE \E i \in F : low[i] = k
      OBVIOUS
    <3>1. k \in 0..(N-1) /\ k < n
      BY <1>0, <1>13
    <3>2. PICK i \in S : rank[i] = k
      BY <3>1, <1>9
    <3>3. i \in F
      BY <3>1, <3>2, <1>6
    <3>4. QED BY <3>2, <3>3
  <2> HIDE DEF low, m
  <2>5. QED BY <2>2, <2>3, <2>4 DEF Bijection, Injection, Surjection, IsInjective
<1>15. Cardinality(F) = m
  <2> HIDE DEF low, m
  <2>1. ExistsBijection(F, 0..(m-1))
    BY <1>14 DEF ExistsBijection
  <2>2. Cardinality(0..(m-1)) = Cardinality(F)
    BY <2>1, <1>11, FS_Bijection, Zenon
  <2>3. Cardinality(0..(m-1)) = m
    BY <1>13, FS_Interval
  <2>4. QED BY <2>2, <2>3
<1>16. N <= n => F = S
  <2>1. \A i \in S : N <= n => rank[i] < n
    BY <1>0, <1>7
  <2>2. QED BY <2>1, <1>6
<1>17. QED BY <1>10, <1>11, <1>12, <1>15, <1>16 DEF F, N

-----------------------------------------------------------------------------
(* The start.                                                              *)

LEMMA NoneOf ==
  /\ \A p : RowsOf(p, {}) = {}
  /\ IsFiniteSet({}) /\ Cardinality({}) = 0
BY FS_EmptySet DEF RowsOf

LEMMA ListsOfMade ==
  ASSUME NEW scores \in [Lister -> UNION {[1..n -> Scores] : n \in 0..MaxRows}],
         NEW named \in BOOLEAN, NEW exact \in BOOLEAN, NEW profileQuery \in BOOLEAN,
         lists = ListsOf(scores, named, exact, profileQuery)
  PROVE  lists \in [Lister -> Seq(Rows)] /\ ListsMade
<1>0. ASSUME NEW p \in Lister
      PROVE  \E n \in Nat : scores[p] \in [1..n -> Scores]
  BY MergedPageAssumption
<1>1. ASSUME NEW p \in Lister, NEW i \in DOMAIN scores[p]
      PROVE  /\ lists[p] = [k \in DOMAIN scores[p] |->
                   [by |-> p, score |-> scores[p][k],
                    anchor |-> named /\ p \in Entity /\ k = 1,
                    off |-> p \in Profile /\ ~profileQuery,
                    exact |-> exact /\ p \in Profile /\ k = 1]]
             /\ lists[p][i] = [by |-> p, score |-> scores[p][i],
                    anchor |-> named /\ p \in Entity /\ i = 1,
                    off |-> p \in Profile /\ ~profileQuery,
                    exact |-> exact /\ p \in Profile /\ i = 1]
  BY Zenon DEF ListsOf
<1>2. ASSUME NEW p \in Lister
      PROVE  DOMAIN lists[p] = DOMAIN scores[p]
  BY Zenon DEF ListsOf
<1>3. ASSUME NEW p \in Lister, NEW i \in DOMAIN scores[p]
      PROVE  lists[p][i] \in Rows
  <2>1. scores[p][i] \in Scores
    BY <1>0
  <2>2. [by |-> p, score |-> scores[p][i],
                    anchor |-> named /\ p \in Entity /\ i = 1,
                    off |-> p \in Profile /\ ~profileQuery,
                    exact |-> exact /\ p \in Profile /\ i = 1] \in Rows
    BY <2>1, Zenon DEF Rows
  <2>3. QED BY <2>2, <1>1
<1>4. ASSUME NEW p \in Lister PROVE lists[p] \in Seq(Rows)
  <2>1. PICK n \in Nat : scores[p] \in [1..n -> Scores]
    BY <1>0
  <2>2. DOMAIN scores[p] = 1..n
    BY <2>1
  <2>3. lists[p] = [k \in 1..n |-> lists[p][k]]
    BY <2>2, Zenon DEF ListsOf
  <2>4. \A k \in 1..n : lists[p][k] \in Rows
    BY <2>2, <1>3
  <2> DEFINE l == lists[p]
  <2> HIDE DEF l
  <2>5. l = [k \in 1..n |-> l[k]] /\ \A k \in 1..n : l[k] \in Rows
    BY <2>3, <2>4 DEF l
  <2>6. l \in [1..n -> Rows]
    BY <2>5
  <2>7. l \in Seq(Rows)
    BY <2>6
  <2>8. QED BY <2>7 DEF l
<1>5. lists = [p \in Lister |-> lists[p]]
  BY Zenon DEF ListsOf
<1>6. lists \in [Lister -> Seq(Rows)]
  BY <1>4, <1>5
<1>7. ListsMade
  <2> SUFFICES ASSUME NEW p \in Lister, NEW i \in DOMAIN lists[p]
               PROVE  /\ lists[p][i].by = p
                      /\ lists[p][i].anchor => p \in Entity /\ i = 1
                      /\ lists[p][i].off => p \in Profile
                      /\ \A j \in DOMAIN lists[p] : lists[p][i].off = lists[p][j].off
    BY DEF ListsMade
  <2>1. i \in DOMAIN scores[p]
    BY <1>2
  <2>2. \A j \in DOMAIN scores[p] :
          /\ lists[p][j].by = p
          /\ lists[p][j].anchor = (named /\ p \in Entity /\ j = 1)
          /\ lists[p][j].off = (p \in Profile /\ ~profileQuery)
    <3> SUFFICES ASSUME NEW j \in DOMAIN scores[p]
                 PROVE  /\ lists[p][j].by = p
                        /\ lists[p][j].anchor = (named /\ p \in Entity /\ j = 1)
                        /\ lists[p][j].off = (p \in Profile /\ ~profileQuery)
      OBVIOUS
    <3> DEFINE s == scores[p][j]
               a == named /\ p \in Entity /\ j = 1
               o == p \in Profile /\ ~profileQuery
               e == exact /\ p \in Profile /\ j = 1
    <3>1. lists[p][j] = [by |-> p, score |-> s, anchor |-> a, off |-> o, exact |-> e]
      BY <1>1, Zenon
    <3> HIDE DEF s, a, o, e
    <3>2. lists[p][j].by = p /\ lists[p][j].anchor = a /\ lists[p][j].off = o
      BY <3>1
    <3>3. QED BY <3>2 DEF a, o
  <2>3. QED BY <2>1, <2>2, <1>2
<1>8. QED BY <1>6, <1>7

LEMMA PageInitMade == PageInit => PageMade
<1> SUFFICES ASSUME PageInit PROVE PageMade
  OBVIOUS
<1>1. lists \in [Lister -> Seq(Rows)] /\ ListsMade
  BY ListsOfMade DEF PageInit
<1>2. ordered = <<>> /\ DOMAIN ordered = {} /\ queue = lists /\ filled = 0 /\ capped = {} /\ deferred = {}
      /\ turn = "interleaving" /\ limit \in Limits
  BY DEF PageInit
<1>3. limit \in Nat \ {0}
  BY <1>2, MergedPageAssumption
<1>4. PageTyped
  BY <1>1, <1>2 DEF PageTyped
<1>5. TakenInOrder
  <2> SUFFICES ASSUME NEW p \in Lister
               PROVE  /\ Len(queue[p]) = Len(lists[p]) - Cardinality(RowsOf(p, DOMAIN ordered))
                      /\ \A k \in DOMAIN queue[p] : queue[p][k] = lists[p][Cardinality(RowsOf(p, DOMAIN ordered)) + k]
                      /\ \A i \in RowsOf(p, DOMAIN ordered) : ordered[i] = lists[p][Place(i)]
    BY Zenon DEF TakenInOrder
  <2>1. RowsOf(p, DOMAIN ordered) = {} /\ Cardinality(RowsOf(p, DOMAIN ordered)) = 0
    BY <1>2, NoneOf
  <2>2. lists[p] \in Seq(Rows)
    BY <1>1
  <2>3. Len(lists[p]) \in Nat /\ DOMAIN lists[p] \subseteq Nat
    BY <2>2
  <2>4. QED BY <2>1, <2>3, <1>2
<1>6. IntentOrdered
  BY <1>1, <1>2 DEF IntentOrdered, ListsMade
<1>7. SharesKept
  <2>1. Room \in Nat /\ Cap \in Nat
    BY <1>3 DEF Room, Cap, Reserves
  <2>2. {i \in 1..filled : ~ordered[i].off} = {}
    BY <1>2
  <2>3. Cardinality(capped) <= Room /\ \A p \in Lister : Cardinality(RowsOf(p, capped)) <= Cap
    <3>1. Cardinality(capped) = 0 /\ \A p \in Lister : Cardinality(RowsOf(p, capped)) = 0
      BY <1>2, NoneOf, Zenon
    <3>2. QED BY <2>1, <3>1
  <2>4. QED BY <1>2, <2>2, <2>3 DEF SharesKept
<1>8. QED BY <1>1, <1>4, <1>5, <1>6, <1>7 DEF PageMade

-----------------------------------------------------------------------------
(* Interleaving.                                                           *)

LEMMA RowsFinite ==
  ASSUME PageTyped, NEW p
  PROVE  /\ DOMAIN ordered = 1..Len(ordered) /\ Len(ordered) \in Nat
         /\ IsFiniteSet(RowsOf(p, DOMAIN ordered))
         /\ Cardinality(RowsOf(p, DOMAIN ordered)) \in Nat
<1>1. DOMAIN ordered = 1..Len(ordered) /\ Len(ordered) \in Nat
  BY DEF PageTyped
<1>2. IsFiniteSet(DOMAIN ordered)
  BY <1>1, FS_Interval
<1>3. RowsOf(p, DOMAIN ordered) \in SUBSET DOMAIN ordered
  BY DEF RowsOf
<1>4. IsFiniteSet(RowsOf(p, DOMAIN ordered))
  BY <1>2, <1>3, FS_Subset, Zenon
<1>5. QED BY <1>1, <1>4, FS_CardinalityType

(* What is rest of a list is its own rows, and the row to be taken next is *)
(* the first of them.                                                      *)
LEMMA QueueMade ==
  ASSUME PageTyped, ListsMade, TakenInOrder, NEW p \in Lister
  PROVE  /\ queue[p] \in Seq(Rows) /\ DOMAIN queue[p] = 1..Len(queue[p]) /\ Len(queue[p]) \in Nat
         /\ Cardinality(RowsOf(p, DOMAIN ordered)) <= Len(lists[p])
         /\ lists[p] \in Seq(Rows) /\ DOMAIN lists[p] = 1..Len(lists[p]) /\ Len(lists[p]) \in Nat
         /\ \A k \in DOMAIN queue[p] :
              /\ queue[p][k] \in Rows
              /\ queue[p][k].by = p
              /\ queue[p][k].anchor => p \in Entity
              /\ queue[p][k].off => p \in Profile
              /\ \A l \in DOMAIN queue[p] : queue[p][k].off = queue[p][l].off
<1> DEFINE n == Cardinality(RowsOf(p, DOMAIN ordered))
<1>1. queue[p] \in Seq(Rows) /\ lists[p] \in Seq(Rows)
  BY DEF PageTyped
<1>2. /\ DOMAIN queue[p] = 1..Len(queue[p]) /\ Len(queue[p]) \in Nat
      /\ DOMAIN lists[p] = 1..Len(lists[p]) /\ Len(lists[p]) \in Nat
  BY <1>1
<1>3. n \in Nat
  BY RowsFinite
<1>4. Len(queue[p]) = Len(lists[p]) - n /\ \A k \in DOMAIN queue[p] : queue[p][k] = lists[p][n + k]
  BY Zenon DEF TakenInOrder
<1> HIDE DEF n
<1>5. n <= Len(lists[p])
  BY <1>2, <1>3, <1>4
<1>6. ASSUME NEW k \in DOMAIN queue[p] PROVE n + k \in DOMAIN lists[p]
  BY <1>2, <1>3, <1>4
<1>7. ASSUME NEW k \in DOMAIN queue[p]
      PROVE  /\ queue[p][k] \in Rows
             /\ queue[p][k].by = p
             /\ queue[p][k].anchor => p \in Entity
             /\ queue[p][k].off => p \in Profile
             /\ \A l \in DOMAIN queue[p] : queue[p][k].off = queue[p][l].off
  <2>1. queue[p][k] \in Rows
    BY <1>1
  <2>2. n + k \in DOMAIN lists[p] /\ queue[p][k] = lists[p][n + k]
    BY <1>4, <1>6
  <2>3. ASSUME NEW l \in DOMAIN queue[p] PROVE queue[p][k].off = queue[p][l].off
    <3>1. n + l \in DOMAIN lists[p] /\ queue[p][l] = lists[p][n + l]
      BY <1>4, <1>6
    <3> DEFINE a == n + k
               b == n + l
    <3>2. a \in DOMAIN lists[p] /\ b \in DOMAIN lists[p] /\ queue[p][k] = lists[p][a] /\ queue[p][l] = lists[p][b]
      BY <2>2, <3>1
    <3> HIDE DEF a, b
    <3>3. lists[p][a].off = lists[p][b].off
      BY <3>2 DEF ListsMade
    <3>4. QED BY <3>2, <3>3
  <2> DEFINE a == n + k
  <2>4. a \in DOMAIN lists[p] /\ queue[p][k] = lists[p][a]
    BY <2>2
  <2> HIDE DEF a
  <2>5. lists[p][a].by = p /\ (lists[p][a].anchor => p \in Entity) /\ (lists[p][a].off => p \in Profile)
    BY <2>4 DEF ListsMade
  <2>6. QED BY <2>1, <2>3, <2>4, <2>5
<1>8. QED BY <1>1, <1>2, <1>5, <1>7 DEF n

(* One row goes from its provider's queue to the end of the page's order.  *)
LEMMA RowTaken ==
  ASSUME PageTyped, ListsMade, TakenInOrder, NEW p \in Lister, Interleave(p)
  PROVE  /\ ordered' \in Seq(Rows) /\ Len(ordered') = Len(ordered) + 1
         /\ DOMAIN ordered' = 1..(Len(ordered) + 1)
         /\ ordered'[Len(ordered) + 1] = queue[p][1] /\ 1 \in DOMAIN queue[p]
         /\ \A i \in DOMAIN ordered : i <= Len(ordered) /\ i \in Nat /\ ordered'[i] = ordered[i]
         /\ queue' \in [Lister -> Seq(Rows)]
         /\ \A q \in Lister \ {p} : queue'[q] = queue[q]
         /\ Len(queue'[p]) = Len(queue[p]) - 1
         /\ \A k \in DOMAIN queue'[p] : k + 1 \in DOMAIN queue[p] /\ queue'[p][k] = queue[p][k + 1]
         /\ DOMAIN queue'[p] = 1..Len(queue'[p])
<1>1. /\ queue[p] \in Seq(Rows) /\ queue[p] # <<>> /\ ordered \in Seq(Rows)
      /\ queue \in [Lister -> Seq(Rows)]
  BY DEF PageTyped, Interleave
<1>2. ordered' = Append(ordered, Head(queue[p])) /\ queue' = [queue EXCEPT ![p] = Tail(@)]
  BY DEF Interleave
<1>3. Head(queue[p]) = queue[p][1] /\ Head(queue[p]) \in Rows /\ 1 \in DOMAIN queue[p]
  BY <1>1
<1>4. /\ ordered' \in Seq(Rows) /\ Len(ordered') = Len(ordered) + 1
      /\ DOMAIN ordered' = 1..(Len(ordered) + 1)
      /\ ordered'[Len(ordered) + 1] = queue[p][1]
      /\ \A i \in DOMAIN ordered : i <= Len(ordered) /\ i \in Nat /\ ordered'[i] = ordered[i]
  BY <1>1, <1>2, <1>3
<1>5. queue'[p] = Tail(queue[p]) /\ \A q \in Lister \ {p} : queue'[q] = queue[q]
  BY <1>1, <1>2
<1>6. Tail(queue[p]) \in Seq(Rows)
  BY <1>1
<1>7. queue' \in [Lister -> Seq(Rows)]
  BY <1>1, <1>2, <1>6
<1>8. /\ Len(queue'[p]) = Len(queue[p]) - 1
      /\ DOMAIN queue'[p] = 1..Len(queue'[p])
      /\ \A k \in DOMAIN queue'[p] : k + 1 \in DOMAIN queue[p] /\ queue'[p][k] = queue[p][k + 1]
  BY <1>1, <1>5
<1>9. QED BY <1>3, <1>4, <1>5, <1>7, <1>8

LEMMA InterleaveTaken ==
  ASSUME PageTyped, ListsMade, TakenInOrder, NEW p \in Lister, Interleave(p)
  PROVE  TakenInOrder'
<1>0. Len(ordered) \in Nat
  BY RowsFinite
<1> PICK N \in Nat : N = Len(ordered) + 1
  BY <1>0
<1> DEFINE D == DOMAIN ordered
           After(q) == {j \in DOMAIN ordered' : ordered'[j].by = q}
<1>1. /\ DOMAIN ordered' = 1..N /\ D = 1..(N - 1)
      /\ ordered'[N] = queue[p][1] /\ 1 \in DOMAIN queue[p]
      /\ \A i \in D : i < N /\ i \in Nat /\ ordered'[i] = ordered[i]
      /\ lists' = lists
  <2>1. lists' = lists /\ DOMAIN ordered = 1..Len(ordered)
    BY RowsFinite DEF Interleave
  <2> DEFINE n == Len(ordered)
  <2>2. /\ DOMAIN ordered' = 1..(n + 1) /\ ordered'[n + 1] = queue[p][1] /\ 1 \in DOMAIN queue[p]
        /\ \A i \in DOMAIN ordered : i <= n /\ i \in Nat /\ ordered'[i] = ordered[i]
    BY RowTaken, Zenon
  <2>3. n \in Nat /\ N = n + 1 /\ D = 1..n
    BY <1>0, <2>1
  <2> HIDE DEF n
  <2>4. N - 1 = n /\ \A i \in Nat : i <= n => i < N
    BY <2>3
  <2>5. QED BY <2>1, <2>2, <2>3, <2>4
<1>2. queue[p][1].by = p
  BY <1>1, QueueMade
<1> HIDE DEF D
<1>3. N \notin D /\ DOMAIN ordered' = D \cup {N}
  BY <1>1
<1>4. After(p) = RowsOf(p, D) \cup {N} /\ N \notin RowsOf(p, D)
  BY <1>1, <1>2, <1>3 DEF RowsOf
<1>5. ASSUME NEW q \in Lister \ {p} PROVE After(q) = RowsOf(q, D)
  BY <1>1, <1>2, <1>3 DEF RowsOf
<1>5a. ASSUME NEW q PROVE RowsOf(q, DOMAIN ordered)' = After(q)
  BY DEF RowsOf
<1>6. /\ Cardinality(RowsOf(p, D) \cup {N}) = Cardinality(RowsOf(p, D)) + 1
      /\ \A q : Cardinality(RowsOf(q, D)) \in Nat
  <2>1. \A q : IsFiniteSet(RowsOf(q, D)) /\ Cardinality(RowsOf(q, D)) \in Nat
    BY RowsFinite DEF D
  <2>2. QED BY <2>1, <1>4, FS_AddElement
<1>7. ASSUME NEW i \in D PROVE Place(i)' = Place(i)
  <2>1. ordered'[i] = ordered[i] /\ ~(N <= i)
    BY <1>1
  <2>2. Place(i)' = Cardinality({j \in After(ordered'[i].by) : j <= i})
    BY <1>5a, Zenon DEF Place, RowsOf
  <2>3. After(ordered[i].by) = RowsOf(ordered[i].by, D) \/ After(ordered[i].by) = RowsOf(ordered[i].by, D) \cup {N}
    BY <1>1, <1>3 DEF RowsOf
  <2>4. {j \in After(ordered[i].by) : j <= i} = {j \in RowsOf(ordered[i].by, D) : j <= i}
    <3> HIDE DEF After
    <3>1. QED BY <2>1, <2>3
  <2>5. Place(i) = Cardinality({j \in RowsOf(ordered[i].by, D) : j <= i})
    BY Zenon DEF Place, D
  <2>6. QED BY <2>1, <2>2, <2>4, <2>5
<1>8. Place(N)' = Cardinality(RowsOf(p, D)) + 1
  <2>1. ordered'[N].by = p
    BY <1>1, <1>2
  <2>2. \A j \in RowsOf(p, D) \cup {N} : j <= N
    BY <1>1, <1>3 DEF RowsOf
  <2>3. {j \in After(p) : j <= N} = RowsOf(p, D) \cup {N}
    <3> HIDE DEF After
    <3>1. QED BY <1>4, <2>2
  <2>4. Place(N)' = Cardinality({j \in After(ordered'[N].by) : j <= N})
    BY Zenon DEF Place, RowsOf
  <2>5. QED BY <2>1, <2>3, <2>4, <1>6
<1> HIDE DEF After
<1> SUFFICES ASSUME NEW q \in Lister
             PROVE  /\ Len(queue'[q]) = Len(lists[q]) - Cardinality(After(q))
                    /\ \A k \in DOMAIN queue'[q] : queue'[q][k] = lists[q][Cardinality(After(q)) + k]
                    /\ \A i \in After(q) : ordered'[i] = lists[q][Place(i)']
  <2>1. lists' = lists /\ \A q \in Lister : RowsOf(q, DOMAIN ordered)' = After(q)
    BY <1>1, <1>5a
  <2>2. QED BY <2>1, Zenon DEF TakenInOrder
<1>9. /\ Len(queue[q]) = Len(lists[q]) - Cardinality(RowsOf(q, D))
      /\ \A k \in DOMAIN queue[q] : queue[q][k] = lists[q][Cardinality(RowsOf(q, D)) + k]
      /\ \A i \in RowsOf(q, D) : ordered[i] = lists[q][Place(i)]
  BY Zenon DEF TakenInOrder, D
<1>10. \A i \in RowsOf(q, D) : ordered'[i] = lists[q][Place(i)']
  BY <1>1, <1>7, <1>9 DEF RowsOf
<1>11. CASE q # p
  <2>1. queue'[q] = queue[q]
    BY <1>11, RowTaken
  <2>2. After(q) = RowsOf(q, D)
    BY <1>5, <1>11
  <2>3. QED BY <2>1, <2>2, <1>9, <1>10
<1>12. CASE q = p
  <2> DEFINE c == Cardinality(RowsOf(p, D))
  <2>1. Cardinality(After(q)) = c + 1 /\ c \in Nat
    BY <1>4, <1>6, <1>12
  <2>2. /\ Len(queue'[p]) = Len(queue[p]) - 1 /\ DOMAIN queue'[p] = 1..Len(queue'[p])
        /\ \A k \in DOMAIN queue'[p] : k + 1 \in DOMAIN queue[p] /\ queue'[p][k] = queue[p][k + 1]
    BY RowTaken
  <2>3. Len(queue[p]) \in Nat /\ Len(lists[p]) \in Nat
    BY QueueMade
  <2>4. Len(queue[p]) = Len(lists[p]) - c /\ \A k \in DOMAIN queue[p] : queue[p][k] = lists[p][c + k]
    BY <1>9, <1>12
  <2>5. queue[p][1] = lists[p][c + 1]
    BY <2>4, <1>1
  <2> HIDE DEF c
  <2>6. Len(queue'[p]) = Len(lists[p]) - (c + 1)
    BY <2>1, <2>2, <2>3, <2>4
  <2>7. ASSUME NEW k \in DOMAIN queue'[p] PROVE queue'[p][k] = lists[p][(c + 1) + k]
    <3>1. k \in Nat
      BY <2>2, <2>3
    <3>2. c + (k + 1) = (c + 1) + k
      BY <3>1, <2>1
    <3>3. queue'[p][k] = lists[p][c + (k + 1)]
      BY <2>2, <2>4
    <3>4. QED BY <3>2, <3>3
  <2>8. ordered'[N] = lists[p][Place(N)']
    BY <2>5, <1>1, <1>8 DEF c
  <2>9. \A i \in After(p) : ordered'[i] = lists[p][Place(i)']
    BY <2>8, <1>4, <1>10, <1>12
  <2>10. QED BY <2>1, <2>6, <2>7, <2>9, <1>12
<1>13. QED BY <1>11, <1>12

LEMMA InterleaveIntent ==
  ASSUME PageTyped, ListsMade, TakenInOrder, IntentOrdered, NEW p \in Lister, Interleave(p)
  PROVE  IntentOrdered'
<1> DEFINE n == Len(ordered)
           N == n + 1
           r == queue[p][1]
<1>1. /\ DOMAIN ordered' = 1..N /\ DOMAIN ordered = 1..n /\ n \in Nat
      /\ ordered'[N] = r /\ 1 \in DOMAIN queue[p]
      /\ \A i \in DOMAIN ordered : i <= n /\ i \in Nat /\ ordered'[i] = ordered[i]
      /\ ordered \in Seq(Rows) /\ ordered' \in Seq(Rows) /\ Len(ordered') = N
  BY RowTaken, RowsFinite DEF PageTyped
<1>2. /\ r \in Rows /\ r.by = p /\ (r.anchor => p \in Entity) /\ (r.off => p \in Profile)
      /\ r.anchor => ordered = <<>>
  BY <1>1, QueueMade DEF IntentOrdered
<1>3. ~(r.anchor /\ r.off)
  BY <1>2, MergedPageAssumption
<1>4. ASSUME NEW q \in Lister \ {p}, NEW k \in DOMAIN queue[q] PROVE Before(r, queue[q][1]) /\ 1 \in DOMAIN queue[q]
  <2>1. queue[q] \in Seq(Rows) /\ queue[q] # <<>> /\ Head(queue[q]) = queue[q][1] /\ 1 \in DOMAIN queue[q]
    BY <1>4 DEF PageTyped
  <2>2. queue[p] \in Seq(Rows) /\ queue[p] # <<>> /\ Head(queue[p]) = r
    BY DEF PageTyped, Interleave
  <2>3. QED BY <2>1, <2>2 DEF Interleave
<1> HIDE DEF n, r
<1>5. ASSUME NEW q \in Lister \ {p}, NEW k \in DOMAIN queue[q]
      PROVE  /\ r.off => queue[q][k].off
             /\ ~queue[q][k].anchor
  <2> DEFINE s == queue[q][1]
  <2>1. Before(r, s) /\ 1 \in DOMAIN queue[q]
    BY <1>5, <1>4
  <2>2. s \in Rows /\ (s.anchor => q \in Entity) /\ (s.off => q \in Profile)
        /\ \A l \in DOMAIN queue[q] : s.off = queue[q][l].off
    BY <2>1, QueueMade
  <2>3. queue[q][k].anchor => s.anchor
    BY DEF IntentOrdered
  <2> HIDE DEF s
  <2>4. r.anchor \in BOOLEAN /\ r.off \in BOOLEAN /\ s.anchor \in BOOLEAN /\ s.off \in BOOLEAN
    BY <1>2, <2>2 DEF Rows
  <2>5. r.off => s.off
    BY <2>1, <2>4, <1>3 DEF Before
  <2>6. s.anchor => r.anchor
    BY <2>1, <2>4 DEF Before
  <2>7. ~s.anchor
    BY <2>2, <2>6, <1>2, MergedPageAssumption
  <2>8. QED BY <2>2, <2>3, <2>5, <2>7
<1>6. ASSUME NEW k \in DOMAIN queue'[p]
      PROVE  (r.off => queue'[p][k].off) /\ ~queue'[p][k].anchor
             /\ k + 1 \in DOMAIN queue[p] /\ queue'[p][k] = queue[p][k + 1]
  <2>1. k + 1 \in DOMAIN queue[p] /\ queue'[p][k] = queue[p][k + 1] /\ k \in Nat /\ k >= 1
    BY RowTaken, <1>6
  <2>2. r.off => queue[p][k + 1].off
    BY <2>1, <1>1, QueueMade DEF r
  <2>3. ~queue[p][k + 1].anchor
    BY <2>1 DEF IntentOrdered
  <2>4. QED BY <2>1, <2>2, <2>3
<1>7. \A q \in Lister \ {p} : queue'[q] = queue[q]
  BY RowTaken
<1>8. \A q \in Lister : \A k \in DOMAIN queue'[q] : (r.off => queue'[q][k].off) /\ ~queue'[q][k].anchor
  BY <1>5, <1>6, <1>7
<1>9. \A i, j \in DOMAIN ordered' : ordered'[i].off /\ ~ordered'[j].off => j < i
  <2> SUFFICES ASSUME NEW i \in DOMAIN ordered', NEW j \in DOMAIN ordered', ordered'[i].off, ~ordered'[j].off
               PROVE  j < i
    OBVIOUS
  <2>1. i \in 1..N /\ j \in 1..N
    BY <1>1
  <2>2. CASE i = N
    <3>1. j # N
      BY <2>2
    <3>2. QED BY <2>1, <2>2, <3>1, <1>1
  <2>3. CASE i # N
    <3>1. i \in DOMAIN ordered /\ ordered[i].off
      BY <2>1, <2>3, <1>1
    <3>2. CASE j # N
      <4>1. j \in DOMAIN ordered /\ ~ordered[j].off
        BY <2>1, <3>2, <1>1
      <4>2. QED BY <3>1, <4>1 DEF IntentOrdered
    <3>3. CASE j = N
      <4>1. r.off
        BY <3>1, <1>1 DEF IntentOrdered, r
      <4>2. QED BY <4>1, <3>3, <1>1
    <3>4. QED BY <3>2, <3>3
  <2>4. QED BY <2>2, <2>3
<1>10. \A i \in DOMAIN ordered' : ordered'[i].anchor => i = 1
  <2> SUFFICES ASSUME NEW i \in DOMAIN ordered', ordered'[i].anchor PROVE i = 1
    OBVIOUS
  <2>1. CASE i = N
    <3>1. ordered = <<>>
      BY <2>1, <1>1, <1>2
    <3>2. QED BY <3>1, <2>1, <1>1 DEF n
  <2>2. CASE i # N
    <3>1. i \in DOMAIN ordered /\ ordered[i].anchor
      BY <2>2, <1>1
    <3>2. QED BY <3>1 DEF IntentOrdered
  <2>3. QED BY <2>1, <2>2
<1>11. \A i \in DOMAIN ordered', q \in Lister : \A k \in DOMAIN queue'[q] : ordered'[i].off => queue'[q][k].off
  <2> SUFFICES ASSUME NEW i \in DOMAIN ordered', NEW q \in Lister, NEW k \in DOMAIN queue'[q], ordered'[i].off
               PROVE  queue'[q][k].off
    OBVIOUS
  <2>1. CASE i = N
    BY <2>1, <1>1, <1>8
  <2>2. CASE i # N
    <3>1. i \in DOMAIN ordered /\ ordered[i].off
      BY <2>2, <1>1
    <3>2. r.off
      BY <3>1, <1>1 DEF IntentOrdered, r
    <3>3. QED BY <3>2, <1>8
  <2>3. QED BY <2>1, <2>2
<1>12. QED BY <1>8, <1>9, <1>10, <1>11 DEF IntentOrdered

-----------------------------------------------------------------------------
(* The shares.                                                             *)

LEMMA Sizes ==
  ASSUME PageTyped
  PROVE  /\ limit \in Nat \ {0} /\ Room \in Nat \ {0} /\ Cap \in Nat \ {0} /\ OffCap \in Nat
         /\ Room <= limit /\ OffCap <= Cap
         /\ Reserves => Room = limit - 1 /\ OffCap >= 1
         /\ ~Reserves => Room = limit
<1>1. limit \in Nat \ {0}
  BY MergedPageAssumption DEF PageTyped
<1>2. Cap \in Nat \ {0} /\ OffCap \in Nat /\ OffCap <= Cap /\ (limit >= 3 => OffCap >= 1)
  BY <1>1 DEF Cap, OffCap
<1>3. Reserves => limit >= 3
  BY DEF Reserves
<1>4. QED BY <1>1, <1>2, <1>3 DEF Room

NothingConsidered == turn = "interleaving" /\ filled = 0 /\ capped = {} /\ deferred = {}

LEMMA NothingShared == PageTyped /\ NothingConsidered => SharesKept
<1> SUFFICES ASSUME PageTyped, turn = "interleaving", filled = 0, capped = {}, deferred = {}
             PROVE  SharesKept
  BY DEF NothingConsidered
<1>1. {i \in 1..filled : ~ordered[i].off} = {}
  OBVIOUS
<1>2. Cardinality(capped) = 0 /\ \A p \in Lister : Cardinality(RowsOf(p, capped)) = 0
  BY NoneOf, Zenon
<1>3. Cardinality(capped) <= Room /\ \A p \in Lister : Cardinality(RowsOf(p, capped)) <= Cap
  BY <1>2, Sizes
<1>4. QED BY <1>1, <1>3 DEF SharesKept

LEMMA InterleaveMade ==
  ASSUME PageMade, NEW p \in Lister, Interleave(p)
  PROVE  PageMade'
<1>1. PageTyped /\ ListsMade /\ TakenInOrder /\ IntentOrdered /\ SharesKept
  BY DEF PageMade
<1>2. TakenInOrder' /\ IntentOrdered'
  BY <1>1, InterleaveTaken, InterleaveIntent
<1>3. ListsMade'
  BY <1>1 DEF ListsMade, Interleave
<1>4. /\ limit' = limit /\ lists' = lists /\ turn' = "interleaving" /\ turn = "interleaving"
      /\ filled' = filled /\ capped' = capped /\ deferred' = deferred
  BY DEF Interleave
<1>5. filled' = 0 /\ capped' = {} /\ deferred' = {}
  <2>1. filled = 0 /\ capped \cup deferred = {i \in 1..filled : ~ordered[i].off}
    BY <1>1, <1>4 DEF SharesKept
  <2>2. QED BY <2>1, <1>4
<1>6. PageTyped'
  <2>1. ordered' \in Seq(Rows) /\ queue' \in [Lister -> Seq(Rows)]
    BY <1>1, RowTaken
  <2>2. Len(ordered') \in Nat
    BY <2>1
  <2>3. QED BY <1>1, <1>4, <1>5, <2>1, <2>2 DEF PageTyped
<1>7. SharesKept'
  <2>1. NothingConsidered'
    BY <1>4, <1>5 DEF NothingConsidered
  <2>2. QED BY <2>1, <1>6, NothingShared, PTL
<1>8. QED BY <1>2, <1>3, <1>6, <1>7 DEF PageMade

(* After the lists are merged nothing about them changes.                  *)
LEMMA ListsKept ==
  ASSUME PageMade, UNCHANGED <<limit, lists, queue, ordered>>,
         filled' \in 0..Len(ordered), turn' \in {"filling", "done"}
  PROVE  /\ PageTyped' /\ ListsMade' /\ TakenInOrder' /\ IntentOrdered'
         /\ Room' = Room /\ Cap' = Cap /\ OnIntent' = OnIntent
<1>1. PageTyped'
  BY DEF PageMade, PageTyped
<1>2. ListsMade'
  BY DEF PageMade, ListsMade
<1>3. TakenInOrder'
  BY DEF PageMade, TakenInOrder, RowsOf, Place
<1>4. IntentOrdered'
  BY DEF PageMade, IntentOrdered
<1>5. Room' = Room /\ Cap' = Cap /\ OnIntent' = OnIntent
  BY DEF Room, Reserves, Anchored, OffIntent, OnIntent, Cap
<1>6. QED BY <1>1, <1>2, <1>3, <1>4, <1>5

LEMMA RowMade ==
  ASSUME PageTyped, NEW i \in DOMAIN ordered
  PROVE  /\ ordered[i] \in Rows /\ ordered[i].by \in Lister
         /\ ordered[i].anchor \in BOOLEAN /\ ordered[i].off \in BOOLEAN
<1>1. ordered[i] \in Rows
  BY DEF PageTyped
<1>2. QED BY <1>1 DEF Rows

LEMMA SharesSame ==
  ASSUME PageMade, UNCHANGED <<limit, lists, queue, ordered, capped, deferred>>
  PROVE  /\ Cardinality(capped') <= Room' /\ \A p \in Lister : Cardinality(RowsOf(p, capped)') <= Cap'
         /\ \A j \in deferred' : ~HasShare(j)' /\ \A i \in capped' : ordered'[i].by = ordered'[j].by => i < j
<1>1. Room' = Room /\ Cap' = Cap
  BY DEF Room, Reserves, Anchored, OffIntent, OnIntent, Cap
<1>2. \A p : RowsOf(p, capped)' = RowsOf(p, capped)
  BY DEF RowsOf
<1>3. Cardinality(capped) <= Room /\ \A p \in Lister : Cardinality(RowsOf(p, capped)) <= Cap
  BY DEF PageMade, SharesKept
<1>4. \A j : HasShare(j)' = HasShare(j)
  BY <1>1 DEF HasShare, RowsOf
<1>5. \A j \in deferred : ~HasShare(j) /\ \A i \in capped : ordered[i].by = ordered[j].by => i < j
  BY DEF PageMade, SharesKept
<1>6. QED BY <1>1, <1>2, <1>3, <1>4, <1>5

LEMMA CappedFinite ==
  ASSUME PageMade, NEW p
  PROVE  /\ capped \subseteq 1..filled /\ deferred \subseteq 1..filled /\ filled \in Nat
         /\ IsFiniteSet(capped) /\ IsFiniteSet(deferred)
         /\ Cardinality(capped) \in Nat /\ Cardinality(deferred) \in Nat
         /\ RowsOf(p, capped) \subseteq capped
         /\ IsFiniteSet(RowsOf(p, capped)) /\ Cardinality(RowsOf(p, capped)) \in Nat
<1>1. filled \in Nat
  BY DEF PageMade, PageTyped
<1>2. capped \in SUBSET (1..filled) /\ deferred \in SUBSET (1..filled)
  BY DEF PageMade, SharesKept
<1>3. IsFiniteSet(1..filled)
  BY <1>1, FS_Interval
<1>4. IsFiniteSet(capped) /\ IsFiniteSet(deferred)
  BY <1>2, <1>3, FS_Subset, Zenon
<1>5. RowsOf(p, capped) \in SUBSET capped
  BY DEF RowsOf
<1>6. IsFiniteSet(RowsOf(p, capped))
  BY <1>4, <1>5, FS_Subset, Zenon
<1>7. QED BY <1>1, <1>2, <1>4, <1>5, <1>6, FS_CardinalityType

LEMMA InterleavedMade == ASSUME PageMade, Interleaved PROVE PageMade'
<1>1. /\ UNCHANGED <<limit, lists, queue, ordered, filled, capped, deferred, page>>
      /\ turn' = "filling" /\ turn = "interleaving" /\ \A p \in Lister : queue[p] = <<>>
  BY DEF Interleaved
<1>2. filled' \in 0..Len(ordered)
  BY <1>1 DEF PageMade, PageTyped
<1>3. PageTyped' /\ ListsMade' /\ TakenInOrder' /\ IntentOrdered' /\ Room' = Room /\ Cap' = Cap /\ OnIntent' = OnIntent
  BY <1>1, <1>2, ListsKept
<1>4. SharesKept'
  <2>1. /\ capped \cup deferred = {i \in 1..filled : ~ordered[i].off} /\ capped \cap deferred = {}
        /\ filled > 0 /\ 1 \in OnIntent => 1 \in capped
    BY DEF PageMade, SharesKept
  <2>2. /\ capped' \cup deferred' = {i \in 1..filled' : ~ordered'[i].off} /\ capped' \cap deferred' = {}
        /\ filled' > 0 /\ 1 \in OnIntent' => 1 \in capped'
        /\ turn' = "filling" /\ \A p \in Lister : queue'[p] = <<>>
    BY <2>1, <1>1, <1>3
  <2>3. QED BY <2>2, <1>1, SharesSame DEF SharesKept
<1>5. QED BY <1>3, <1>4 DEF PageMade

LEMMA PassOverMade == ASSUME PageMade, NEW i \in DOMAIN ordered, PassOver(i) PROVE PageMade'
<1>1. /\ UNCHANGED <<limit, lists, queue, ordered, capped, deferred, page, turn>>
      /\ turn = "filling" /\ i = filled + 1 /\ filled' = i /\ ordered[i].off /\ i \in OffIntent
  BY DEF PassOver, Consider, OffIntent
<1>2. DOMAIN ordered = 1..Len(ordered) /\ Len(ordered) \in Nat /\ filled \in Nat
  BY DEF PageMade, PageTyped
<1>3. filled' \in 0..Len(ordered)
  BY <1>1, <1>2
<1>4. PageTyped' /\ ListsMade' /\ TakenInOrder' /\ IntentOrdered' /\ Room' = Room /\ Cap' = Cap /\ OnIntent' = OnIntent
  BY <1>1, <1>3, ListsKept
<1>5. {k \in 1..filled' : ~ordered'[k].off} = {k \in 1..filled : ~ordered[k].off}
  BY <1>1, <1>2
<1>6. (filled' > 0 /\ 1 \in OnIntent => 1 \in capped)
  <2>1. CASE filled = 0
    BY <2>1, <1>1 DEF OnIntent
  <2>2. CASE filled # 0
    <3>1. filled > 0 /\ 1 \in OnIntent => 1 \in capped
      BY DEF PageMade, SharesKept
    <3>2. filled > 0
      BY <2>2, <1>2
    <3>3. QED BY <3>1, <3>2
  <2>3. QED BY <2>1, <2>2
<1>7. SharesKept'
  <2>1. /\ capped \cup deferred = {k \in 1..filled : ~ordered[k].off} /\ capped \cap deferred = {}
        /\ \A p \in Lister : queue[p] = <<>>
    BY <1>1 DEF PageMade, SharesKept
  <2>2. QED BY <1>1, <1>4, <1>5, <1>6, <2>1, SharesSame DEF SharesKept
<1>8. QED BY <1>4, <1>7 DEF PageMade

LEMMA TakeRowMade == ASSUME PageMade, NEW i \in DOMAIN ordered, TakeRow(i) PROVE PageMade'
<1>1. /\ UNCHANGED <<limit, lists, queue, ordered, deferred, page, turn>>
      /\ turn = "filling" /\ i = filled + 1 /\ filled' = i /\ ~ordered[i].off /\ HasShare(i)
      /\ capped' = capped \cup {i}
  BY DEF TakeRow, Consider, OnIntent, OffIntent
<1>2. DOMAIN ordered = 1..Len(ordered) /\ Len(ordered) \in Nat /\ filled \in Nat
  BY DEF PageMade, PageTyped
<1>3. filled' \in 0..Len(ordered)
  BY <1>1, <1>2
<1>4. PageTyped' /\ ListsMade' /\ TakenInOrder' /\ IntentOrdered' /\ Room' = Room /\ Cap' = Cap /\ OnIntent' = OnIntent
  BY <1>1, <1>3, ListsKept
<1>5. {k \in 1..filled' : ~ordered'[k].off} = {k \in 1..filled : ~ordered[k].off} \cup {i}
  BY <1>1, <1>2
<1>6. i \notin capped /\ i \notin deferred
  BY <1>1, CappedFinite
<1>7. Cardinality(capped') = Cardinality(capped) + 1
  BY <1>1, <1>6, CappedFinite, FS_AddElement
<1>8. ASSUME NEW p \in Lister
      PROVE  /\ RowsOf(p, capped)' = IF ordered[i].by = p THEN RowsOf(p, capped) \cup {i} ELSE RowsOf(p, capped)
             /\ Cardinality(RowsOf(p, capped)') = IF ordered[i].by = p THEN Cardinality(RowsOf(p, capped)) + 1
                                                  ELSE Cardinality(RowsOf(p, capped))
  <2>1. RowsOf(p, capped)' = IF ordered[i].by = p THEN RowsOf(p, capped) \cup {i} ELSE RowsOf(p, capped)
    BY <1>1 DEF RowsOf
  <2>2. i \notin RowsOf(p, capped)
    BY <1>6 DEF RowsOf
  <2>3. Cardinality(RowsOf(p, capped) \cup {i}) = Cardinality(RowsOf(p, capped)) + 1
    BY <2>2, CappedFinite, FS_AddElement
  <2>4. QED BY <2>1, <2>3
<1>9. Cardinality(capped) < Room /\ Cardinality(RowsOf(ordered[i].by, capped)) < Cap
  BY <1>1 DEF HasShare
<1>10. Room \in Nat /\ Cap \in Nat
  BY Sizes DEF PageMade
<1>11. Cardinality(capped') <= Room
  BY <1>7, <1>9, <1>10, CappedFinite
<1>12. ASSUME NEW p \in Lister PROVE Cardinality(RowsOf(p, capped)') <= Cap
  <2>1. Cardinality(RowsOf(p, capped)) <= Cap /\ Cardinality(RowsOf(p, capped)) \in Nat
    BY CappedFinite DEF PageMade, SharesKept
  <2>2. QED BY <2>1, <1>8, <1>9, <1>10
<1>13. ASSUME NEW j \in deferred
       PROVE  ~HasShare(j)' /\ \A k \in capped' : ordered[k].by = ordered[j].by => k < j
  <2>1. ~HasShare(j) /\ \A k \in capped : ordered[k].by = ordered[j].by => k < j
    BY DEF PageMade, SharesKept
  <2>2. j \in DOMAIN ordered
    BY <1>2, <1>3, <1>1, CappedFinite
  <2>3. ordered[j].by \in Lister
    BY <2>2, RowMade DEF PageMade
  <2>4. PICK p \in Lister : p = ordered[j].by
    BY <2>3
  <2>5. ordered[i].by # p
    BY <2>1, <2>4, <1>1 DEF HasShare
  <2>6. RowsOf(p, capped)' = RowsOf(p, capped)
    BY <2>5, <1>8
  <2>7. ~(Cardinality(capped) < Room /\ Cardinality(RowsOf(p, capped)) < Cap)
    BY <2>1, <2>4 DEF HasShare
  <2>8. ~(Cardinality(capped') < Room /\ Cardinality(RowsOf(p, capped)') < Cap)
    BY <2>6, <2>7, <1>7, <1>10, CappedFinite
  <2>9. ordered'[j].by = p /\ Room' = Room /\ Cap' = Cap
    BY <2>4, <1>1, <1>4
  <2>10. ~HasShare(j)'
    <3>1. HasShare(j)' => Cardinality(capped') < Room' /\ Cardinality(RowsOf(p, capped)') < Cap'
      BY <2>9, Zenon DEF HasShare, RowsOf
    <3>2. QED BY <3>1, <2>8, <2>9
  <2>11. QED BY <2>1, <2>4, <2>5, <2>10, <1>1
<1>14. (filled' > 0 /\ 1 \in OnIntent => 1 \in capped')
  <2>1. CASE filled = 0
    BY <2>1, <1>1
  <2>2. CASE filled # 0
    BY <2>2, <1>1, <1>2 DEF PageMade, SharesKept
  <2>3. QED BY <2>1, <2>2
<1>15. SharesKept'
  <2>1. capped' \cup deferred' = {k \in 1..filled' : ~ordered'[k].off} /\ capped' \cap deferred' = {}
    BY <1>1, <1>5, <1>6 DEF PageMade, SharesKept
  <2>2. turn' = "filling" /\ \A p \in Lister : queue'[p] = <<>>
    BY <1>1 DEF PageMade, SharesKept
  <2>3. \A j \in deferred' : ~HasShare(j)' /\ \A k \in capped' : ordered'[k].by = ordered'[j].by => k < j
    BY <1>1, <1>13
  <2>4. QED BY <2>1, <2>2, <2>3, <1>4, <1>11, <1>12, <1>14 DEF SharesKept
<1>16. QED BY <1>4, <1>15 DEF PageMade

LEMMA DeferMade == ASSUME PageMade, NEW i \in DOMAIN ordered, Defer(i) PROVE PageMade'
<1>1. /\ UNCHANGED <<limit, lists, queue, ordered, capped, page, turn>>
      /\ turn = "filling" /\ i = filled + 1 /\ filled' = i /\ ~ordered[i].off /\ ~HasShare(i)
      /\ deferred' = deferred \cup {i}
  BY DEF Defer, Consider, OnIntent, OffIntent
<1>2. DOMAIN ordered = 1..Len(ordered) /\ Len(ordered) \in Nat /\ filled \in Nat
  BY DEF PageMade, PageTyped
<1>3. filled' \in 0..Len(ordered)
  BY <1>1, <1>2
<1>4. PageTyped' /\ ListsMade' /\ TakenInOrder' /\ IntentOrdered' /\ Room' = Room /\ Cap' = Cap /\ OnIntent' = OnIntent
  BY <1>1, <1>3, ListsKept
<1>5. {k \in 1..filled' : ~ordered'[k].off} = {k \in 1..filled : ~ordered[k].off} \cup {i}
  BY <1>1, <1>2
<1>6. i \notin capped /\ \A k \in capped : k < i
  BY <1>1, <1>2, CappedFinite
<1>7. \A p : RowsOf(p, capped)' = RowsOf(p, capped)
  BY <1>1 DEF RowsOf
<1>8. \A j : HasShare(j)' = HasShare(j)
  BY <1>1, <1>4 DEF HasShare, RowsOf
<1>9. \A j \in deferred' : ~HasShare(j)' /\ \A k \in capped' : ordered'[k].by = ordered'[j].by => k < j
  <2>1. \A j \in deferred : ~HasShare(j) /\ \A k \in capped : ordered[k].by = ordered[j].by => k < j
    BY DEF PageMade, SharesKept
  <2>2. QED BY <2>1, <1>1, <1>6, <1>8
<1>10. (filled' > 0 /\ 1 \in OnIntent => 1 \in capped)
  <2>1. CASE filled = 0
    <3>1. capped = {}
      BY <2>1, CappedFinite
    <3>2. Cardinality(capped) = 0 /\ Cardinality(RowsOf(ordered[i].by, capped)) = 0
      BY <3>1, NoneOf, Zenon
    <3>3. HasShare(i)
      BY <3>2, Sizes DEF HasShare, PageMade
    <3>4. QED BY <3>3, <1>1
  <2>2. CASE filled # 0
    <3>1. filled > 0 /\ 1 \in OnIntent => 1 \in capped
      BY DEF PageMade, SharesKept
    <3>2. filled > 0
      BY <2>2, <1>2
    <3>3. QED BY <3>1, <3>2
  <2>3. QED BY <2>1, <2>2
<1>11. SharesKept'
  <2>1. capped' \cup deferred' = {k \in 1..filled' : ~ordered'[k].off} /\ capped' \cap deferred' = {}
    BY <1>1, <1>5, <1>6 DEF PageMade, SharesKept
  <2>2. turn' = "filling" /\ \A p \in Lister : queue'[p] = <<>>
    BY <1>1 DEF PageMade, SharesKept
  <2>3. Cardinality(capped) <= Room /\ \A p \in Lister : Cardinality(RowsOf(p, capped)) <= Cap
    BY DEF PageMade, SharesKept
  <2>4. QED BY <2>1, <2>2, <2>3, <1>1, <1>4, <1>7, <1>9, <1>10 DEF SharesKept
<1>12. QED BY <1>4, <1>11 DEF PageMade

LEMMA ComposeMade == ASSUME PageMade, Compose PROVE PageMade'
<1>1. /\ UNCHANGED <<limit, lists, queue, ordered, filled, capped, deferred>>
      /\ turn = "filling" /\ filled = Len(ordered) /\ turn' = "done"
      /\ page' = capped \cup Promoted \cup OffPage
  BY DEF Compose
<1>2. filled' \in 0..Len(ordered)
  BY <1>1 DEF PageMade, PageTyped
<1>3. PageTyped' /\ ListsMade' /\ TakenInOrder' /\ IntentOrdered' /\ Room' = Room /\ Cap' = Cap /\ OnIntent' = OnIntent
  BY <1>1, <1>2, ListsKept
<1>4. OffIntent' = OffIntent /\ OffCap' = OffCap
  BY <1>1 DEF OffIntent, OffCap
<1>5. Promoted' = Promoted
  BY <1>1, <1>3 DEF Promoted, FirstOf
<1>6. OffPage' = OffPage
  BY <1>1, <1>4, <1>5 DEF OffPage, FirstOf
<1>7. SharesKept'
  <2>1. /\ capped \cup deferred = {i \in 1..filled : ~ordered[i].off} /\ capped \cap deferred = {}
        /\ filled > 0 /\ 1 \in OnIntent => 1 \in capped
        /\ \A p \in Lister : queue[p] = <<>>
    BY <1>1 DEF PageMade, SharesKept
  <2>2. QED BY <1>1, <1>3, <1>5, <1>6, <2>1, SharesSame DEF SharesKept
<1>8. QED BY <1>3, <1>7 DEF PageMade

LEMMA PageNextMade == PageMade /\ [PageNext]_paging => PageMade'
<1> SUFFICES ASSUME PageMade, [PageNext]_paging PROVE PageMade'
  OBVIOUS
<1>1. CASE \E p \in Lister : Interleave(p)
  BY <1>1, InterleaveMade
<1>2. CASE Interleaved
  BY <1>2, InterleavedMade
<1>3. CASE \E i \in DOMAIN ordered : PassOver(i) \/ TakeRow(i) \/ Defer(i)
  BY <1>3, PassOverMade, TakeRowMade, DeferMade
<1>4. CASE Compose
  BY <1>4, ComposeMade
<1>5. CASE UNCHANGED paging
  <2>1. UNCHANGED <<limit, lists, queue, ordered, filled, capped, deferred, page, turn>>
    BY <1>5 DEF paging
  <2>2. PageTyped' /\ ListsMade' /\ TakenInOrder' /\ IntentOrdered'
    <3>1. PageTyped' /\ ListsMade' /\ IntentOrdered'
      BY <2>1 DEF PageMade, PageTyped, ListsMade, IntentOrdered
    <3>2. TakenInOrder'
      BY <2>1 DEF PageMade, TakenInOrder, RowsOf, Place
    <3>3. QED BY <3>1, <3>2
  <2>3. Room' = Room /\ Cap' = Cap /\ OnIntent' = OnIntent /\ OffIntent' = OffIntent /\ OffCap' = OffCap
    BY <2>1 DEF Room, Reserves, Anchored, OffIntent, OnIntent, Cap, OffCap
  <2>4. Promoted' = Promoted
    BY <2>1, <2>3 DEF Promoted, FirstOf
  <2>5. OffPage' = OffPage
    BY <2>1, <2>3, <2>4 DEF OffPage, FirstOf
  <2>6. SharesKept'
    <3>1. /\ capped \cup deferred = {i \in 1..filled : ~ordered[i].off} /\ capped \cap deferred = {}
          /\ filled > 0 /\ 1 \in OnIntent => 1 \in capped
          /\ turn = "interleaving" => filled = 0
          /\ turn # "interleaving" => \A p \in Lister : queue[p] = <<>>
          /\ turn = "done" => filled = Len(ordered) /\ page = capped \cup Promoted \cup OffPage
      BY DEF PageMade, SharesKept
    <3>2. QED BY <2>1, <2>3, <2>4, <2>5, <3>1, SharesSame DEF SharesKept
  <2>7. QED BY <2>2, <2>6 DEF PageMade
<1>6. QED BY <1>1, <1>2, <1>3, <1>4, <1>5 DEF PageNext

-----------------------------------------------------------------------------
(* The page.                                                               *)

(* What stands on a page that is done: the rows within the shares, some of *)
(* those over them, and rows off the intent, each set from its front.      *)
LEMMA PageParts ==
  ASSUME PageMade, Done
  PROVE  /\ page = capped \cup Promoted \cup OffPage
         /\ OnIntent = capped \cup deferred /\ capped \cap deferred = {}
         /\ Promoted \subseteq deferred /\ OffPage \subseteq OffIntent
         /\ DOMAIN ordered \subseteq Nat
         /\ IsFiniteSet(capped) /\ IsFiniteSet(Promoted) /\ IsFiniteSet(OffPage) /\ IsFiniteSet(page)
         /\ IsFiniteSet(OffIntent)
         /\ \A i \in Promoted, j \in deferred : j < i => j \in Promoted
         /\ \A i \in OffPage, j \in OffIntent : j < i => j \in OffPage
         /\ Cardinality(capped) \in Nat /\ Cardinality(capped \cup Promoted) \in Nat
         /\ Cardinality(capped \cup Promoted) <= Room
         /\ Promoted # deferred => Cardinality(capped \cup Promoted) = Room
         /\ Promoted # {} => Cardinality(capped) < Room
         /\ Cardinality(page) = Cardinality(capped \cup Promoted) + Cardinality(OffPage)
         /\ Cardinality(OffPage) \in Nat /\ Cardinality(OffPage) <= OffCap
         /\ Cardinality(OffPage) <= limit - Cardinality(capped \cup Promoted)
         /\ Cardinality(capped \cup Promoted) + 1 = limit /\ OffIntent # {} /\ OffCap >= 1 =>
              Cardinality(OffPage) = 1
<1>1. /\ page = capped \cup Promoted \cup OffPage /\ filled = Len(ordered)
      /\ capped \cup deferred = {i \in 1..filled : ~ordered[i].off} /\ capped \cap deferred = {}
      /\ Cardinality(capped) <= Room
  BY DEF PageMade, SharesKept, Done
<1>2. DOMAIN ordered = 1..Len(ordered) /\ Len(ordered) \in Nat
  BY DEF PageMade, PageTyped
<1>3. OnIntent = capped \cup deferred
  BY <1>1, <1>2 DEF OnIntent, OffIntent
<1>4. IsFiniteSet(DOMAIN ordered)
  BY <1>2, FS_Interval
<1>5. OffIntent \in SUBSET DOMAIN ordered /\ IsFiniteSet(OffIntent)
  <2>1. OffIntent \in SUBSET DOMAIN ordered
    BY DEF OffIntent
  <2>2. QED BY <2>1, <1>4, FS_Subset, Zenon
<1>6. /\ IsFiniteSet(capped) /\ IsFiniteSet(deferred) /\ Cardinality(capped) \in Nat /\ Cardinality(deferred) \in Nat
      /\ capped \subseteq 1..filled /\ deferred \subseteq 1..filled
  BY CappedFinite
<1>7. Room \in Nat /\ limit \in Nat /\ OffCap \in Nat /\ Room <= limit
  BY Sizes DEF PageMade
<1> DEFINE n == Room - Cardinality(capped)
<1>8. n \in Nat
  BY <1>1, <1>6, <1>7
<1>9. /\ Promoted \subseteq deferred /\ IsFiniteSet(Promoted)
      /\ Cardinality(Promoted) = IF n < Cardinality(deferred) THEN n ELSE Cardinality(deferred)
      /\ Cardinality(deferred) <= n => Promoted = deferred
      /\ \A i \in Promoted, j \in deferred : j < i => j \in Promoted
  <2>1. deferred \in SUBSET Nat
    BY <1>1, <1>2, <1>6
  <2> HIDE DEF n
  <2>2. /\ FirstOf(n, deferred) \subseteq deferred /\ IsFiniteSet(FirstOf(n, deferred))
        /\ Cardinality(FirstOf(n, deferred)) = IF n < Cardinality(deferred) THEN n ELSE Cardinality(deferred)
        /\ Cardinality(deferred) <= n => FirstOf(n, deferred) = deferred
        /\ \A i \in FirstOf(n, deferred), j \in deferred : j < i => j \in FirstOf(n, deferred)
    BY <2>1, <1>6, <1>8, FirstOfCount, Zenon
  <2>3. Promoted = FirstOf(n, deferred)
    BY DEF Promoted, n
  <2>4. QED BY <2>2, <2>3, Zenon
<1>10. capped \cap Promoted = {}
  BY <1>1, <1>9
<1> DEFINE m == Cardinality(capped \cup Promoted)
           pr == Cardinality(Promoted)
           cc == Cardinality(capped)
<1>11. m = cc + pr /\ IsFiniteSet(capped \cup Promoted)
  <2>1. /\ IsFiniteSet(capped \cup Promoted)
        /\ Cardinality(capped \cup Promoted) = Cardinality(capped) + Cardinality(Promoted) - Cardinality(capped \cap Promoted)
    BY <1>6, <1>9, FS_Union, Zenon
  <2>2. Cardinality(capped \cap Promoted) = 0
    BY <1>10, FS_EmptySet
  <2>3. Cardinality(Promoted) \in Nat
    BY <1>9, FS_CardinalityType
  <2>4. QED BY <2>1, <2>2, <2>3, <1>6
<1>12. m \in Nat /\ m <= Room /\ (Promoted # deferred => m = Room) /\ (Promoted # {} => cc < Room)
  <2>1. pr \in Nat /\ (pr = 0 <=> Promoted = {})
    BY <1>9, FS_CardinalityType, FS_EmptySet
  <2>2. cc \in Nat /\ n = Room - cc /\ pr = (IF n < Cardinality(deferred) THEN n ELSE Cardinality(deferred))
        /\ (Cardinality(deferred) <= n => Promoted = deferred)
    BY <1>6, <1>9
  <2> HIDE DEF m, n, pr, cc
  <2>3. QED BY <2>1, <2>2, <1>6, <1>7, <1>8, <1>11
<1> DEFINE rest == limit - m
           o == IF OffCap < rest THEN OffCap ELSE rest
<1>13. rest \in Nat /\ o \in Nat /\ o <= OffCap /\ o <= rest
  <2> HIDE DEF m
  <2>1. QED BY <1>7, <1>12
<1>14. /\ OffPage \subseteq OffIntent /\ IsFiniteSet(OffPage)
       /\ Cardinality(OffPage) = IF o < Cardinality(OffIntent) THEN o ELSE Cardinality(OffIntent)
       /\ \A i \in OffPage, j \in OffIntent : j < i => j \in OffPage
  <2>1. OffIntent \in SUBSET Nat
    BY <1>2, <1>5
  <2>2. OffPage = FirstOf(o, OffIntent)
    BY DEF OffPage
  <2> HIDE DEF o
  <2>3. /\ FirstOf(o, OffIntent) \subseteq OffIntent /\ IsFiniteSet(FirstOf(o, OffIntent))
        /\ Cardinality(FirstOf(o, OffIntent)) = IF o < Cardinality(OffIntent) THEN o ELSE Cardinality(OffIntent)
        /\ \A i \in FirstOf(o, OffIntent), j \in OffIntent : j < i => j \in FirstOf(o, OffIntent)
    BY <2>1, <1>5, <1>13, FirstOfCount, Zenon
  <2>4. QED BY <2>2, <2>3, Zenon
<1>15. Cardinality(OffPage) \in Nat /\ Cardinality(OffPage) <= OffCap /\ Cardinality(OffPage) <= rest
  <2>1. Cardinality(OffIntent) \in Nat
    BY <1>5, FS_CardinalityType
  <2> HIDE DEF o, rest
  <2>2. QED BY <2>1, <1>7, <1>13, <1>14
<1>16. Cardinality(page) = m + Cardinality(OffPage) /\ IsFiniteSet(page)
  <2>1. (capped \cup Promoted) \cap OffPage = {}
    <3>1. OnIntent \cap OffIntent = {}
      BY DEF OnIntent
    <3>2. QED BY <3>1, <1>3, <1>9, <1>14
  <2> DEFINE A == capped \cup Promoted
  <2>2. page = A \cup OffPage /\ A \cap OffPage = {} /\ IsFiniteSet(A) /\ m = Cardinality(A)
    BY <2>1, <1>1, <1>11
  <2> HIDE DEF A, m
  <2>3. Cardinality(A \cup OffPage) = Cardinality(A) + Cardinality(OffPage) - Cardinality(A \cap OffPage)
        /\ IsFiniteSet(A \cup OffPage)
    BY <2>2, <1>14, FS_Union, Zenon
  <2>4. Cardinality(A \cap OffPage) = 0
    BY <2>2, FS_EmptySet
  <2>5. QED BY <2>2, <2>3, <2>4, <1>12, <1>15 DEF m
<1>17. m + 1 = limit /\ OffIntent # {} /\ OffCap >= 1 => Cardinality(OffPage) = 1
  <2>1. Cardinality(OffIntent) \in Nat /\ (Cardinality(OffIntent) = 0 <=> OffIntent = {})
    BY <1>5, FS_CardinalityType, FS_EmptySet
  <2> HIDE DEF m
  <2>2. QED BY <2>1, <1>7, <1>12, <1>14
<1>18. QED BY <1>1, <1>2, <1>3, <1>5, <1>6, <1>9, <1>12, <1>14, <1>15, <1>16, <1>17

(* Every row has its place in its provider's list.                         *)
LEMMA PlaceMade ==
  ASSUME PageMade, NEW p \in Lister, NEW k \in RowsOf(p, DOMAIN ordered)
  PROVE  Place(k) \in DOMAIN lists[p]
<1> DEFINE n == Cardinality(RowsOf(p, DOMAIN ordered))
<1>1. PageTyped /\ ListsMade /\ TakenInOrder
  BY DEF PageMade
<1>2. k \in DOMAIN ordered /\ ordered[k].by = p /\ k \in Nat
  BY <1>1, RowsFinite DEF RowsOf
<1> DEFINE S == {l \in RowsOf(p, DOMAIN ordered) : l <= k}
<1>3. S \in SUBSET RowsOf(p, DOMAIN ordered) /\ k \in S
  BY <1>2
<1>4. IsFiniteSet(RowsOf(p, DOMAIN ordered)) /\ n \in Nat
  BY <1>1, RowsFinite
<1>5. Place(k) = Cardinality(S)
  BY <1>2 DEF Place
<1> HIDE DEF S
<1>6. IsFiniteSet(S) /\ Cardinality(S) <= n
  BY <1>3, <1>4, FS_Subset, Zenon
<1>7. Cardinality(S) \in Nat /\ Cardinality(S) # 0
  BY <1>3, <1>6, FS_CardinalityType, FS_EmptySet
<1>8. n <= Len(lists[p]) /\ DOMAIN lists[p] = 1..Len(lists[p]) /\ Len(lists[p]) \in Nat
  BY <1>1, QueueMade
<1> HIDE DEF n
<1>9. QED BY <1>4, <1>5, <1>6, <1>7, <1>8

(* A provider's rows are off the intent all or none.                       *)
LEMMA SameIntent ==
  ASSUME PageMade, NEW i \in DOMAIN ordered, NEW j \in DOMAIN ordered, ordered[i].by = ordered[j].by
  PROVE  ordered[i].off = ordered[j].off
<1>1. PageTyped /\ ListsMade /\ TakenInOrder
  BY DEF PageMade
<1>2. PICK p \in Lister : p = ordered[i].by
  BY <1>1, RowMade
<1>3. i \in RowsOf(p, DOMAIN ordered) /\ j \in RowsOf(p, DOMAIN ordered)
  BY <1>2 DEF RowsOf
<1>4. ordered[i] = lists[p][Place(i)] /\ ordered[j] = lists[p][Place(j)]
  BY <1>1, <1>3 DEF TakenInOrder
<1>5. Place(i) \in DOMAIN lists[p] /\ Place(j) \in DOMAIN lists[p]
  BY <1>3, PlaceMade
<1>6. QED BY <1>1, <1>4, <1>5 DEF ListsMade

LEMMA PageBegins == PageMade => BeginsEachList
<1> SUFFICES ASSUME PageMade, Done, NEW p \in Lister
             PROVE  /\ Cardinality(RowsOf(p, DOMAIN ordered)) = Len(lists[p])
                    /\ \A i \in RowsOf(p, DOMAIN ordered) : ordered[i] = lists[p][Place(i)]
                    /\ \A i \in RowsOf(p, page), j \in RowsOf(p, DOMAIN ordered) : j < i => j \in page
  BY DEF BeginsEachList
<1>1. Cardinality(RowsOf(p, DOMAIN ordered)) = Len(lists[p])
  <2>1. queue[p] = <<>>
    BY DEF PageMade, SharesKept, Done
  <2>2. Len(queue[p]) = Len(lists[p]) - Cardinality(RowsOf(p, DOMAIN ordered)) /\ Len(queue[p]) = 0
    BY <2>1 DEF PageMade, TakenInOrder
  <2>3. Cardinality(RowsOf(p, DOMAIN ordered)) \in Nat /\ Len(lists[p]) \in Nat
    BY RowsFinite, QueueMade DEF PageMade
  <2>4. QED BY <2>2, <2>3
<1>2. \A i \in RowsOf(p, DOMAIN ordered) : ordered[i] = lists[p][Place(i)]
  BY DEF PageMade, TakenInOrder
<1>3. ASSUME NEW i \in RowsOf(p, page), NEW j \in RowsOf(p, DOMAIN ordered), j < i
      PROVE  j \in page
  <2>1. /\ page = capped \cup Promoted \cup OffPage /\ OnIntent = capped \cup deferred
        /\ Promoted \subseteq deferred /\ OffPage \subseteq OffIntent
        /\ \A k \in Promoted, l \in deferred : l < k => l \in Promoted
        /\ \A k \in OffPage, l \in OffIntent : l < k => l \in OffPage
    BY PageParts
  <2>2. i \in page /\ i \in DOMAIN ordered /\ j \in DOMAIN ordered /\ ordered[i].by = p /\ ordered[j].by = p
    BY <2>1 DEF RowsOf, OnIntent, OffIntent
  <2>3. ordered[i].off = ordered[j].off
    BY <2>2, SameIntent
  <2>4. CASE i \in OffPage
    BY <2>1, <2>2, <2>3, <2>4, <1>3 DEF OffIntent
  <2>5. CASE i \in Promoted
    BY <2>1, <2>2, <2>3, <2>5, <1>3 DEF OnIntent, OffIntent
  <2>6. CASE i \in capped
    <3>1. j \in capped \cup deferred
      BY <2>1, <2>2, <2>3, <2>6 DEF OnIntent, OffIntent
    <3>2. CASE j \in deferred
      <4>1. i < j
        BY <2>2, <2>6, <3>2 DEF PageMade, SharesKept
      <4>2. i \in Nat /\ j \in Nat
        BY <2>2, PageParts
      <4>3. QED BY <4>1, <4>2, <1>3
    <3>3. QED BY <2>1, <3>1, <3>2
  <2>7. QED BY <2>1, <2>2, <2>4, <2>5, <2>6
<1>4. QED BY <1>1, <1>2, <1>3

LEMMA PageShared == PageMade => NoneCrowdsOut
<1> SUFFICES ASSUME PageMade, Done, NEW p \in Lister, NEW q \in Lister
             PROVE  /\ Cardinality(page) <= limit
                    /\ p # q /\ Cardinality(RowsOf(p, page)) > Cap =>
                         RowsOf(q, OnIntent) \subseteq page \/ Cardinality(RowsOf(q, page)) >= Cap
  BY DEF NoneCrowdsOut
<1>1. limit \in Nat /\ Room \in Nat /\ Cap \in Nat /\ OffCap \in Nat /\ OffCap <= Cap
  BY Sizes DEF PageMade
<1>2. Cardinality(page) <= limit
  BY PageParts, <1>1
<1>3. /\ page = capped \cup Promoted \cup OffPage /\ OnIntent = capped \cup deferred /\ IsFiniteSet(page)
      /\ Promoted \subseteq deferred /\ OffPage \subseteq OffIntent /\ IsFiniteSet(OffPage)
      /\ Cardinality(OffPage) \in Nat /\ Cardinality(OffPage) <= OffCap
  BY PageParts
<1>4. ASSUME NEW r
      PROVE  IsFiniteSet(RowsOf(r, page)) /\ Cardinality(RowsOf(r, page)) \in Nat
  <2>1. RowsOf(r, page) \in SUBSET page
    BY DEF RowsOf
  <2>2. IsFiniteSet(RowsOf(r, page))
    BY <2>1, <1>3, FS_Subset, Zenon
  <2>3. QED BY <2>2, FS_CardinalityType
<1>5. ASSUME Cardinality(RowsOf(p, page)) > Cap, ~(RowsOf(q, OnIntent) \subseteq page)
      PROVE  Cardinality(RowsOf(q, page)) >= Cap
  <2>1. PICK j : j \in deferred /\ ordered[j].by = q /\ j \notin page
    BY <1>3, <1>5 DEF RowsOf
  <2>2. Promoted # {}
    <3> SUFFICES ASSUME Promoted = {} PROVE FALSE
      OBVIOUS
    <3>1. \/ RowsOf(p, page) \subseteq RowsOf(p, capped)
          \/ RowsOf(p, page) \subseteq OffPage
      <4>1. CASE \E i \in RowsOf(p, page) : i \in OffPage
        <5>1. PICK i : i \in OffPage /\ ordered[i].by = p /\ i \in DOMAIN ordered /\ ordered[i].off
          BY <4>1, <1>3 DEF RowsOf, OffIntent
        <5>2. ASSUME NEW k \in RowsOf(p, page) PROVE k \in OffPage
          <6>1. k \in page /\ k \in DOMAIN ordered /\ ordered[k].by = p
            BY <1>3 DEF RowsOf, OnIntent, OffIntent
          <6>2. ordered[k].off
            BY <5>1, <6>1, SameIntent
          <6>3. k \notin capped
            BY <6>2, <6>1, <1>3 DEF OnIntent, OffIntent
          <6>4. QED BY <6>1, <6>3, <1>3
        <5>3. QED BY <5>2
      <4>2. CASE \A i \in RowsOf(p, page) : i \notin OffPage
        BY <4>2, <1>3 DEF RowsOf
      <4>3. QED BY <4>1, <4>2
    <3>2. CASE RowsOf(p, page) \subseteq RowsOf(p, capped)
      <4>1. RowsOf(p, page) \in SUBSET RowsOf(p, capped) /\ IsFiniteSet(RowsOf(p, capped))
            /\ Cardinality(RowsOf(p, capped)) \in Nat
        BY <3>2, CappedFinite
      <4>2. Cardinality(RowsOf(p, page)) <= Cardinality(RowsOf(p, capped))
        BY <4>1, FS_Subset, Zenon
      <4>3. Cardinality(RowsOf(p, capped)) <= Cap
        BY DEF PageMade, SharesKept
      <4>4. QED BY <4>1, <4>2, <4>3, <1>1, <1>4, <1>5
    <3>3. CASE RowsOf(p, page) \subseteq OffPage
      <4>1. RowsOf(p, page) \in SUBSET OffPage
        BY <3>3
      <4>2. Cardinality(RowsOf(p, page)) <= Cardinality(OffPage)
        BY <4>1, <1>3, FS_Subset, Zenon
      <4>3. QED BY <4>2, <1>1, <1>3, <1>4, <1>5
    <3>4. QED BY <3>1, <3>2, <3>3
  <2>3. Cardinality(capped) < Room
    BY <2>2, PageParts
  <2>4. ~HasShare(j)
    BY <2>1 DEF PageMade, SharesKept
  <2>5. Cardinality(RowsOf(q, capped)) >= Cap
    <3>1. ~(Cardinality(RowsOf(q, capped)) < Cap)
      BY <2>1, <2>3, <2>4 DEF HasShare
    <3>2. QED BY <3>1, <1>1, CappedFinite
  <2>6. RowsOf(q, capped) \in SUBSET RowsOf(q, page)
    BY <1>3 DEF RowsOf
  <2>7. Cardinality(RowsOf(q, capped)) <= Cardinality(RowsOf(q, page))
    BY <2>6, <1>4, FS_Subset, Zenon
  <2>8. Cardinality(RowsOf(q, capped)) \in Nat
    BY CappedFinite
  <2>9. QED BY <2>5, <2>7, <2>8, <1>1, <1>4
<1>6. QED BY <1>2, <1>5

LEMMA PageBest == PageMade => BestFirst
<1> SUFFICES ASSUME PageMade, Done PROVE BestFirst
  BY DEF BestFirst, AskedForFirst, NamedFirst
<1>1. /\ limit \in Nat /\ Room \in Nat \ {0} /\ Cap \in Nat \ {0} /\ OffCap \in Nat
      /\ Room <= limit
      /\ (Reserves => Room = limit - 1 /\ OffCap >= 1) /\ (~Reserves => Room = limit)
  BY Sizes DEF PageMade
<1> DEFINE m == Cardinality(capped \cup Promoted)
<1>2. /\ page = capped \cup Promoted \cup OffPage /\ OnIntent = capped \cup deferred
      /\ Promoted \subseteq deferred /\ OffPage \subseteq OffIntent /\ IsFiniteSet(OffPage)
      /\ \A i \in OffPage, j \in OffIntent : j < i => j \in OffPage
      /\ Promoted # deferred => m = Room
      /\ Cardinality(page) = m + Cardinality(OffPage) /\ m \in Nat
      /\ Cardinality(OffPage) \in Nat /\ Cardinality(OffPage) <= limit - m
      /\ m + 1 = limit /\ OffIntent # {} /\ OffCap >= 1 => Cardinality(OffPage) = 1
      /\ DOMAIN ordered \subseteq Nat
  BY PageParts
<1> HIDE DEF m
<1>3. OffRows = OffPage /\ page \ OffRows = capped \cup Promoted
  BY <1>2 DEF OffRows, OnIntent
<1>4. ASSUME LeftOff # {}
      PROVE  /\ Cardinality(page) = limit
             /\ Cardinality(OffRows) <= 1
             /\ \A i \in OffRows : ordered[i].exact /\ ~Anchored
  <2>1. m = Room
    BY <1>2, <1>4 DEF LeftOff
  <2>2. CASE Reserves
    <3>1. ~Anchored
      BY <2>2 DEF Reserves
    <3>2. PICK f \in OffIntent : ordered[f].exact /\ \A j \in OffIntent : f <= j
      BY <2>2 DEF Reserves
    <3>3. m + 1 = limit
      BY <2>1, <2>2, <1>1
    <3>4. Cardinality(OffPage) = 1
      BY <3>2, <3>3, <2>2, <1>1, <1>2
    <3>5. PICK x : OffPage = {x}
      BY <3>4, <1>2, FS_Singleton
    <3>6. x \in OffIntent /\ x \in Nat /\ f \in Nat
      BY <3>5, <3>2, <1>2 DEF OffIntent
    <3>7. x = f
      <4>1. f <= x
        BY <3>2, <3>6
      <4>2. f < x => f \in OffPage
        BY <3>2, <3>5, <1>2
      <4>3. QED BY <4>1, <4>2, <3>5, <3>6
    <3>8. QED BY <3>1, <3>2, <3>3, <3>4, <3>5, <3>7, <1>2, <1>3
  <2>3. CASE ~Reserves
    <3>1. Cardinality(OffPage) = 0
      BY <2>1, <2>3, <1>1, <1>2
    <3>2. OffPage = {}
      BY <3>1, <1>2, FS_EmptySet
    <3>3. QED BY <3>1, <3>2, <2>1, <2>3, <1>1, <1>2, <1>3
  <2>4. QED BY <2>2, <2>3
<1>5. \A i \in page : ordered[i].anchor => i = 1
  <2>1. page \subseteq DOMAIN ordered
    BY <1>2 DEF OnIntent, OffIntent
  <2>2. QED BY <2>1 DEF PageMade, IntentOrdered
<1>6. ASSUME Anchored PROVE 1 \in page
  <2>1. PICK i \in DOMAIN ordered : ordered[i].anchor
    BY <1>6 DEF Anchored
  <2>2. i = 1
    BY <2>1 DEF PageMade, IntentOrdered
  <2>3. filled = Len(ordered) /\ DOMAIN ordered = 1..Len(ordered) /\ Len(ordered) \in Nat
    BY DEF PageMade, PageTyped, SharesKept, Done
  <2>4. filled > 0
    BY <2>1, <2>2, <2>3
  <2>5. ~ordered[1].off
    <3>1. PICK p \in Lister : p = ordered[1].by
      BY <2>1, <2>2, RowMade DEF PageMade
    <3>2. 1 \in RowsOf(p, DOMAIN ordered)
      BY <3>1, <2>1, <2>2 DEF RowsOf
    <3>3. ordered[1] = lists[p][Place(1)]
      BY <3>2 DEF PageMade, TakenInOrder
    <3>4. Place(1) \in DOMAIN lists[p]
      BY <3>2, PlaceMade
    <3>5. (ordered[1].anchor => p \in Entity) /\ (ordered[1].off => p \in Profile)
      BY <3>3, <3>4 DEF PageMade, ListsMade
    <3>6. QED BY <3>5, <2>1, <2>2, MergedPageAssumption
  <2>6. 1 \in OnIntent
    BY <2>1, <2>2, <2>5 DEF OnIntent, OffIntent
  <2>7. 1 \in capped
    BY <2>4, <2>6 DEF PageMade, SharesKept
  <2>8. QED BY <2>7, <1>2
<1>7. \A i \in OffRows, j \in page \ OffRows : j < i
  <2> SUFFICES ASSUME NEW i \in OffPage, NEW j \in capped \cup Promoted PROVE j < i
    BY <1>3
  <2>1. i \in DOMAIN ordered /\ ordered[i].off
    BY <1>2 DEF OffIntent
  <2>2. j \in DOMAIN ordered /\ ~ordered[j].off
    BY <1>2 DEF OnIntent, OffIntent
  <2>3. QED BY <2>1, <2>2 DEF PageMade, IntentOrdered
<1>8. QED BY <1>4, <1>5, <1>6, <1>7 DEF BestFirst, AskedForFirst, NamedFirst

(* For any providers, lists of rows and limits: the page begins each list,  *)
(* in its order and without a hole (but where the cap or a reserved slot    *)
(* bites), no provider crowds the others out, and rows on the intent come   *)
(* before rows off it, the named page first.                                *)
THEOREM PageAlwaysHolds == PageSpec => []PageHolds
<1>1. PageMade => PageHolds
  BY PageBegins, PageShared, PageBest DEF PageHolds
<1>2. QED BY <1>1, PageInitMade, PageNextMade, PTL DEF PageSpec

-----------------------------------------------------------------------------
(* Which provider a command reads.                                          *)

(* A command that names its provider names a registered one, and its        *)
(* arguments are some that the provider takes.                              *)
AskedTyped ==
  asked.name \in {"resolve", "proxy", "composite"} /\ asked.game \in Game \cup {AnyGame}
  /\ (asked.name = "resolve" => asked.own = AnyGame /\ asked.surface = "pinned")
  /\ (asked.name # "resolve" => \E p \in Source : asked.only = {p} /\ Takes(p, asked))

(* A resolve reads within the game; whoever reads outside of it says so.    *)
InGame ==
  /\ AskedTyped
  /\ at \in {"begun", "scoped", "answered", "done"}
  /\ at = "begun" => reads = {}
  /\ at \in {"scoped", "answered"} => asked.name = "resolve"
  /\ at = "scoped" => reads = {} /\ left = [p \in Source |-> WhyNot(p)]
  /\ asked.name = "resolve" /\ asked.game # AnyGame => \A r \in reads : r.game = asked.game
  /\ StaysInGame

LEMMA WhyNotIsSaid ==
  ASSUME NEW p, NEW game
  PROVE  WhyNotGame(p, game) = "-" <=> Supports(p, game)
BY DEF WhyNotGame

LEMMA PinnedIsRead ==
  ASSUME NEW p \in Source, NEW game \in Game, Supports(p, game)
  PROVE  SelectedGame(p, Pin(p, game)) = game
BY DiscoveryAssumption DEF SelectedGame, Pin, Supports

LEMMA NamedIsAsked ==
  ASSUME AskedTyped, asked.name # "resolve"
  PROVE  Named \in Source /\ Takes(Named, asked)
<1>1. PICK p \in Source : asked.only = {p} /\ Takes(p, asked)
  BY DEF AskedTyped
<1>2. \E q \in Source : q \in asked.only
  BY <1>1
<1>3. Named \in Source /\ Named \in asked.only
  BY <1>2, Zenon DEF Named
<1>4. QED BY <1>1, <1>3

(* A resolve names no option of a provider and no guide.                    *)
LEMMA ResolveStays ==
  ASSUME AskedTyped, asked.name = "resolve",
         asked.game # AnyGame => \A r \in reads : r.game = asked.game
  PROVE  StaysInGame
BY DEF AskedTyped, StaysInGame, AskedForGame, GuideIsNoted, TellsGame, Option

(* What was said before stays in the game as long as nothing changes.       *)
LEMMA StillStays ==
  ASSUME StaysInGame, asked' = asked, reads' = reads, outcome' = outcome
  PROVE  StaysInGame'
<1>1. Option' = Option
  BY DEF Option
<1>2. QED BY <1>1 DEF StaysInGame, AskedForGame, GuideIsNoted, TellsGame

(* A command told the game that an option selected reads within it, or what *)
(* a reference names, with a note where there is one.                       *)
LEMMA CommandStays ==
  ASSUME AskedTyped, asked.name # "resolve", WhyNotGame(Named, asked.game) = "-",
         Command(Named, Pin(Named, Option))
  PROVE  StaysInGame' /\ asked' = asked /\ at' = "done"
<1> DEFINE pin == Pin(Named, Option)
<1>1. Named \in Source /\ Takes(Named, asked)
  BY NamedIsAsked
<1>2. asked' = asked /\ at' = "done"
  BY DEF Command, Refused, Says
<1>3. Option' = Option
  BY <1>2 DEF Option
<1>4. CASE reads' = {}
  BY <1>2, <1>4 DEF StaysInGame, AskedForGame, GuideIsNoted, TellsGame
<1>5. CASE reads' # {}
  <2>1. PICK served : /\ reads' = {Reads(Named, pin, served)}
                      /\ outcome' = [NoOutcome EXCEPT !.noted = Noted(Named, pin, served)]
    BY <1>5 DEF Command, Refused, Says
  <2>2. outcome'.noted = Noted(Named, pin, served)
    BY <2>1 DEF NoOutcome
  <2>3. \A r \in reads' : r.by = Named /\ r.game = Target(Named, pin) /\ r.served = served
    BY <2>1 DEF Reads
  <2>4. Supports(Named, asked.game)
    BY WhyNotIsSaid
  <2>5. Mode[Named] = "profiled" => pin = Option
    BY DEF Pin
  <2>6. ASSUME Option # AnyGame PROVE SelectedGame(Named, pin) = Option
    <3>1. CASE Mode[Named] = "profiled"
      BY <2>5, <2>6, <3>1 DEF SelectedGame
    <3>2. CASE Mode[Named] # "profiled"
      <4>1. asked.own = AnyGame
        BY <1>1, <3>2 DEF Takes
      <4>2. Option = asked.game /\ asked.game \in Game
        BY <2>6, <4>1 DEF Option, AskedTyped
      <4>3. QED BY <1>1, <2>4, <4>2, PinnedIsRead
    <3>3. QED BY <3>1, <3>2
  <2>7. asked.surface # "pinned" => Named \in Follows /\ Mode[Named] = "profiled"
    BY <1>1, DiscoveryAssumption DEF Takes
  <2>8. AskedForGame'
    <3> SUFFICES ASSUME Option # AnyGame, NEW r \in reads'
                 PROVE  \/ r.game = Option
                        \/ /\ r.by \in Follows /\ r.game = asked.refers
                           /\ asked.name # "resolve" /\ asked.surface # "pinned"
                           /\ asked.surface = "post" => outcome'.noted
      BY <1>2, <1>3 DEF AskedForGame
    <3>1. CASE asked.surface = "pinned" \/ asked.refers = AnyGame
      BY <2>3, <2>6, <3>1 DEF Target
    <3>2. CASE asked.surface # "pinned" /\ asked.refers # AnyGame
      <4>1. r.game = asked.refers /\ r.by = Named /\ Target(Named, pin) = asked.refers
        BY <2>3, <3>2 DEF Target
      <4>2. asked.surface = "post" /\ r.game # Option => outcome'.noted
        BY <2>2, <2>6, <4>1 DEF Noted
      <4>3. QED BY <2>7, <3>2, <4>1, <4>2
    <3>3. QED BY <3>1, <3>2
  <2>9. GuideIsNoted'
    <3> SUFFICES ASSUME asked.surface = "guide", NEW r \in reads'
                 PROVE  outcome'.noted <=>
                          r.served # (IF Option # AnyGame THEN Option
                                      ELSE IF asked.refers # AnyGame THEN asked.refers ELSE Home[r.by])
      BY <1>2, <1>3 DEF GuideIsNoted, TellsGame
    <3>1. pin = Option /\ Named \in Follows
      BY <2>5, <2>7
    <3>2. outcome'.noted <=> served # SelectedGame(Named, pin)
      BY <2>2 DEF Noted
    <3>3. QED BY <2>3, <3>1, <3>2 DEF SelectedGame
  <2>10. QED BY <1>2, <2>8, <2>9 DEF StaysInGame
<1>6. QED BY <1>2, <1>4, <1>5

(* A provider without versions is read whatever is selected.                *)
LEMMA UntoldStays ==
  ASSUME AskedTyped, asked.name # "resolve", Advised, asked' = asked,
         reads' = {} \/ \E pin, served : reads' = {Reads(Named, pin, served)},
         asked.name = "composite" \/ outcome'.advised
  PROVE  StaysInGame'
<1>1. Takes(Named, asked) /\ Mode[Named] = "none" /\ asked.game \notin Unverified[Named]
  BY NamedIsAsked DEF Advised
<1>2. asked.surface = "pinned"
  BY <1>1, DiscoveryAssumption, NamedIsAsked DEF Takes
<1>3. \A r \in reads' : r.by = Named
  BY DEF Reads
<1>4. QED BY <1>1, <1>2, <1>3 DEF StaysInGame, AskedForGame, GuideIsNoted, TellsGame

LEMMA DiscoveryInitGame == DiscoveryInit => InGame
<1> SUFFICES ASSUME DiscoveryInit PROVE InGame
  OBVIOUS
<1>1. AskedTyped
  <2>1. CASE asked \in [name : {"resolve"}, game : Game \cup {AnyGame}, only : SUBSET Source,
                        kinds : SUBSET UNION {Kinds[p] : p \in Source}, own : {AnyGame},
                        refers : Game \cup {AnyGame}, surface : {"pinned"}]
    BY <2>1 DEF AskedTyped
  <2>2. CASE asked \in {c \in [name : {"proxy", "composite"}, game : Game \cup {AnyGame}, only : {{p} : p \in Source},
                     kinds : {{}}, own : Game \cup {AnyGame}, refers : Game \cup {AnyGame}, surface : Surfaces] :
                  \A p \in c.only : Takes(p, c)}
    BY <2>2 DEF AskedTyped
  <2>3. QED BY <2>1, <2>2 DEF DiscoveryInit
<1>2. QED BY <1>1 DEF DiscoveryInit, InGame, StaysInGame, AskedForGame, GuideIsNoted, TellsGame

LEMMA DiscoveryNextGame == InGame /\ [DiscoveryNext]_discovering => InGame'
<1> SUFFICES ASSUME InGame, [DiscoveryNext]_discovering PROVE InGame'
  OBVIOUS
<1> USE DEF InGame
<1>0. asked' = asked => AskedTyped'
  BY DEF AskedTyped, Takes
<1>1. CASE Scope
  <2>1. asked' = asked /\ reads' = reads /\ outcome' = outcome
    BY <1>1 DEF Scope
  <2>2. StaysInGame'
    BY <2>1, StillStays
  <2>3. QED BY <1>0, <1>1, <2>1, <2>2 DEF Scope, WhyNot, WhyNotScope
<1>2. CASE Ask
  <2>1. /\ asked' = asked /\ outcome' = outcome /\ at' = "answered" /\ at = "scoped" /\ asked.name = "resolve"
        /\ reads' = {Reads(p, Pin(p, asked.game), Target(p, Pin(p, asked.game))) : p \in Fetching}
    BY <1>2 DEF Ask
  <2>2. ASSUME asked.game # AnyGame, NEW p \in Fetching PROVE Target(p, Pin(p, asked.game)) = asked.game
    <3>1. p \in Source /\ WhyNot(p) = "-"
      BY <2>1 DEF Fetching, Included
    <3>2. Supports(p, asked.game)
      BY <3>1, WhyNotIsSaid DEF WhyNot
    <3>3. asked.game \in Game /\ asked.surface = "pinned"
      BY <2>1, <2>2 DEF AskedTyped
    <3>4. QED BY <3>1, <3>2, <3>3, PinnedIsRead DEF Target
  <2>3. asked.game # AnyGame => \A r \in reads' : r.game = asked.game
    BY <2>1, <2>2 DEF Reads
  <2>4. (AskedTyped /\ asked.name = "resolve" /\ (asked.game # AnyGame => \A r \in reads : r.game = asked.game)
          => StaysInGame)'
    BY ResolveStays, PTL
  <2>5. QED BY <2>1, <2>3, <2>4, <1>0
<1>3. CASE Decide
  <2>1. asked' = asked /\ reads' = reads /\ at' = "done" /\ at = "answered" /\ asked.name = "resolve"
    BY <1>3 DEF Decide
  <2>2. (AskedTyped /\ asked.name = "resolve" /\ (asked.game # AnyGame => \A r \in reads : r.game = asked.game)
          => StaysInGame)'
    BY ResolveStays, PTL
  <2>3. QED BY <2>1, <2>2, <1>0
<1>4. CASE Proxy \/ ProxyAdvised \/ ProxyRefused \/ Composite
  <2>1. asked' = asked /\ at' = "done" /\ asked.name # "resolve"
    BY <1>4 DEF Proxy, ProxyAdvised, ProxyRefused, Composite, Command, Says, Refused
  <2>2. Takes(Named, asked)
    BY <2>1, NamedIsAsked
  <2>3. reads' = {} => StaysInGame'
    BY <2>1 DEF StaysInGame, AskedForGame, GuideIsNoted, TellsGame
  <2>4. StaysInGame'
    <3>1. CASE Proxy
      <4>1. CASE reads' = {}
        BY <2>3, <4>1
      <4>2. CASE reads' # {}
        <5>1. Command(Named, Pin(Named, Option)) /\ WhyNotGame(Named, asked.game) = "-"
          BY <3>1, <4>2 DEF Proxy, Refused, Says, Option
        <5>2. QED BY <2>1, <5>1, CommandStays
      <4>3. QED BY <4>1, <4>2
    <3>2. CASE ProxyAdvised
      <4>1. /\ reads' = {Reads(Named, AnyGame, Home[Named])} /\ Advised
            /\ outcome' = [NoOutcome EXCEPT !.advised = TRUE]
        BY <3>2 DEF ProxyAdvised, Says
      <4>2. outcome'.advised
        BY <4>1 DEF NoOutcome
      <4>3. QED BY <2>1, <4>1, <4>2, UntoldStays
    <3>3. CASE ProxyRefused
      BY <2>3, <3>3 DEF ProxyRefused, Refused, Says
    <3>4. CASE Composite
      <4>1. asked.name = "composite" /\ Option = asked.game
        BY <2>2, <3>4 DEF Composite, Takes, Option
      <4>2. CASE reads' = {}
        BY <2>3, <4>2
      <4>3. CASE reads' # {} /\ WhyNotGame(Named, asked.game) = "-"
        BY <2>1, <3>4, <4>1, <4>3, CommandStays DEF Composite
      <4>4. CASE reads' # {} /\ WhyNotGame(Named, asked.game) # "-"
        <5>1. Advised /\ Command(Named, Pin(Named, asked.game))
          BY <3>4, <4>4 DEF Composite, Refused, Says
        <5>2. \E pin, served : reads' = {Reads(Named, pin, served)}
          BY <4>4, <5>1 DEF Command, Refused, Says
        <5>3. QED BY <2>1, <4>1, <5>1, <5>2, UntoldStays
      <4>5. QED BY <4>2, <4>3, <4>4
    <3>5. QED BY <1>4, <3>1, <3>2, <3>3, <3>4
  <2>5. QED BY <2>1, <2>4, <1>0
<1>5. CASE UNCHANGED discovering
  <2>1. asked' = asked /\ reads' = reads /\ outcome' = outcome /\ at' = at /\ left' = left
    BY <1>5 DEF discovering
  <2>2. StaysInGame'
    BY <2>1, StillStays
  <2>3. QED BY <1>0, <2>1, <2>2 DEF WhyNot, WhyNotScope
<1>6. QED BY <1>1, <1>2, <1>3, <1>4, <1>5 DEF DiscoveryNext

(* For any registry of providers and any arguments: with a game selected, a *)
(* resolve, a passthrough or a composite asks for no other game than that   *)
(* one or, where references are read as they stand, the one a reference     *)
(* names; a passthrough says when it does not apply the filter; and a guide *)
(* of another game always carries its note.                                 *)
THEOREM StaysAlwaysInGame == DiscoverySpec => []StaysInGame
<1>1. InGame => StaysInGame
  BY DEF InGame
<1>2. QED BY <1>1, DiscoveryInitGame, DiscoveryNextGame, PTL DEF DiscoverySpec

-----------------------------------------------------------------------------
(* The ranking.                                                            *)

(* A strict total order on a finite set that is not empty has a first.     *)
LEMMA FirstOfOrder ==
  ASSUME NEW S, IsFiniteSet(S), S # {}, NEW R,
         \A p, q \in S : p # q => <<p, q>> \in R \/ <<q, p>> \in R,
         \A p, q \in S : ~(<<p, q>> \in R /\ <<q, p>> \in R),
         \A p, q, r \in S : <<p, q>> \in R /\ <<q, r>> \in R => <<p, r>> \in R
  PROVE  \E p \in S : \A q \in S \ {p} : <<p, q>> \in R
<1> DEFINE Sooner(p) == {q \in S : <<q, p>> \in R}
           rank == [p \in S |-> Cardinality(Sooner(p))]
           N == Cardinality(S)
<1>0. N \in Nat /\ N # 0
  BY FS_CardinalityType, FS_EmptySet
<1>1. ASSUME NEW p \in S
      PROVE  IsFiniteSet(Sooner(p)) /\ Cardinality(Sooner(p)) \in Nat /\ Cardinality(Sooner(p)) < N
  <2>1. Sooner(p) \in SUBSET S /\ p \notin Sooner(p)
    OBVIOUS
  <2>2. IsFiniteSet(Sooner(p)) /\ Cardinality(Sooner(p)) <= N /\ (N = Cardinality(Sooner(p)) => S = Sooner(p))
    BY <2>1, FS_Subset, Zenon
  <2>3. Cardinality(Sooner(p)) \in Nat
    BY <2>2, FS_CardinalityType
  <2>4. Cardinality(Sooner(p)) # N
    BY <2>1, <2>2
  <2> HIDE DEF Sooner, N
  <2>5. QED BY <2>2, <2>3, <2>4, <1>0
<1>2. ASSUME NEW p \in S, NEW q \in S, <<q, p>> \in R
      PROVE  Cardinality(Sooner(q)) < Cardinality(Sooner(p))
  <2>1. Sooner(q) \in SUBSET Sooner(p) /\ q \in Sooner(p) /\ q \notin Sooner(q)
    BY <1>2
  <2>2. /\ Cardinality(Sooner(q)) <= Cardinality(Sooner(p))
        /\ Cardinality(Sooner(p)) = Cardinality(Sooner(q)) => Sooner(p) = Sooner(q)
    BY <2>1, <1>1, FS_Subset, Zenon
  <2>3. Cardinality(Sooner(p)) # Cardinality(Sooner(q))
    BY <2>1, <2>2
  <2>4. Cardinality(Sooner(p)) \in Nat /\ Cardinality(Sooner(q)) \in Nat
    BY <1>1
  <2> HIDE DEF Sooner
  <2>5. QED BY <2>2, <2>3, <2>4
<1>3. \A p \in S : Cardinality(Sooner(p)) \in 0..(N-1)
  <2> HIDE DEF Sooner, N
  <2>1. QED BY <1>0, <1>1
<1>4. rank \in Injection(S, 0..(N-1))
  <2>1. rank \in [S -> 0..(N-1)]
    BY <1>3
  <2>2. \A p, q \in S : p # q => rank[p] # rank[q]
    <3> SUFFICES ASSUME NEW p \in S, NEW q \in S, p # q PROVE Cardinality(Sooner(p)) # Cardinality(Sooner(q))
      OBVIOUS
    <3>1. Cardinality(Sooner(p)) \in Nat /\ Cardinality(Sooner(q)) \in Nat
      BY <1>1
    <3>2. Cardinality(Sooner(p)) < Cardinality(Sooner(q)) \/ Cardinality(Sooner(q)) < Cardinality(Sooner(p))
      <4>1. <<p, q>> \in R \/ <<q, p>> \in R
        OBVIOUS
      <4> HIDE DEF Sooner
      <4>2. QED BY <4>1, <1>2
    <3> HIDE DEF Sooner
    <3>3. QED BY <3>1, <3>2
  <2>3. QED BY <2>1, <2>2 DEF Injection, IsInjective
<1>5. IsFiniteSet(0..(N-1)) /\ Cardinality(0..(N-1)) = N
  <2> HIDE DEF N
  <2>1. N - 1 \in Int /\ 0 \in Int
    BY <1>0
  <2>2. /\ IsFiniteSet(0..(N-1))
        /\ Cardinality(0..(N-1)) = IF 0 > N - 1 THEN 0 ELSE (N - 1) - 0 + 1
    BY <2>1, FS_Interval, Zenon
  <2>3. QED BY <2>2, <1>0
<1>6. rank \in Surjection(S, 0..(N-1))
  BY <1>4, <1>5, FS_Injection, Zenon
<1>7. 0 \in 0..(N-1)
  BY <1>0
<1>8. PICK p \in S : rank[p] = 0
  BY <1>6, <1>7 DEF Surjection
<1>9. Sooner(p) = {}
  <2>1. Cardinality(Sooner(p)) = 0 /\ IsFiniteSet(Sooner(p))
    BY <1>1, <1>8
  <2> HIDE DEF Sooner
  <2>2. QED BY <2>1, FS_EmptySet
<1>10. QED BY <1>9

LEMMA KeysOrdered ==
  ASSUME NEW k \in [1..6 -> Int], NEW l \in [1..6 -> Int]
  PROVE  /\ ~(Before6(k, l) /\ Before6(l, k))
         /\ k[6] # l[6] => Before6(k, l) \/ Before6(l, k)
         /\ \A m \in [1..6 -> Int] : Before6(k, l) /\ Before6(l, m) => Before6(k, m)
<1>1. ~(Before6(k, l) /\ Before6(l, k))
  <2> SUFFICES ASSUME NEW i \in 1..6, k[i] < l[i], \A j \in 1..(i - 1) : k[j] = l[j],
                      NEW h \in 1..6, l[h] < k[h], \A j \in 1..(h - 1) : l[j] = k[j]
               PROVE  FALSE
    BY DEF Before6
  <2>1. i = h \/ i \in 1..(h - 1) \/ h \in 1..(i - 1)
    OBVIOUS
  <2>2. k[i] \in Int /\ l[i] \in Int /\ k[h] \in Int /\ l[h] \in Int
    OBVIOUS
  <2>3. QED BY <2>1, <2>2
<1>2. ASSUME k[6] # l[6] PROVE Before6(k, l) \/ Before6(l, k)
  <2>1. \A i \in 1..6 : k[i] \in Int /\ l[i] \in Int
    OBVIOUS
  <2>2. ASSUME NEW i \in 1..6, k[i] # l[i], \A j \in 1..(i - 1) : k[j] = l[j]
        PROVE  Before6(k, l) \/ Before6(l, k)
    <3>1. k[i] < l[i] \/ l[i] < k[i]
      BY <2>1, <2>2
    <3>2. QED BY <3>1, <2>2 DEF Before6
  <2>3. CASE k[1] # l[1]
    BY <2>2, <2>3
  <2>4. CASE k[1] = l[1] /\ k[2] # l[2]
    BY <2>2, <2>4
  <2>5. CASE k[1] = l[1] /\ k[2] = l[2] /\ k[3] # l[3]
    BY <2>2, <2>5
  <2>6. CASE k[1] = l[1] /\ k[2] = l[2] /\ k[3] = l[3] /\ k[4] # l[4]
    BY <2>2, <2>6
  <2>7. CASE k[1] = l[1] /\ k[2] = l[2] /\ k[3] = l[3] /\ k[4] = l[4] /\ k[5] # l[5]
    BY <2>2, <2>7
  <2>8. CASE k[1] = l[1] /\ k[2] = l[2] /\ k[3] = l[3] /\ k[4] = l[4] /\ k[5] = l[5]
    BY <2>2, <2>8, <1>2
  <2>9. QED BY <2>3, <2>4, <2>5, <2>6, <2>7, <2>8
<1>3. ASSUME NEW m \in [1..6 -> Int], Before6(k, l), Before6(l, m) PROVE Before6(k, m)
  <2>1. PICK i \in 1..6 : k[i] < l[i] /\ \A j \in 1..(i - 1) : k[j] = l[j]
    BY <1>3 DEF Before6
  <2>2. PICK h \in 1..6 : l[h] < m[h] /\ \A j \in 1..(h - 1) : l[j] = m[j]
    BY <1>3 DEF Before6
  <2>3. \A j \in 1..6 : k[j] \in Int /\ l[j] \in Int /\ m[j] \in Int
    OBVIOUS
  <2>4. CASE i <= h
    <3>1. k[i] < m[i]
      <4>1. i = h \/ i \in 1..(h - 1)
        BY <2>4
      <4>2. QED BY <4>1, <2>1, <2>2, <2>3
    <3>2. \A j \in 1..(i - 1) : k[j] = m[j]
      BY <2>1, <2>2, <2>4
    <3>3. QED BY <3>1, <3>2 DEF Before6
  <2>5. CASE h < i
    <3>1. k[h] < m[h]
      <4>1. h \in 1..(i - 1)
        BY <2>5
      <4>2. QED BY <4>1, <2>1, <2>2, <2>3
    <3>2. \A j \in 1..(h - 1) : k[j] = m[j]
      BY <2>1, <2>2, <2>5
    <3>3. QED BY <3>1, <3>2 DEF Before6
  <2>6. QED BY <2>4, <2>5
<1>4. QED BY <1>1, <1>2, <1>3

LEMMA ScoreTyped == ASSUME NEW m \in Found PROVE WrapperScore(m) \in Int
<1>1. m.score \in Int /\ m.most \in Int /\ m.boost \in Int /\ Floor \in Nat \ {0} /\ UncoveredFloor \in Nat \ {0}
  BY DiscoveryAssumption
<1>2. \A i, j \in Int : Larger(i, j) \in Int /\ Larger(i, j) >= j
  BY DEF Larger
<1>3. ASSUME NEW n \in Int, NEW by \in Nat \ {0} PROVE Rounded(n, by) \in Int
  <2>1. n \div by \in Int
    OBVIOUS
  <2>2. QED BY <2>1 DEF Rounded
<1>4. ASSUME NEW score \in Int, NEW most \in Int, NEW floor \in Nat \ {0}
      PROVE  Normalized(score, most, floor) \in Int
  <2>1. Larger(most, floor) \in Nat \ {0}
    BY <1>2
  <2>2. (100 * (IF score < most THEN score ELSE most)) \in Int
    OBVIOUS
  <2>3. QED BY <1>3, <2>1, <2>2 DEF Normalized
<1> DEFINE a == Larger(m.score, m.most)
           f == IF m.covers THEN Floor ELSE UncoveredFloor
<1>5. a \in Int /\ f \in Nat \ {0}
  BY <1>1, <1>2
<1> HIDE DEF a, f
<1>6. Normalized(m.score, a, f) \in Int
  BY <1>1, <1>4, <1>5
<1>7. QED BY <1>1, <1>6 DEF WrapperScore, a, f

LEMMA KeyTyped ==
  ASSUME NEW p \in Source, matches[p] \in Found
  PROVE  Key(p) \in [1..6 -> Int] /\ Key(p)[6] = Alphabet[p]
<1> DEFINE m == matches[p]
           a == IF m.anchor THEN 0 ELSE 1
           b == IF m.off THEN 1 ELSE 0
           c == 0 - WrapperScore(m)
           d == IF m.resolved THEN 0 ELSE 1
           e == 0 - m.confidence
           f == Alphabet[p]
<1>1. Key(p) = <<a, b, c, d, e, f>>
  BY DEF Key
<1>2. a \in Int /\ b \in Int /\ d \in Int
  OBVIOUS
<1>3. c \in Int
  BY ScoreTyped
<1>4. e \in Int /\ f \in Int
  BY DiscoveryAssumption
<1> HIDE DEF a, b, c, d, e, f
<1>5. <<a, b, c, d, e, f>> \in [1..6 -> Int] /\ <<a, b, c, d, e, f>>[6] = f
  <2> DEFINE k == <<a, b, c, d, e, f>>
  <2>1. DOMAIN k = 1..6 /\ k = [i \in 1..6 |-> k[i]]
    OBVIOUS
  <2>2. k[1] = a /\ k[2] = b /\ k[3] = c /\ k[4] = d /\ k[5] = e /\ k[6] = f
    OBVIOUS
  <2> HIDE DEF k
  <2>3. \A i \in 1..6 : k[i] \in Int
    <3>1. \A i \in 1..6 : i = 1 \/ i = 2 \/ i = 3 \/ i = 4 \/ i = 5 \/ i = 6
      OBVIOUS
    <3>2. QED BY <3>1, <2>2, <1>2, <1>3, <1>4
  <2>4. k \in [1..6 -> Int]
    BY <2>1, <2>3
  <2>5. QED BY <2>2, <2>4 DEF k
<1>6. QED BY <1>1, <1>5 DEF f

(* The first of some matches is one of them and outranks the others, and   *)
(* nothing outranks both ways.                                             *)
LEMMA FirstLeads ==
  ASSUME NEW S \in SUBSET Matched, S # {}
  PROVE  /\ First(S) \in S /\ \A q \in S \ {First(S)} : Outranks(First(S), q)
         /\ \A p, q \in S : ~(Outranks(p, q) /\ Outranks(q, p))
<1> DEFINE R == {r \in S \X S : Outranks(r[1], r[2])}
<1>1. \A p \in S : p \in Source /\ matches[p] \in Found
  BY DEF Matched
<1>2. \A p \in S : Key(p) \in [1..6 -> Int] /\ Key(p)[6] = Alphabet[p]
  BY <1>1, KeyTyped
<1>3. IsFiniteSet(S)
  <2>1. S \in SUBSET Source /\ IsFiniteSet(Source)
    BY <1>1, DiscoveryAssumption
  <2>2. QED BY <2>1, FS_Subset, Zenon
<1>4. \A p, q \in S : <<p, q>> \in R <=> Outranks(p, q)
  OBVIOUS
<1>5. \A p, q \in S : p # q => Outranks(p, q) \/ Outranks(q, p)
  <2> SUFFICES ASSUME NEW p \in S, NEW q \in S, p # q PROVE Outranks(p, q) \/ Outranks(q, p)
    OBVIOUS
  <2>1. Key(p)[6] # Key(q)[6]
    BY <1>1, <1>2, DiscoveryAssumption
  <2>2. QED BY <2>1, <1>2, KeysOrdered DEF Outranks
<1>6. \A p, q \in S : ~(Outranks(p, q) /\ Outranks(q, p))
  BY <1>2, KeysOrdered DEF Outranks
<1>7. \A p, q, r \in S : Outranks(p, q) /\ Outranks(q, r) => Outranks(p, r)
  BY <1>2, KeysOrdered DEF Outranks
<1> HIDE DEF R
<1>8. \E p \in S : \A q \in S \ {p} : <<p, q>> \in R
  BY <1>3, <1>4, <1>5, <1>6, <1>7, FirstOfOrder
<1>9. \E p \in S : \A q \in S \ {p} : Outranks(p, q)
  BY <1>4, <1>8
<1>10. First(S) \in S /\ \A q \in S \ {First(S)} : Outranks(First(S), q)
  BY <1>9, Zenon DEF First
<1>11. QED BY <1>6, <1>10

(* What a search would rank ahead outranks.                                *)
LEMMA AheadOutranks ==
  ASSUME NEW p \in Source, matches[p] \in Found, NEW q \in Source, matches[q] \in Found, Ahead(p, q)
  PROVE  Outranks(p, q)
<1>1. PICK i \in 1..3 : RankOf(p)[i] < RankOf(q)[i] /\ \A j \in 1..(i - 1) : RankOf(p)[j] = RankOf(q)[j]
  BY DEF Ahead
<1>2. i \in 1..6 /\ \A j \in 1..(i - 1) : j \in 1..3
  OBVIOUS
<1>3. \A j \in 1..3 : RankOf(p)[j] = Key(p)[j] /\ RankOf(q)[j] = Key(q)[j]
  BY DEF RankOf
<1>4. QED BY <1>1, <1>2, <1>3 DEF Outranks, Before6

-----------------------------------------------------------------------------
(* What a resolve says.                                                    *)

ResolveAnswers == Found \cup {NoMatch, Failure}

ResolveMade ==
  /\ matches \in [Source -> ResolveAnswers \cup {Unasked}]
  /\ at \in {"begun", "scoped", "answered"} => outcome = NoOutcome
  /\ at = "answered" => \A p \in Included : matches[p] \in ResolveAnswers
  /\ ResolveHolds

LEMMA AnswersApart ==
  /\ NoMatch \notin Found /\ Failure \notin Found /\ NoMatch # Failure
<1>1. NoMatch.kind = "-" /\ Failure.kind = "failed"
  BY DEF NoMatch, Failure
<1>2. QED BY <1>1, DiscoveryAssumption

LEMMA NothingSaid == outcome = NoOutcome /\ at # "done" => ResolveHolds
BY DEF ResolveHolds, AnswerLeads, NothingResolvedLost, FailsForNobody, NoOutcome

LEMMA DiscoveryInitResolve == DiscoveryInit => ResolveMade
<1> SUFFICES ASSUME DiscoveryInit PROVE ResolveMade
  OBVIOUS
<1>1. matches = [p \in Source |-> Unasked] /\ outcome = NoOutcome /\ at = "begun"
  BY DEF DiscoveryInit
<1>2. QED BY <1>1, NothingSaid DEF ResolveMade

(* A resolve's failure is everybody's.                                     *)
LEMMA DecideFails ==
  ASSUME ResolveMade, Decide
  PROVE  FailsForNobody'
<1>1. /\ at = "answered" /\ at' = "done" /\ asked' = asked /\ left' = left /\ matches' = matches
      /\ outcome' = IF Answering = {} THEN NobodyAnswered
                    ELSE IF Contenders # {} /\ Accepted(First(Contenders)) THEN Answer(First(Contenders))
                    ELSE Unresolved
  BY DEF Decide
<1>2. \A p \in Included : matches[p] \in ResolveAnswers
  BY <1>1 DEF ResolveMade
<1>3. Answering = {} <=> \A p \in Included : matches[p] = Failure \/ (p \in ReportOnly /\ matches[p] = NoMatch)
  BY <1>2, AnswersApart DEF Answering, ResolveAnswers
<1>4. NobodyAnswered.error # "-" /\ (\A p : Answer(p).error = "-") /\ Unresolved.error = "-"
  <2>1. NobodyAnswered.error # "-"
    BY DEF NobodyAnswered, NoOutcome
  <2>2. \A p : Answer(p).error = "-"
    BY DEF Answer, NoOutcome
  <2>3. Unresolved.error = "-"
    <3> DEFINE b == First(Matched)
               r == UnresolvedReason(First(Matched))
               o == {p \in Matched \ {First(Matched)} : matches[p].resolved}
               t == InOrder({p \in Matched : matches[p].fallback})
    <3>1. Unresolved = IF Matched = {} THEN NoOutcome
                       ELSE [NoOutcome EXCEPT !.best = b, !.reason = r, !.others = o, !.searches = t]
      BY DEF Unresolved
    <3> HIDE DEF b, r, o, t
    <3>2. QED BY <3>1 DEF NoOutcome
  <2>4. QED BY <2>1, <2>2, <2>3
<1>5. outcome'.error # "-" <=> Answering = {}
  BY <1>1, <1>4
<1>6. Included' = Included
  BY <1>1 DEF Included
<1>7. QED BY <1>1, <1>3, <1>5, <1>6 DEF FailsForNobody

LEMMA DecideMade ==
  ASSUME ResolveMade, Decide
  PROVE  ResolveHolds'
<1>1. /\ at = "answered" /\ at' = "done" /\ asked' = asked /\ left' = left /\ matches' = matches
      /\ outcome' = IF Answering = {} THEN NobodyAnswered
                    ELSE IF Contenders # {} /\ Accepted(First(Contenders)) THEN Answer(First(Contenders))
                    ELSE Unresolved
  BY DEF Decide
<1>2. Matched' = Matched /\ \A p, q : Ahead(p, q)' = Ahead(p, q)
  BY <1>1 DEF Matched, Ahead, RankOf, Key
<1>3. FailsForNobody'
  BY DecideFails
<1>4. Contenders \in SUBSET Matched /\ \A p \in Matched : p \in Source /\ matches[p] \in Found
  BY DEF Contenders, Matched
<1>5. CASE Answering = {}
  <2>1. outcome' = NobodyAnswered
    BY <1>1, <1>5
  <2>2. outcome'.resolved = FALSE /\ outcome'.error # "-"
    BY <2>1 DEF NobodyAnswered, NoOutcome
  <2>3. QED BY <2>2, <1>3 DEF ResolveHolds, AnswerLeads, NothingResolvedLost
<1>6. CASE Answering # {} /\ Contenders # {} /\ Accepted(First(Contenders))
  <2> DEFINE f == First(Contenders)
  <2>1. f \in Contenders /\ (\A q \in Contenders \ {f} : Outranks(f, q)) /\ Accepted(f)
        /\ \A p, q \in Contenders : ~(Outranks(p, q) /\ Outranks(q, p))
    BY <1>4, <1>6, FirstLeads
  <2> HIDE DEF f
  <2>2. outcome' = Answer(f)
    BY <1>1, <1>6 DEF f
  <2>3. outcome'.resolved = TRUE /\ outcome'.by = f
    BY <2>2 DEF Answer, NoOutcome
  <2>4. matches[f].resolved
    BY <2>1 DEF Accepted
  <2>5. ASSUME NEW q \in Matched, Ahead(q, f) PROVE matches[q].confidence <= 1
    <3> SUFFICES ASSUME ~(matches[q].confidence <= 1) PROVE FALSE
      OBVIOUS
    <3>1. matches[q].confidence \in Int
      BY <1>4, DiscoveryAssumption
    <3>2. q \in Contenders
      BY <3>1 DEF Contenders
    <3>3. Outranks(q, f)
      BY <1>4, <2>1, <2>5, AheadOutranks
    <3>4. q # f => Outranks(f, q)
      BY <2>1, <3>2
    <3>5. QED BY <2>1, <3>2, <3>3, <3>4
  <2>6. AnswerLeads'
    BY <1>1, <1>2, <2>3, <2>4, <2>5 DEF AnswerLeads
  <2>7. QED BY <2>3, <2>6, <1>3 DEF ResolveHolds, NothingResolvedLost
<1>7. CASE Answering # {} /\ ~(Contenders # {} /\ Accepted(First(Contenders)))
  <2>1. outcome' = Unresolved
    BY <1>1, <1>7
  <2>2. CASE Matched = {}
    <3>1. outcome' = NoOutcome
      BY <2>1, <2>2 DEF Unresolved
    <3>2. outcome'.resolved = FALSE /\ outcome'.others = {} /\ outcome'.reason = "-"
      BY <3>1 DEF NoOutcome
    <3>3. QED BY <3>2, <2>2, <1>2, <1>3 DEF ResolveHolds, AnswerLeads, NothingResolvedLost
  <2>3. CASE Matched # {}
    <3> DEFINE b == First(Matched)
               r == UnresolvedReason(First(Matched))
               o == {p \in Matched \ {First(Matched)} : matches[p].resolved}
               t == InOrder({p \in Matched : matches[p].fallback})
    <3>1. outcome' = [NoOutcome EXCEPT !.best = b, !.reason = r, !.others = o, !.searches = t]
      BY <2>1, <2>3 DEF Unresolved
    <3>2. b \in Matched /\ (\A q \in Matched \ {b} : Outranks(b, q))
          /\ \A p, q \in Matched : ~(Outranks(p, q) /\ Outranks(q, p))
      BY <2>3, FirstLeads
    <3>3. r = UnresolvedReason(b) /\ o = {p \in Matched \ {b} : matches[p].resolved}
      OBVIOUS
    <3> HIDE DEF b, r, o, t
    <3>4. outcome'.resolved = FALSE /\ outcome'.best = b /\ outcome'.reason = r /\ outcome'.others = o
      BY <3>1 DEF NoOutcome
    <3>5. \A q \in Matched : ~Ahead(q, b)
      <4> SUFFICES ASSUME NEW q \in Matched, Ahead(q, b) PROVE FALSE
        OBVIOUS
      <4>1. Outranks(q, b)
        BY <1>4, <3>2, AheadOutranks
      <4>2. q # b => Outranks(b, q)
        BY <3>2
      <4>3. QED BY <3>2, <4>1, <4>2
    <3>6. ASSUME r = "provider_family_ranked_down_by_query_intent"
          PROVE  matches[b].fit < 0 /\ matches[b].confidence > 1
      <4>1. matches[b].resolved
        BY <3>3, <3>6 DEF UnresolvedReason
      <4>2. matches[b].confidence = 3 /\ matches[b].fit \in Int /\ b \in Contenders
        BY <4>1, <3>2, <1>4, DiscoveryAssumption DEF Contenders
      <4>3. First(Contenders) = b
        <5> DEFINE f == First(Contenders)
        <5>1. f \in Contenders /\ \A q \in Contenders \ {f} : Outranks(f, q)
          BY <4>2, <1>4, FirstLeads
        <5> HIDE DEF f
        <5>2. f # b => Outranks(f, b) /\ Outranks(b, f)
          BY <5>1, <4>2, <3>2, <1>4
        <5>3. QED BY <5>1, <5>2, <3>2, <1>4 DEF f
      <4>4. ~Accepted(b)
        BY <1>7, <4>2, <4>3
      <4>5. QED BY <4>1, <4>2, <4>4 DEF Accepted
    <3>7. NothingResolvedLost'
      BY <1>1, <1>2, <3>2, <3>3, <3>4, <3>5, <3>6 DEF NothingResolvedLost
    <3>8. QED BY <3>4, <3>7, <1>3 DEF ResolveHolds, AnswerLeads
  <2>4. QED BY <2>2, <2>3
<1>8. QED BY <1>5, <1>6, <1>7

LEMMA DiscoveryNextResolve == InGame /\ ResolveMade /\ [DiscoveryNext]_discovering => ResolveMade'
<1> SUFFICES ASSUME InGame, ResolveMade, [DiscoveryNext]_discovering PROVE ResolveMade'
  OBVIOUS
<1>0. (outcome = NoOutcome /\ at # "done" => ResolveHolds)'
  BY NothingSaid, PTL
<1>1. CASE Scope
  BY <1>0, <1>1 DEF Scope, ResolveMade
<1>2. CASE Ask
  <2>1. /\ at = "scoped" /\ at' = "answered" /\ outcome' = outcome /\ left' = left
        /\ \E answers \in {f \in [Included -> Found \cup {NoMatch, Failure}] : \A p \in Included : f[p] \in MayAnswer(p)} :
             matches' = [p \in Source |-> IF p \in Included THEN Scoped(p, answers[p]) ELSE Unasked]
    BY <1>2 DEF Ask
  <2>2. PICK answers \in [Included -> Found \cup {NoMatch, Failure}] :
             matches' = [p \in Source |-> IF p \in Included THEN Scoped(p, answers[p]) ELSE Unasked]
    BY <2>1
  <2>3. \A p \in Included : Scoped(p, answers[p]) \in ResolveAnswers
    BY <2>2 DEF Scoped, ResolveAnswers
  <2>4. Included' = Included /\ Included \subseteq Source
    BY <2>1 DEF Included
  <2>5. outcome' = NoOutcome
    BY <2>1 DEF ResolveMade
  <2>6. ResolveHolds'
    BY <2>1, <2>5, <1>0
  <2>7. QED BY <2>1, <2>2, <2>3, <2>4, <2>5, <2>6 DEF ResolveMade
<1>3. CASE Decide
  <2>1. ResolveHolds'
    BY <1>3, DecideMade
  <2>2. QED BY <1>3, <2>1 DEF Decide, ResolveMade
<1>4. CASE Proxy \/ ProxyAdvised \/ ProxyRefused \/ Composite
  <2>1. asked' = asked /\ at' = "done" /\ matches' = matches /\ asked.name # "resolve"
    BY <1>4 DEF Proxy, ProxyAdvised, ProxyRefused, Composite, Command, Says, Refused
  <2>2. \/ outcome' = NoOutcome
        \/ \E code : outcome' = [NoOutcome EXCEPT !.error = code]
        \/ outcome' = [NoOutcome EXCEPT !.advised = TRUE]
        \/ \E noted : outcome' = [NoOutcome EXCEPT !.noted = noted]
    BY <1>4, Zenon DEF Proxy, ProxyAdvised, ProxyRefused, Composite, Command, Says, Refused
  <2>3. outcome'.resolved = FALSE
    BY <2>2 DEF NoOutcome
  <2>4. QED BY <2>1, <2>3 DEF ResolveMade, ResolveHolds, AnswerLeads, NothingResolvedLost, FailsForNobody
<1>5. CASE UNCHANGED discovering
  <2>1. asked' = asked /\ left' = left /\ matches' = matches /\ outcome' = outcome /\ at' = at
    BY <1>5 DEF discovering
  <2>2. Included' = Included /\ Matched' = Matched /\ \A p, q : Ahead(p, q)' = Ahead(p, q)
    BY <2>1 DEF Included, Matched, Ahead, RankOf, Key
  <2>3. AnswerLeads'
    BY <2>1, <2>2 DEF ResolveMade, ResolveHolds, AnswerLeads
  <2>4. NothingResolvedLost'
    BY <2>1, <2>2 DEF ResolveMade, ResolveHolds, NothingResolvedLost
  <2>5. FailsForNobody'
    BY <2>1, <2>2 DEF ResolveMade, ResolveHolds, FailsForNobody
  <2>6. QED BY <2>1, <2>2, <2>3, <2>4, <2>5 DEF ResolveMade, ResolveHolds
<1>6. QED BY <1>1, <1>2, <1>3, <1>4, <1>5 DEF DiscoveryNext

(* For any providers and whatever they answer: a resolve answers with the   *)
(* best-ranked of the confident matches, loses no resolved one, and fails   *)
(* only when no provider could answer.                                      *)
THEOREM ResolveAlwaysHolds == DiscoverySpec => []ResolveHolds
<1>1. ResolveMade => ResolveHolds
  BY DEF ResolveMade
<1>2. QED BY <1>1, DiscoveryInitGame, DiscoveryNextGame, DiscoveryInitResolve, DiscoveryNextResolve, PTL DEF DiscoverySpec

-----------------------------------------------------------------------------
(* Cooldown packets.                                                        *)

(* The visits of a fight in time order: each but the first comes after      *)
(* another, and no two have as many before them.                            *)
LEMMA VisitsOrdered ==
  ASSUME NEW S \in SUBSET [at : Nat, id : Int], IsFiniteSet(S)
  PROVE  /\ \A v \in S : IsFiniteSet(Earlier(v, S)) /\ Cardinality(Earlier(v, S)) \in 0..(Cardinality(S) - 1)
         /\ \A v \in S : \A u \in Earlier(v, S) : u \in S /\ Cardinality(Earlier(u, S)) < Cardinality(Earlier(v, S))
         /\ \A u, v \in S : u = v \/ u \in Earlier(v, S) \/ v \in Earlier(u, S)
         /\ \A n \in 1..Cardinality(S) : \E v \in S : Cardinality(Earlier(v, S)) = n - 1
<1>0. PICK N : N = Cardinality(S)
  OBVIOUS
<1>1. N \in Nat
  BY <1>0, FS_CardinalityType
<1>2. ASSUME NEW v \in S
      PROVE  IsFiniteSet(Earlier(v, S)) /\ Cardinality(Earlier(v, S)) \in 0..(N - 1)
  <2>1. Earlier(v, S) \in SUBSET S /\ v \notin Earlier(v, S)
    BY DEF Earlier
  <2>2. IsFiniteSet(Earlier(v, S)) /\ Cardinality(Earlier(v, S)) <= N /\ (N = Cardinality(Earlier(v, S)) => S = Earlier(v, S))
    BY <2>1, <1>0, FS_Subset, Zenon
  <2>3. Cardinality(Earlier(v, S)) \in Nat
    BY <2>2, FS_CardinalityType
  <2>4. Cardinality(Earlier(v, S)) # N
    BY <2>1, <2>2
  <2>5. QED BY <2>2, <2>3, <2>4, <1>1
<1>3. ASSUME NEW v \in S, NEW u \in Earlier(v, S)
      PROVE  u \in S /\ Cardinality(Earlier(u, S)) < Cardinality(Earlier(v, S))
  <2>1. u \in S /\ u # v /\ (u.at < v.at \/ (u.at = v.at /\ u.id < v.id))
    BY DEF Earlier
  <2>2. u.at \in Nat /\ u.id \in Int /\ v.at \in Nat /\ v.id \in Int
    BY <2>1
  <2>3. ASSUME NEW w \in Earlier(u, S) PROVE w \in Earlier(v, S)
    <3>1. w \in S /\ (w.at < u.at \/ (w.at = u.at /\ w.id < u.id))
      BY DEF Earlier
    <3>2. w.at \in Nat /\ w.id \in Int
      BY <3>1
    <3>3. w.at < v.at \/ (w.at = v.at /\ w.id < v.id)
      BY <2>1, <2>2, <3>1, <3>2
    <3>4. w # v
      BY <2>2, <3>3
    <3>5. QED BY <3>1, <3>3, <3>4 DEF Earlier
  <2>4. u \notin Earlier(u, S)
    BY DEF Earlier
  <2>5. Earlier(u, S) \in SUBSET Earlier(v, S)
    BY <2>3
  <2>6. Cardinality(Earlier(u, S)) <= Cardinality(Earlier(v, S))
        /\ (Cardinality(Earlier(v, S)) = Cardinality(Earlier(u, S)) => Earlier(v, S) = Earlier(u, S))
    BY <2>5, <1>2, FS_Subset, Zenon
  <2>7. Cardinality(Earlier(u, S)) # Cardinality(Earlier(v, S))
    BY <2>4, <2>6
  <2>8. Cardinality(Earlier(u, S)) \in 0..(N - 1) /\ Cardinality(Earlier(v, S)) \in 0..(N - 1)
    BY <2>1, <1>2
  <2>9. Cardinality(Earlier(u, S)) < Cardinality(Earlier(v, S))
    BY <2>6, <2>7, <2>8, <1>1
  <2>10. QED BY <2>1, <2>9
<1>4. ASSUME NEW u \in S, NEW v \in S PROVE u = v \/ u \in Earlier(v, S) \/ v \in Earlier(u, S)
  <2>1. u.at \in Nat /\ u.id \in Int /\ v.at \in Nat /\ v.id \in Int
    OBVIOUS
  <2>2. u.at = v.at /\ u.id = v.id => u = v
    OBVIOUS
  <2>3. QED BY <2>1, <2>2 DEF Earlier
<1>5. ASSUME NEW n \in 1..N PROVE \E v \in S : Cardinality(Earlier(v, S)) = n - 1
  <2> DEFINE rank == [v \in S |-> Cardinality(Earlier(v, S))]
  <2>1. \A u, v \in S : u # v => rank[u] # rank[v]
    <3> SUFFICES ASSUME NEW u \in S, NEW v \in S, u # v PROVE Cardinality(Earlier(u, S)) # Cardinality(Earlier(v, S))
      OBVIOUS
    <3>1. Cardinality(Earlier(u, S)) \in 0..(N - 1) /\ Cardinality(Earlier(v, S)) \in 0..(N - 1)
      BY <1>2
    <3>2. CASE u \in Earlier(v, S)
      <4>1. Cardinality(Earlier(u, S)) < Cardinality(Earlier(v, S))
        BY <3>2, <1>3
      <4>2. QED BY <4>1, <3>1, <1>1
    <3>3. CASE v \in Earlier(u, S)
      <4>1. Cardinality(Earlier(v, S)) < Cardinality(Earlier(u, S))
        BY <3>3, <1>3
      <4>2. QED BY <4>1, <3>1, <1>1
    <3>4. QED BY <1>4, <3>2, <3>3
  <2>2. rank \in Injection(S, 0..(N - 1))
    <3>1. rank \in [S -> 0..(N - 1)]
      BY <1>2
    <3>2. QED BY <3>1, <2>1 DEF Injection, IsInjective
  <2>3. IsFiniteSet(0..(N-1)) /\ Cardinality(0..(N-1)) = N
    <3>1. N - 1 \in Int /\ 0 \in Int
      BY <1>1
    <3>2. /\ IsFiniteSet(0..(N-1))
          /\ Cardinality(0..(N-1)) = IF 0 > N - 1 THEN 0 ELSE (N - 1) - 0 + 1
      BY <3>1, FS_Interval, Zenon
    <3>3. QED BY <3>2, <1>1
  <2>4. rank \in Surjection(S, 0..(N - 1))
    <3> HIDE DEF rank
    <3>1. QED BY <2>2, <2>3, <1>0, FS_Injection, Zenon
  <2>5. n - 1 \in 0..(N - 1)
    BY <1>1
  <2>6. PICK v \in S : rank[v] = n - 1
    BY <2>4, <2>5 DEF Surjection
  <2>7. QED BY <2>6
<1>6. QED BY <1>0, <1>2, <1>3, <1>4, <1>5, Zenon

LEMMA NthGiven ==
  ASSUME NEW S \in SUBSET [at : Nat, id : Int], IsFiniteSet(S), NEW n \in 1..Cardinality(S)
  PROVE  Nth(n, S) \in S /\ Cardinality(Earlier(Nth(n, S), S)) = n - 1
<1>1. \E v \in S : Cardinality(Earlier(v, S)) = n - 1
  BY VisitsOrdered, Zenon
<1>2. QED BY <1>1 DEF Nth

(* What comes after the n-th visit does not come before the next one.       *)
LEMMA NothingBetween ==
  ASSUME NEW S \in SUBSET [at : Nat, id : Int], IsFiniteSet(S), NEW n \in 1..Cardinality(S),
         NEW v \in S, v.at > Nth(n, S).at
  PROVE  n < Cardinality(S) /\ Nth(n + 1, S) \in S /\ v.at >= Nth(n + 1, S).at
<1>1. PICK N, x : N = Cardinality(S) /\ x = Nth(n, S)
  OBVIOUS
<1>2. N \in Nat /\ n \in 1..N
  BY <1>1, FS_CardinalityType
<1>3. x \in S /\ Cardinality(Earlier(x, S)) = n - 1
  BY <1>1, NthGiven, Zenon
<1>4. x \in Earlier(v, S)
  <2>1. x.at \in Nat /\ v.at \in Nat /\ v.at > x.at
    BY <1>1, <1>3
  <2>2. x # v /\ x.at < v.at
    BY <2>1
  <2>3. QED BY <1>3, <2>2 DEF Earlier
<1>5. Cardinality(Earlier(x, S)) < Cardinality(Earlier(v, S)) /\ Cardinality(Earlier(v, S)) \in 0..(N - 1)
  BY <1>1, <1>3, <1>4, VisitsOrdered, Zenon
<1>6. n + 1 \in 1..N /\ n < N
  BY <1>2, <1>3, <1>5
<1>7. PICK y : y = Nth(n + 1, S)
  OBVIOUS
<1>8. y \in S /\ Cardinality(Earlier(y, S)) = (n + 1) - 1
  BY <1>1, <1>6, <1>7, NthGiven, Zenon
<1>9. v.at >= y.at
  <2>1. y.at \in Nat /\ v.at \in Nat
    BY <1>8
  <2>2. v \notin Earlier(y, S)
    <3> SUFFICES ASSUME v \in Earlier(y, S) PROVE FALSE
      OBVIOUS
    <3>1. Cardinality(Earlier(v, S)) < Cardinality(Earlier(y, S))
      BY <1>8, VisitsOrdered, Zenon
    <3>2. QED BY <3>1, <1>2, <1>3, <1>5, <1>8
  <2>3. y = v \/ y \in Earlier(v, S)
    BY <1>8, <2>2, VisitsOrdered, Zenon
  <2>4. CASE y = v
    BY <2>1, <2>4
  <2>5. CASE y \in Earlier(v, S)
    BY <2>1, <2>5 DEF Earlier
  <2>6. QED BY <2>3, <2>4, <2>5
<1>10. QED BY <1>1, <1>6, <1>7, <1>8, <1>9

(* What a comparison c may claim of the player and of others' fights.       *)
CountingOf(c) == {i \in DOMAIN c.samples : c.samples[i].place.window # None}

LikeSample(smp) ==
  LET f == smp.of
      w == smp.place.window
  IN  /\ \E v \in f.visits : v.at = w.from /\ v.id = Selected.id
                             /\ Cardinality(Earlier(v, f.visits)) = wanted.phase - 1
      /\ \A v \in f.visits : v.at > w.from => w.to # Open /\ v.at >= w.to

CountsOf(c, s) ==
  /\ s \notin known.received
  /\ c.frequency[s].samples <= c.counted
  /\ c.frequency[s].casts =
       Cardinality({x \in UNION {{i} \X c.samples[i].of.casts : i \in CountingOf(c)} :
                      x[2].spell = s /\ Within(x[2].at, c.samples[x[1]].place.window)})

Compares(c) ==
  /\ c.status = "ready" => known.complete
  /\ Cardinality(DOMAIN c.samples) <= wanted.limit
  /\ \A i \in DOMAIN c.samples : ~c.samples[i].of.analyzed
  /\ known.source = "warcraftlogs" => \A i \in CountingOf(c) : LikeSample(c.samples[i])
  /\ \A s \in DOMAIN c.frequency : CountsOf(c, s)

PlaceOf(f, read, several) == IF known.source = "warcraftlogs" THEN WclSample(f, read) ELSE LorrgsSample(f, several)
SamplesOf(r, read, several) == [i \in Picked(r) |-> Sampled(r[i], PlaceOf(r[i], read, several))]

SeveralIn(r) == Len(known.windows) > 1 \/ \E i \in DOMAIN r : Len(LorrgsWindows(r[i].markers, r[i].length)) > 1
TakenFrom(r, read) == SamplesOf(r, read, SeveralIn(r))

LEMMA WithParts ==
  ASSUME NEW r, NEW read, NEW c, c = WithTopParses(r, read)
  PROVE  /\ c.samples = TakenFrom(r, read) /\ c.frequency = Frequency(TakenFrom(r, read))
         /\ c.counted = Cardinality(CountingOf(c))
         /\ c.status = "ready" => known.complete
<1>1. PICK samples : samples = TakenFrom(r, read)
  OBVIOUS
<1>2. PICK counted : counted = Cardinality({i \in DOMAIN samples : samples[i].place.window # None})
  OBVIOUS
<1>3. PICK status : status = IF DOMAIN samples = {} THEN "no_samples" ELSE IF counted = 0 THEN "no_phase_data"
                             ELSE IF ~known.complete THEN "partial" ELSE "ready"
  OBVIOUS
<1>4. \E reason : c =
        [status |-> status, reason |-> reason, samples |-> samples, counted |-> counted,
         excluded |-> Excluded(r), frequency |-> Frequency(samples)]
  BY <1>1, <1>2, <1>3, Zenon DEF WithTopParses, SamplesOf, PlaceOf, SeveralIn, TakenFrom
<1>5. status = "ready" => known.complete
  BY <1>3
<1>6. c.status = status /\ c.samples = samples /\ c.counted = counted /\ c.frequency = Frequency(samples)
  BY <1>4
<1>7. QED BY <1>1, <1>2, <1>5, <1>6 DEF CountingOf

(* The samples picked are eligible, and no more than asked for.             *)
LEMMA PickedFew ==
  ASSUME wanted \in Wanted, NEW r \in Rankings
  PROVE  /\ IsFiniteSet(Picked(r)) /\ Cardinality(Picked(r)) <= wanted.limit
         /\ \A i \in Picked(r) : i \in DOMAIN r /\ Eligible(r[i])
<1> DEFINE E == {i \in DOMAIN r : Eligible(r[i])}
<1>1. PICK n : n = Len(r)
  OBVIOUS
<1>2. n \in Nat /\ DOMAIN r = 1..n /\ wanted.limit \in Nat
  BY <1>1, PacketAssumption
<1>3. E \in SUBSET Nat /\ IsFiniteSet(E)
  <2>1. IsFiniteSet(1..n) /\ E \in SUBSET (1..n)
    BY <1>2, FS_Interval
  <2>2. IsFiniteSet(E)
    BY <2>1, FS_Subset, Zenon
  <2>3. QED BY <2>1, <2>2, <1>2
<1>4. \A i \in E : {j \in 1..(i - 1) : Eligible(r[j])} = {j \in E : j < i}
  BY <1>2
<1>5. Picked(r) = FirstOf(wanted.limit, E)
  <2>1. \A i \in E : ~Enough(i, r) <=> Cardinality({j \in E : j < i}) < wanted.limit
    <3> SUFFICES ASSUME NEW i \in E PROVE ~Enough(i, r) <=> Cardinality({j \in E : j < i}) < wanted.limit
      OBVIOUS
    <3>1. PICK B : B = {j \in E : j < i}
      OBVIOUS
    <3>2. Enough(i, r) <=> Cardinality(B) >= wanted.limit
      BY <3>1, <1>4, Zenon DEF Enough
    <3>3. Cardinality(B) \in Nat
      <4>1. IsFiniteSet(B)
        BY <3>1, <1>3, FS_Subset
      <4>2. QED BY <4>1, FS_CardinalityType
    <3> HIDE DEF E
    <3>4. ~(Cardinality(B) >= wanted.limit) <=> Cardinality(B) < wanted.limit
      BY <3>3, <1>2
    <3>5. QED BY <3>1, <3>2, <3>4, Zenon
  <2>2. QED BY <2>1 DEF Picked, FirstOf
<1>6. /\ FirstOf(wanted.limit, E) \subseteq E /\ IsFiniteSet(FirstOf(wanted.limit, E))
      /\ Cardinality(FirstOf(wanted.limit, E)) = IF wanted.limit < Cardinality(E) THEN wanted.limit ELSE Cardinality(E)
  <2> HIDE DEF E
  <2>1. QED BY <1>2, <1>3, FirstOfCount, Zenon
<1>7. Cardinality(E) \in Nat
  BY <1>3, FS_CardinalityType
<1>8. Cardinality(FirstOf(wanted.limit, E)) <= wanted.limit
  <2> HIDE DEF E
  <2>1. QED BY <1>2, <1>6, <1>7
<1>9. QED BY <1>5, <1>6, <1>8

(* A sample's window is of the phase that was cut out of the player's own   *)
(* fight.                                                                   *)
LEMMA WclSampleLike ==
  ASSUME NEW f, IsFiniteSet(f.visits), f.visits \in SUBSET [at : Nat, id : Int], NEW read, NEW casts,
         NEW smp, smp.of = f, smp.place = WclSample(f, read), smp.place.window # None
  PROVE  LikeSample(smp)
<1>1. PICK windows : windows = WclWindows(f.visits, f.length)
  OBVIOUS
<1>2. wanted.phase \in DOMAIN windows /\ SamePhase(windows[wanted.phase]) /\ smp.place.window = windows[wanted.phase]
  BY <1>1 DEF WclSample, Window, NoWindow
<1>3. PICK n, S, N, w : n = wanted.phase /\ S = f.visits /\ N = Cardinality(S) /\ w = smp.place.window
  OBVIOUS
<1>4. N \in Nat /\ IsFiniteSet(S) /\ S \in SUBSET [at : Nat, id : Int]
  BY <1>3, FS_CardinalityType
<1>5. windows = [k \in 1..N |-> [from |-> Nth(k, S).at, to |-> IF k < N THEN Nth(k + 1, S).at ELSE f.length, id |-> Nth(k, S).id]]
  BY <1>1, <1>3 DEF WclWindows, Cut
<1>6. n \in 1..N /\ w = [from |-> Nth(n, S).at, to |-> IF n < N THEN Nth(n + 1, S).at ELSE f.length, id |-> Nth(n, S).id]
  BY <1>2, <1>3, <1>5
<1>7. w.from = Nth(n, S).at /\ w.to = (IF n < N THEN Nth(n + 1, S).at ELSE f.length) /\ w.id = Nth(n, S).id /\ w.id = Selected.id
  BY <1>2, <1>3, <1>6 DEF SamePhase
<1>8. Nth(n, S) \in S /\ Cardinality(Earlier(Nth(n, S), S)) = n - 1
  BY <1>3, <1>4, <1>6, NthGiven, Zenon
<1>9. ASSUME NEW v \in S, v.at > w.from PROVE w.to # Open /\ v.at >= w.to
  <2>1. n < N /\ Nth(n + 1, S) \in S /\ v.at >= Nth(n + 1, S).at
    <3>1. v.at > Nth(n, S).at
      BY <1>7, <1>9
    <3>2. QED BY <3>1, <1>3, <1>4, <1>6, NothingBetween, Zenon
  <2>2. w.to = Nth(n + 1, S).at
    BY <2>1, <1>7
  <2>3. Nth(n + 1, S).at \in Nat
    BY <2>1, <1>4
  <2>4. QED BY <2>1, <2>2, <2>3 DEF Open
<1>10. QED BY <1>3, <1>7, <1>8, <1>9 DEF LikeSample

LEMMA Compared ==
  ASSUME wanted \in Wanted, NEW r \in Rankings, NEW read, known.tracked \cap known.received = {},
         NEW c, c = WithTopParses(r, read)
  PROVE  Compares(c)
<1>1. PICK several : several = SeveralIn(r)
  OBVIOUS
<1>2. PICK smp : smp = SamplesOf(r, read, several)
  OBVIOUS
<1>3. c.samples = smp /\ c.frequency = Frequency(smp) /\ c.counted = Cardinality(CountingOf(c))
      /\ (c.status = "ready" => known.complete)
  BY <1>1, <1>2, WithParts, Zenon DEF TakenFrom
<1>4. /\ IsFiniteSet(Picked(r)) /\ Cardinality(Picked(r)) <= wanted.limit
      /\ \A i \in Picked(r) : i \in DOMAIN r /\ Eligible(r[i])
  BY PickedFew
<1>5. DOMAIN smp = Picked(r) /\ \A i \in Picked(r) : smp[i] = Sampled(r[i], PlaceOf(r[i], read, several))
  BY <1>2 DEF SamplesOf
<1>6. ASSUME NEW i \in Picked(r)
      PROVE  /\ smp[i].of = r[i] /\ smp[i].place = PlaceOf(r[i], read, several)
             /\ smp[i].casts = IF smp[i].place.window = None THEN {}
                               ELSE {k \in r[i].casts : k.spell \in known.tracked /\ Within(k.at, smp[i].place.window)}
  <2>1. PICK f, p : f = r[i] /\ p = PlaceOf(r[i], read, several)
    OBVIOUS
  <2>2. PICK theirs : theirs = IF p.window = None THEN {} ELSE {k \in f.casts : k.spell \in known.tracked /\ Within(k.at, p.window)}
    OBVIOUS
  <2>3. smp[i] = Sampled(f, p)
    BY <1>5, <2>1, Zenon
  <2>4. smp[i] = [place |-> p, of |-> f, casts |-> theirs]
    BY <2>2, <2>3, Zenon DEF Sampled
  <2>5. smp[i].of = f /\ smp[i].place = p /\ smp[i].casts = theirs
    BY <2>4
  <2>6. QED BY <2>1, <2>2, <2>5, Zenon
<1>7. \A i \in DOMAIN c.samples : ~c.samples[i].of.analyzed
  BY <1>3, <1>4, <1>5, <1>6 DEF Eligible
<1>8. ASSUME known.source = "warcraftlogs", NEW i \in CountingOf(c) PROVE LikeSample(c.samples[i])
  <2>1. i \in Picked(r) /\ i \in DOMAIN r /\ smp[i].place.window # None /\ c.samples[i] = smp[i]
    BY <1>3, <1>4, <1>5 DEF CountingOf
  <2>2. IsFiniteSet(r[i].visits) /\ r[i].visits \in SUBSET [at : Nat, id : Int]
    BY <2>1, PacketAssumption
  <2>3. smp[i].of = r[i] /\ smp[i].place = WclSample(r[i], read)
    BY <2>1, <1>6, <1>8 DEF PlaceOf
  <2>4. QED BY <2>1, <2>2, <2>3, WclSampleLike, Zenon
<1>9. ASSUME NEW s \in DOMAIN c.frequency PROVE CountsOf(c, s)
  <2>1. s \in known.tracked /\ CastsIn(smp, s) # {}
        /\ c.frequency[s].samples = Cardinality({i \in DOMAIN smp : \E k \in smp[i].casts : k.spell = s})
        /\ c.frequency[s].casts = Cardinality(CastsIn(smp, s))
    BY <1>3, <1>9 DEF Frequency
  <2>2. s \notin known.received
    BY <2>1
  <2>3. c.frequency[s].samples <= c.counted
    <3>1. PICK A, B : A = {i \in DOMAIN smp : \E k \in smp[i].casts : k.spell = s} /\ B = CountingOf(c)
      OBVIOUS
    <3>2. A \in SUBSET B
      BY <3>1, <1>3, <1>5, <1>6 DEF CountingOf
    <3>3. IsFiniteSet(B)
      <4>1. B \in SUBSET Picked(r)
        BY <3>1, <1>3, <1>5 DEF CountingOf
      <4>2. QED BY <4>1, <1>4, FS_Subset, Zenon
    <3>4. Cardinality(A) <= Cardinality(B)
      BY <3>2, <3>3, FS_Subset, Zenon
    <3>5. QED BY <3>1, <3>4, <2>1, <1>3
  <2>4. CastsIn(smp, s) = {x \in UNION {{i} \X c.samples[i].of.casts : i \in CountingOf(c)} :
                             x[2].spell = s /\ Within(x[2].at, c.samples[x[1]].place.window)}
    <3> DEFINE theirs == {x \in UNION {{i} \X c.samples[i].of.casts : i \in CountingOf(c)} :
                             x[2].spell = s /\ Within(x[2].at, c.samples[x[1]].place.window)}
    <3>1. ASSUME NEW x \in CastsIn(smp, s) PROVE x \in theirs
      <4>1. PICK i \in DOMAIN smp : x \in {i} \X smp[i].casts
        BY DEF CastsIn
      <4>2. x[2].spell = s
        BY DEF CastsIn
      <4>3. x = <<x[1], x[2]>> /\ x[1] = i /\ x[2] \in smp[i].casts
        BY <4>1
      <4>4. i \in Picked(r) /\ smp[i].place.window # None /\ x[2] \in r[i].casts /\ Within(x[2].at, smp[i].place.window)
        BY <4>3, <1>5, <1>6
      <4>5. i \in CountingOf(c) /\ c.samples[i].of = r[i] /\ c.samples[x[1]].place.window = smp[i].place.window
        BY <4>3, <4>4, <1>3, <1>5, <1>6 DEF CountingOf
      <4>6. x \in {i} \X c.samples[i].of.casts
        BY <4>3, <4>4, <4>5
      <4>7. QED BY <4>2, <4>4, <4>5, <4>6
    <3>2. ASSUME NEW x \in theirs PROVE x \in CastsIn(smp, s)
      <4>1. PICK i \in CountingOf(c) : x \in {i} \X c.samples[i].of.casts
        OBVIOUS
      <4>2. x[2].spell = s /\ Within(x[2].at, c.samples[x[1]].place.window)
        OBVIOUS
      <4>3. x = <<x[1], x[2]>> /\ x[1] = i /\ x[2] \in c.samples[i].of.casts
        BY <4>1
      <4>4. i \in DOMAIN smp /\ i \in Picked(r) /\ smp[i].place.window # None /\ c.samples[i] = smp[i] /\ smp[i].of = r[i]
        BY <1>3, <1>5, <1>6 DEF CountingOf
      <4>5. x[2] \in smp[i].casts
        <5>1. PICK k, w : k = x[2] /\ w = smp[i].place.window
          OBVIOUS
        <5>2. k \in r[i].casts /\ k.spell \in known.tracked
          BY <5>1, <4>2, <4>3, <4>4, <2>1, <1>6
        <5>3. Within(k.at, w) /\ w # None
          BY <5>1, <4>2, <4>3, <4>4
        <5>4. smp[i].casts = {q \in r[i].casts : q.spell \in known.tracked /\ Within(q.at, w)}
          BY <5>1, <5>3, <4>4, <1>6
        <5>5. k \in smp[i].casts
          BY <5>2, <5>3, <5>4
        <5>6. QED BY <5>1, <5>5
      <4>6. x \in {i} \X smp[i].casts
        BY <4>3, <4>5
      <4>7. QED BY <4>2, <4>4, <4>6 DEF CastsIn
    <3> HIDE DEF theirs
    <3>3. CastsIn(smp, s) = theirs
      BY <3>1, <3>2
    <3>4. QED BY <3>3 DEF theirs
  <2>5. QED BY <2>1, <2>2, <2>3, <2>4, Zenon DEF CountsOf
<1>10. Cardinality(DOMAIN c.samples) <= wanted.limit
  BY <1>3, <1>4, <1>5
<1>11. QED BY <1>3, <1>7, <1>8, <1>9, <1>10 DEF Compares

LEMMA NothingCompared ==
  ASSUME wanted \in Wanted, NEW why
  PROVE  Compares([NoComparison EXCEPT !.reason = why])
<1>1. PICK c : c = [NoComparison EXCEPT !.reason = why]
  OBVIOUS
<1>2. c.status = "unavailable" /\ c.samples = <<>> /\ c.frequency = <<>>
  BY <1>1 DEF NoComparison
<1>3. DOMAIN c.samples = {} /\ DOMAIN c.frequency = {} /\ CountingOf(c) = {}
  BY <1>2 DEF CountingOf
<1>4. Cardinality(DOMAIN c.samples) = 0 /\ wanted.limit \in Nat
  BY <1>3, FS_EmptySet, PacketAssumption
<1>5. QED BY <1>1, <1>2, <1>3, <1>4 DEF Compares

(* The player is one of the fight's, and the one that was asked for; his    *)
(* spec is of his class.                                                    *)
PlayerKnown ==
  /\ known.player \in (IF Unlisted THEN UNION Rosters ELSE known.lorrgs.players)
  /\ wanted.by = "id" => known.player.id = wanted.actor
  /\ wanted.by = "name" => known.player.name = wanted.actor
SpecKnown == known.spec \in DOMAIN ClassOf /\ known.player.class # None => ClassOf[known.spec] = known.player.class

CastsKnown ==
  /\ known.tracked \cap known.received = {}
  /\ known.complete => /\ \A e \in truth : Cast(e) /\ e.spell \in known.tracked => e \in known.casts
                       /\ \A e \in truth : Cast(e) => e.spell \notin known.received

PacketSteps ==
  /\ stage = "player" => ~Unlisted
  /\ stage \in {"roster", "bosses"} => Unlisted
  /\ stage = "bosses" => PlayerKnown
  /\ (stage \in {"phase", "spells", "events", "ranking", "sample phases", "told"} \/ (stage = "fight" /\ ~Unlisted)) =>
       PlayerKnown /\ SpecKnown
  /\ stage \in {"ranking", "sample phases", "told"} => CastsKnown
  /\ stage = "sample phases" => known.ranking \in Rankings
  /\ stage = "told" => Compares(known.comparison)

KnownFields ==
  {"code", "lorrgs", "fight", "player", "spec", "boss", "windows", "source", "catalog", "tracked", "received",
   "casts", "complete", "ranking", "comparison"}

PacketMade == wanted \in Wanted /\ DOMAIN known = KnownFields /\ PacketSteps

LEMMA PacketFails ==
  ASSUME PacketMade, NEW code, Fail(code), wanted' = wanted
  PROVE  PacketMade'
<1>1. stage' = "failed" /\ DOMAIN known' = DOMAIN known
  BY DEF Fail
<1>2. PacketSteps'
  BY <1>1 DEF PacketSteps
<1>3. QED BY <1>1, <1>2 DEF PacketMade

(* What is known and goes on being known.                                   *)
LEMMA StillKnown ==
  ASSUME wanted' = wanted, known'.player = known.player, known'.spec = known.spec, known'.lorrgs = known.lorrgs
  PROVE  /\ Unlisted' <=> Unlisted
         /\ PlayerKnown => PlayerKnown'
         /\ SpecKnown => SpecKnown'
<1>1. Unlisted' <=> Unlisted
  BY DEF Unlisted
<1>2. PlayerKnown => PlayerKnown'
  BY <1>1 DEF PlayerKnown
<1>3. SpecKnown => SpecKnown'
  BY DEF SpecKnown
<1>4. QED BY <1>1, <1>2, <1>3

LEMMA PacketResolves ==
  ASSUME PacketMade, wanted' = wanted, Resolve
  PROVE  PacketMade'
<1>1. ASSUME NEW code, Fail(code) PROVE PacketMade'
  BY <1>1, PacketFails
<1>2. CASE Go("lorrgs", known)
  <2>1. stage' = "lorrgs" /\ known' = known
    BY <1>2 DEF Go
  <2>2. PacketSteps'
    BY <2>1 DEF PacketSteps
  <2>3. QED BY <2>1, <2>2 DEF PacketMade
<1>3. QED BY <1>1, <1>2 DEF Resolve

LEMMA PacketAsksLorrgs ==
  ASSUME PacketMade, wanted' = wanted, AskLorrgs
  PROVE  PacketMade'
<1>1. PICK reply \in LorrgsFights :
        Go(IF reply.why = "-" THEN "player" ELSE "fight", [known EXCEPT !.lorrgs = reply])
  BY DEF AskLorrgs
<1>2. stage' = (IF reply.why = "-" THEN "player" ELSE "fight") /\ known' = [known EXCEPT !.lorrgs = reply]
  BY <1>1 DEF Go
<1>3. DOMAIN known' = KnownFields /\ known'.lorrgs = reply
  BY <1>2 DEF PacketMade, KnownFields
<1>4. Unlisted' <=> reply.why # "-"
  BY <1>3 DEF Unlisted
<1>5. PacketSteps'
  BY <1>2, <1>4 DEF PacketSteps
<1>6. QED BY <1>3, <1>5 DEF PacketMade

LEMMA PacketAsksFight ==
  ASSUME PacketMade, wanted' = wanted, AskFight
  PROVE  PacketMade'
<1>1. PICK fight \in WclFights :
       IF fight.why # "-" THEN Fail(fight.why)
       ELSE Go(IF Unlisted THEN "roster" ELSE "events", [known EXCEPT !.fight = fight])
  BY DEF AskFight
<1>2. CASE fight.why # "-"
  BY <1>1, <1>2, PacketFails
<1>3. CASE fight.why = "-"
  <2>1. stage' = (IF Unlisted THEN "roster" ELSE "events") /\ known' = [known EXCEPT !.fight = fight]
    BY <1>1, <1>3 DEF Go
  <2>2. DOMAIN known' = KnownFields /\ known'.lorrgs = known.lorrgs /\ known'.player = known.player /\ known'.spec = known.spec
    BY <2>1 DEF PacketMade, KnownFields
  <2>3. stage = "fight"
    BY DEF AskFight
  <2>4. ~Unlisted => PlayerKnown /\ SpecKnown
    BY <2>3 DEF PacketMade, PacketSteps
  <2>5. (Unlisted' <=> Unlisted) /\ (~Unlisted => PlayerKnown' /\ SpecKnown')
    BY <2>2, <2>4, StillKnown
  <2>6. PacketSteps'
    BY <2>1, <2>5 DEF PacketSteps
  <2>7. QED BY <2>2, <2>6 DEF PacketMade
<1>4. QED BY <1>2, <1>3

(* The rows meant are those of the player asked for.                        *)
LEMMA RowsMeant ==
  ASSUME NEW rows, NEW r \in Meant(rows)
  PROVE  r \in rows /\ (wanted.by = "id" => r.id = wanted.actor) /\ (wanted.by = "name" => r.name = wanted.actor)
BY DEF Meant

LEMMA PacketSettles ==
  ASSUME wanted \in Wanted, wanted' = wanted, NEW now, DOMAIN now = KnownFields, Settle(now), PacketMade,
         now.player \in (IF now.lorrgs.why # "-" THEN UNION Rosters ELSE now.lorrgs.players),
         wanted.by = "id" => now.player.id = wanted.actor,
         wanted.by = "name" => now.player.name = wanted.actor
  PROVE  PacketMade'
<1>1. PICK spec : spec = SpecOf(now.spec, now.player.class)
  OBVIOUS
<1>2. IF spec \in DOMAIN ClassOf /\ now.player.class \notin {None, ClassOf[spec]} THEN Fail("invalid_query")
      ELSE Go("phase", [now EXCEPT !.spec = spec])
  BY <1>1, Zenon DEF Settle
<1>3. CASE spec \in DOMAIN ClassOf /\ now.player.class \notin {None, ClassOf[spec]}
  BY <1>2, <1>3, PacketFails
<1>4. CASE ~(spec \in DOMAIN ClassOf /\ now.player.class \notin {None, ClassOf[spec]})
  <2>1. stage' = "phase" /\ known' = [now EXCEPT !.spec = spec]
    BY <1>2, <1>4 DEF Go
  <2>2. DOMAIN known' = KnownFields /\ known'.lorrgs = now.lorrgs /\ known'.player = now.player /\ known'.spec = spec
    BY <2>1 DEF KnownFields
  <2>3. PlayerKnown'
    BY <2>2 DEF PlayerKnown, Unlisted
  <2>4. SpecKnown'
    BY <1>4, <2>2 DEF SpecKnown
  <2>5. PacketSteps'
    BY <2>1, <2>3, <2>4 DEF PacketSteps
  <2>6. QED BY <2>2, <2>5 DEF PacketMade
<1>5. QED BY <1>3, <1>4

LEMMA PacketFindsPlayer ==
  ASSUME PacketMade, wanted' = wanted, PlayerOfLorrgs
  PROVE  PacketMade'
<1>1. PICK rows : rows = known.lorrgs.players
  OBVIOUS
<1>2. stage = "player" /\ ~Unlisted /\ wanted \in Wanted /\ DOMAIN known = KnownFields
  BY DEF PlayerOfLorrgs, PacketMade, PacketSteps
<1>3. CASE WhyNobody(rows) # "-"
  BY <1>1, <1>3, PacketFails DEF PlayerOfLorrgs
<1>4. CASE WhyNobody(rows) = "-"
  <2>1. PICK r \in Meant(rows) :
          IF r.id = None THEN Fail("actor_id_missing")
          ELSE IF Given(wanted.spec, r.spec) = None THEN Fail("spec_slug_missing")
          ELSE Settle([known EXCEPT !.player = r, !.spec = Given(wanted.spec, r.spec),
                                    !.boss = Given(wanted.boss, known.lorrgs.boss)])
    BY <1>1, <1>4, Zenon DEF PlayerOfLorrgs
  <2>2. ASSUME NEW code, Fail(code) PROVE PacketMade'
    BY <2>2, PacketFails
  <2>3. ASSUME NEW spec, NEW boss, Settle([known EXCEPT !.player = r, !.spec = spec, !.boss = boss])
        PROVE  PacketMade'
    <3>1. PICK now : now = [known EXCEPT !.player = r, !.spec = spec, !.boss = boss]
      OBVIOUS
    <3>2. DOMAIN now = KnownFields /\ now.player = r /\ now.lorrgs = known.lorrgs
      BY <3>1, <1>2 DEF KnownFields
    <3>3. r \in rows /\ (wanted.by = "id" => r.id = wanted.actor) /\ (wanted.by = "name" => r.name = wanted.actor)
      BY RowsMeant, Zenon
    <3>4. now.player \in (IF now.lorrgs.why # "-" THEN UNION Rosters ELSE now.lorrgs.players)
      BY <3>2, <3>3, <1>1, <1>2 DEF Unlisted
    <3>5. Settle(now)
      BY <2>3, <3>1, Zenon
    <3>6. QED BY <3>2, <3>3, <3>4, <3>5, <1>2, PacketSettles
  <2>4. QED BY <2>1, <2>2, <2>3, Zenon
<1>5. QED BY <1>3, <1>4

LEMMA PacketReadsRoster ==
  ASSUME PacketMade, wanted' = wanted, PlayerOfWcl
  PROVE  PacketMade'
<1>1. ASSUME NEW code, Fail(code) PROVE PacketMade'
  BY <1>1, PacketFails
<1>2. ASSUME NEW rows \in Rosters, NEW r \in Meant(rows), NEW spec, Go("bosses", [known EXCEPT !.player = r, !.spec = spec])
      PROVE  PacketMade'
  <2>1. stage' = "bosses" /\ known' = [known EXCEPT !.player = r, !.spec = spec]
    BY <1>2 DEF Go
  <2>2. DOMAIN known' = KnownFields /\ known'.lorrgs = known.lorrgs /\ known'.player = r
    BY <2>1 DEF PacketMade, KnownFields
  <2>3. Unlisted
    BY DEF PlayerOfWcl, PacketMade, PacketSteps
  <2>4. Unlisted'
    BY <2>2, <2>3 DEF Unlisted
  <2>5. r \in rows /\ (wanted.by = "id" => r.id = wanted.actor) /\ (wanted.by = "name" => r.name = wanted.actor)
    BY RowsMeant, Zenon
  <2>6. PlayerKnown'
    BY <2>2, <2>4, <2>5 DEF PlayerKnown
  <2>7. PacketSteps'
    BY <2>1, <2>4, <2>6 DEF PacketSteps
  <2>8. QED BY <2>2, <2>7 DEF PacketMade
<1>3. CASE Fail("warcraftlogs_roster_failed")
  BY <1>1, <1>3
<1>4. ASSUME NEW rows \in Rosters,
             IF WhyNobody(rows) # "-" THEN Fail(WhyNobody(rows))
             ELSE \E r \in Meant(rows) :
                    IF Given(wanted.spec, r.spec) = None THEN Fail("spec_slug_missing")
                    ELSE Go("bosses", [known EXCEPT !.player = r, !.spec = Given(wanted.spec, r.spec)])
      PROVE  PacketMade'
  BY <1>1, <1>2, <1>4, Zenon
<1>5. QED BY <1>3, <1>4, Zenon DEF PlayerOfWcl

LEMMA PacketAsksBosses ==
  ASSUME PacketMade, wanted' = wanted, AskBosses
  PROVE  PacketMade'
<1>1. PICK boss : Settle([known EXCEPT !.boss = boss])
  BY Zenon DEF AskBosses
<1>2. PICK now : now = [known EXCEPT !.boss = boss]
  OBVIOUS
<1>3. wanted \in Wanted /\ DOMAIN known = KnownFields /\ PlayerKnown
  BY DEF AskBosses, PacketMade, PacketSteps
<1>4. DOMAIN now = KnownFields /\ now.player = known.player /\ now.lorrgs = known.lorrgs
  BY <1>2, <1>3 DEF KnownFields
<1>5. /\ now.player \in (IF now.lorrgs.why # "-" THEN UNION Rosters ELSE now.lorrgs.players)
      /\ wanted.by = "id" => now.player.id = wanted.actor
      /\ wanted.by = "name" => now.player.name = wanted.actor
  BY <1>3, <1>4 DEF PlayerKnown, Unlisted
<1>6. Settle(now)
  BY <1>1, <1>2, Zenon
<1>7. QED BY <1>3, <1>4, <1>5, <1>6, PacketSettles

(* Steps past the player, that leave him, his spec and what Lorrgs said    *)
(* alone.                                                                   *)
LEMMA PacketGoesOn ==
  ASSUME PacketMade, wanted' = wanted, DOMAIN known' = KnownFields, PlayerKnown, SpecKnown,
         known'.player = known.player, known'.spec = known.spec, known'.lorrgs = known.lorrgs,
         stage' \in {"spells", "fight", "events"}
  PROVE  PacketMade'
<1>1. PlayerKnown' /\ SpecKnown'
  BY StillKnown
<1>2. PacketSteps'
  BY <1>1 DEF PacketSteps
<1>3. QED BY <1>2 DEF PacketMade

LEMMA PacketSelects ==
  ASSUME PacketMade, wanted' = wanted, SelectPhase
  PROVE  PacketMade'
<1>1. DOMAIN known = KnownFields /\ PlayerKnown /\ SpecKnown
  BY DEF SelectPhase, PacketMade, PacketSteps
<1>2. CASE Go("spells", known)
  <2>1. stage' = "spells" /\ known' = known
    BY <1>2 DEF Go
  <2>2. QED BY <2>1, <1>1, PacketGoesOn
<1>3. ASSUME NEW windows, NEW source, InPhase(windows, source) PROVE PacketMade'
  <2>1. CASE wanted.phase \notin DOMAIN windows
    BY <1>3, <2>1, PacketFails DEF InPhase
  <2>2. CASE wanted.phase \in DOMAIN windows
    <3>1. stage' = "spells" /\ known' = [known EXCEPT !.windows = windows, !.source = source]
      BY <1>3, <2>2 DEF InPhase, Go
    <3>2. /\ DOMAIN known' = KnownFields
          /\ known'.player = known.player /\ known'.spec = known.spec /\ known'.lorrgs = known.lorrgs
      BY <3>1, <1>1 DEF KnownFields
    <3>3. QED BY <3>1, <3>2, <1>1, PacketGoesOn
  <2>3. QED BY <2>1, <2>2
<1>4. QED BY <1>2, <1>3, Zenon DEF SelectPhase

LEMMA PacketLoadsSpells ==
  ASSUME PacketMade, wanted' = wanted, LoadSpells
  PROVE  PacketMade'
<1>1. DOMAIN known = KnownFields /\ PlayerKnown /\ SpecKnown
  BY DEF LoadSpells, PacketMade, PacketSteps
<1>2. ASSUME NEW code, Fail(code) PROVE PacketMade'
  BY <1>2, PacketFails
<1>3. ASSUME NEW listed, NEW tracked,
             Go(IF known.fight = None THEN "fight" ELSE "events", [known EXCEPT !.catalog = listed, !.tracked = tracked])
      PROVE  PacketMade'
  <2>1. stage' \in {"fight", "events"} /\ known' = [known EXCEPT !.catalog = listed, !.tracked = tracked]
    BY <1>3 DEF Go
  <2>2. /\ DOMAIN known' = KnownFields
        /\ known'.player = known.player /\ known'.spec = known.spec /\ known'.lorrgs = known.lorrgs
    BY <2>1, <1>1 DEF KnownFields
  <2>3. QED BY <2>1, <2>2, <1>1, PacketGoesOn
<1>4. QED BY <1>2, <1>3, Zenon DEF LoadSpells

LEMMA PacketLoadsCasts ==
  ASSUME PacketMade, wanted' = wanted, LoadCasts
  PROVE  PacketMade'
<1>1. DOMAIN known = KnownFields /\ PlayerKnown /\ SpecKnown
  BY DEF LoadCasts, PacketMade, PacketSteps
<1>2. CASE Fail("warcraftlogs_events_failed")
  BY <1>2, PacketFails
<1>3. ASSUME ~Fail("warcraftlogs_events_failed") PROVE PacketMade'
  <2>1. PICK reply \in CastPages :
          LET tracked == known.tracked \ Received(reply.page)
          IN  /\ known' = [known EXCEPT !.received = Received(reply.page), !.tracked = tracked,
                                        !.casts = {e \in reply.page : Cast(e) /\ e.spell \in tracked},
                                        !.complete = ~reply.more /\ ~reply.warned]
              /\ truth' = reply.all
              /\ stage' = "ranking"
    BY <1>3, Zenon DEF LoadCasts
  <2>2. PICK received : received = Received(reply.page)
    OBVIOUS
  <2>3. PICK tracked : tracked = known.tracked \ received
    OBVIOUS
  <2>4. PICK casts : casts = {e \in reply.page : Cast(e) /\ e.spell \in tracked}
    OBVIOUS
  <2>5. PICK complete : complete = (~reply.more /\ ~reply.warned)
    OBVIOUS
  <2>6. /\ known' = [known EXCEPT !.received = received, !.tracked = tracked, !.casts = casts, !.complete = complete]
        /\ truth' = reply.all /\ stage' = "ranking"
    BY <2>1, <2>2, <2>3, <2>4, <2>5, Zenon
  <2>7. /\ DOMAIN known' = KnownFields
        /\ known'.player = known.player /\ known'.spec = known.spec /\ known'.lorrgs = known.lorrgs
        /\ known'.received = received /\ known'.tracked = tracked /\ known'.casts = casts
        /\ known'.complete = complete
    BY <1>1, <2>6 DEF KnownFields
  <2>8. PlayerKnown' /\ SpecKnown'
    BY <1>1, <2>7, StillKnown
  <2>9. \A e : Cast(e)' <=> Cast(e)
    BY <2>7 DEF Cast
  <2>10. known'.tracked \cap known'.received = {}
    BY <2>3, <2>7
  <2>11. complete => reply.page = reply.all
    BY <2>5, PacketAssumption
  <2>12. ASSUME complete, NEW e \in reply.all, Cast(e)
        PROVE  (e.spell \in tracked => e \in casts) /\ e.spell \notin received
    <3>1. e \in reply.page
      BY <2>11, <2>12
    <3>2. e.spell \notin received
      BY <2>2, <2>12, <3>1 DEF Received
    <3>3. QED BY <2>4, <2>12, <3>1, <3>2
  <2>13. CastsKnown'
    BY <2>6, <2>7, <2>9, <2>10, <2>12 DEF CastsKnown
  <2>14. PacketSteps'
    BY <2>6, <2>8, <2>13 DEF PacketSteps
  <2>15. QED BY <2>7, <2>14 DEF PacketMade
<1>4. QED BY <1>2, <1>3

LEMMA StillCompares ==
  ASSUME wanted' = wanted, known'.windows = known.windows, known'.source = known.source,
         known'.received = known.received, known'.complete = known.complete, NEW c, Compares(c)
  PROVE  Compares(c)'
<1>1. Selected' = Selected
  BY DEF Selected
<1>2. \A smp : LikeSample(smp) => LikeSample(smp)'
  BY <1>1 DEF LikeSample
<1>3. \A s : CountsOf(c, s) => CountsOf(c, s)'
  BY DEF CountsOf, CountingOf
<1>4. CountingOf(c)' = CountingOf(c)
  BY DEF CountingOf
<1>5. c.status = "ready" => known'.complete
  BY DEF Compares
<1>6. QED BY <1>2, <1>3, <1>4, <1>5, Zenon DEF Compares

(* A comparison that holds goes on holding in the packet.                   *)
LEMMA PacketEmits ==
  ASSUME PacketMade, wanted' = wanted, PlayerKnown, SpecKnown, CastsKnown, NEW c, Compares(c), EmitPacket(c)
  PROVE  PacketMade'
<1>1. stage' = "told" /\ known' = [known EXCEPT !.comparison = c, !.ranking = NoCopy] /\ truth' = truth
  BY DEF EmitPacket, Go
<1>2. /\ DOMAIN known' = KnownFields /\ known'.comparison = c
      /\ known'.player = known.player /\ known'.spec = known.spec /\ known'.lorrgs = known.lorrgs
      /\ known'.received = known.received /\ known'.tracked = known.tracked /\ known'.casts = known.casts
      /\ known'.complete = known.complete /\ known'.windows = known.windows /\ known'.source = known.source
  BY <1>1 DEF PacketMade, KnownFields
<1>3. PlayerKnown' /\ SpecKnown'
  BY <1>2, StillKnown
<1>4. \A e : Cast(e)' <=> Cast(e)
  BY <1>2 DEF Cast
<1>5. CastsKnown'
  BY <1>1, <1>2, <1>4 DEF CastsKnown
<1>6. Compares(c)'
  BY <1>2, StillCompares
<1>7. Compares(known.comparison)'
  BY <1>2, <1>6
<1>8. PacketSteps'
  BY <1>1, <1>3, <1>5, <1>7 DEF PacketSteps
<1>9. QED BY <1>2, <1>8 DEF PacketMade

LEMMA PacketRanks ==
  ASSUME PacketMade, wanted' = wanted, AskRanking
  PROVE  PacketMade'
<1>1. DOMAIN known = KnownFields /\ PlayerKnown /\ SpecKnown /\ CastsKnown /\ wanted \in Wanted
  BY DEF AskRanking, PacketMade, PacketSteps
<1>2. ASSUME NEW why, EmitPacket([NoComparison EXCEPT !.reason = why]) PROVE PacketMade'
  BY <1>1, <1>2, NothingCompared, PacketEmits, Zenon
<1>3. ASSUME NEW ranking \in Rankings, Go("sample phases", [known EXCEPT !.ranking = ranking]) PROVE PacketMade'
  <2>1. stage' = "sample phases" /\ known' = [known EXCEPT !.ranking = ranking] /\ truth' = truth
    BY <1>3 DEF Go
  <2>2. /\ DOMAIN known' = KnownFields /\ known'.ranking = ranking
        /\ known'.player = known.player /\ known'.spec = known.spec /\ known'.lorrgs = known.lorrgs
        /\ known'.received = known.received /\ known'.tracked = known.tracked /\ known'.casts = known.casts
        /\ known'.complete = known.complete
    BY <1>1, <2>1 DEF KnownFields
  <2>3. PlayerKnown' /\ SpecKnown'
    BY <1>1, <2>2, StillKnown
  <2>4. \A e : Cast(e)' <=> Cast(e)
    BY <2>2 DEF Cast
  <2>5. CastsKnown'
    BY <1>1, <2>1, <2>2, <2>4 DEF CastsKnown
  <2>6. PacketSteps'
    BY <1>3, <2>1, <2>2, <2>3, <2>5 DEF PacketSteps
  <2>7. QED BY <2>2, <2>6, <1>1 DEF PacketMade
<1>4. ASSUME NEW ranking \in Rankings, EmitPacket(WithTopParses(ranking, FALSE)) PROVE PacketMade'
  <2>1. PICK c : c = WithTopParses(ranking, FALSE)
    OBVIOUS
  <2>2. known.tracked \cap known.received = {}
    BY <1>1 DEF CastsKnown
  <2>3. Compares(c)
    BY <1>1, <2>1, <2>2, Compared, Zenon
  <2>4. EmitPacket(c)
    BY <1>4, <2>1, Zenon
  <2>5. QED BY <1>1, <2>3, <2>4, PacketEmits, Zenon
<1>5. QED BY <1>2, <1>3, <1>4, Zenon DEF AskRanking

LEMMA PacketAsksSamples ==
  ASSUME PacketMade, wanted' = wanted, AskSamplePhases
  PROVE  PacketMade'
<1>1. /\ DOMAIN known = KnownFields /\ PlayerKnown /\ SpecKnown /\ CastsKnown /\ wanted \in Wanted
      /\ known.ranking \in Rankings
  BY DEF AskSamplePhases, PacketMade, PacketSteps
<1>2. PICK read : EmitPacket(WithTopParses(known.ranking, read))
  BY Zenon DEF AskSamplePhases
<1>3. PICK c : c = WithTopParses(known.ranking, read)
  OBVIOUS
<1>4. PICK r \in Rankings : r = known.ranking
  BY <1>1
<1>5. known.tracked \cap known.received = {}
  BY <1>1 DEF CastsKnown
<1>6. Compares(c)
  BY <1>1, <1>3, <1>4, <1>5, Compared, Zenon
<1>7. EmitPacket(c)
  BY <1>2, <1>3, Zenon
<1>8. QED BY <1>1, <1>6, <1>7, PacketEmits, Zenon

THEOREM PacketAlwaysMade == PacketSpec => []PacketMade
<1>1. PacketInit => PacketMade
  <2> SUFFICES ASSUME PacketInit PROVE PacketMade
    OBVIOUS
  <2>1. stage = "reference" /\ wanted \in Wanted /\ DOMAIN known = KnownFields
    BY DEF PacketInit, NothingKnown, KnownFields
  <2>2. PacketSteps
    BY <2>1 DEF PacketSteps
  <2>3. QED BY <2>1, <2>2 DEF PacketMade
<1>2. PacketMade /\ [PacketNext]_packing => PacketMade'
  <2> SUFFICES ASSUME PacketMade, [PacketNext]_packing PROVE PacketMade'
    OBVIOUS
  <2>1. CASE PacketNext
    <3>1. wanted' = wanted
      BY <2>1 DEF PacketNext
    <3>2. QED BY <2>1, <3>1, PacketResolves, PacketAsksLorrgs, PacketFindsPlayer, PacketAsksFight, PacketReadsRoster,
                 PacketAsksBosses, PacketSelects, PacketLoadsSpells, PacketLoadsCasts, PacketRanks, PacketAsksSamples,
                 Zenon DEF PacketNext
  <2>2. CASE UNCHANGED packing
    <3>1. wanted' = wanted /\ known' = known /\ truth' = truth /\ stage' = stage
      BY <2>2 DEF packing
    <3>2. (PlayerKnown => PlayerKnown') /\ (SpecKnown => SpecKnown') /\ (Unlisted' <=> Unlisted)
      BY <3>1, StillKnown
    <3>3. \A e : Cast(e)' <=> Cast(e)
      BY <3>1 DEF Cast
    <3>4. CastsKnown => CastsKnown'
      BY <3>1, <3>3 DEF CastsKnown
    <3>5. Compares(known.comparison) => Compares(known.comparison)'
      <4>1. PICK c : c = known.comparison
        OBVIOUS
      <4>2. Compares(c) => Compares(c)'
        BY <3>1, StillCompares
      <4>3. QED BY <4>1, <4>2, <3>1
    <3>6. PacketSteps'
      BY <3>1, <3>2, <3>4, <3>5 DEF PacketMade, PacketSteps
    <3>7. QED BY <3>1, <3>6 DEF PacketMade
  <2>3. QED BY <2>1, <2>2
<1>3. QED BY <1>1, <1>2, PTL DEF PacketSpec

(* What a packet compares is whole, of like with like, and of the player    *)
(* who was asked for, whatever the two services answer.                    *)
THEOREM PacketAlwaysHolds == PacketSpec => []PacketHolds
<1>1. PacketMade => PacketHolds
  <2> SUFFICES ASSUME PacketMade, Told PROVE PacketHolds
    BY DEF PacketHolds, HisCastsAreWhole, LikeWithLike, ThePlayerAskedFor
  <2>1. PlayerKnown /\ SpecKnown /\ CastsKnown /\ Compares(known.comparison)
    BY DEF Told, PacketMade, PacketSteps
  <2>2. HisCastsAreWhole
    BY <2>1 DEF HisCastsAreWhole, CastsKnown, Compares
  <2>3. Counting = CountingOf(known.comparison)
    BY DEF Counting, CountingOf
  <2>4. LikeWithLike
    BY <2>1, <2>3, Zenon DEF LikeWithLike, Compares, CountsOf, LikeSample
  <2>5. ThePlayerAskedFor
    BY <2>1, Zenon DEF ThePlayerAskedFor, PlayerKnown, SpecKnown
  <2>6. QED BY <2>2, <2>4, <2>5 DEF PacketHolds
<1>2. QED BY <1>1, PacketAlwaysMade, PTL

-----------------------------------------------------------------------------
(* Guide comparisons.                                                      *)

(* A finite set of numbers has a least and a greatest.                     *)
LEMMA LeastAndGreatest ==
  ASSUME NEW S \in SUBSET Nat, IsFiniteSet(S), S # {}
  PROVE  (\E i \in S : \A j \in S : i <= j) /\ (\E i \in S : \A j \in S : j <= i)
<1>1. \E i \in S : \A j \in S : i <= j
  <2>1. PICK R : R = {p \in Nat \X Nat : p[1] < p[2]}
    OBVIOUS
  <2>2. \A p, q \in S : <<p, q>> \in R <=> p < q
    BY <2>1
  <2>3. /\ \A p, q \in S : p # q => <<p, q>> \in R \/ <<q, p>> \in R
        /\ \A p, q \in S : ~(<<p, q>> \in R /\ <<q, p>> \in R)
        /\ \A p, q, r \in S : <<p, q>> \in R /\ <<q, r>> \in R => <<p, r>> \in R
    BY <2>2
  <2>4. PICK p \in S : \A q \in S \ {p} : <<p, q>> \in R
    BY <2>3, FirstOfOrder, Zenon
  <2>5. ASSUME NEW j \in S PROVE p <= j
    <3>1. p \in Nat /\ j \in Nat /\ (j = p \/ p < j)
      BY <2>2, <2>4
    <3>2. QED BY <3>1
  <2>6. QED BY <2>5
<1>2. \E i \in S : \A j \in S : j <= i
  <2>1. PICK R : R = {p \in Nat \X Nat : p[1] > p[2]}
    OBVIOUS
  <2>2. \A p, q \in S : <<p, q>> \in R <=> p > q
    BY <2>1
  <2>3. /\ \A p, q \in S : p # q => <<p, q>> \in R \/ <<q, p>> \in R
        /\ \A p, q \in S : ~(<<p, q>> \in R /\ <<q, p>> \in R)
        /\ \A p, q, r \in S : <<p, q>> \in R /\ <<q, r>> \in R => <<p, r>> \in R
    BY <2>2
  <2>4. PICK p \in S : \A q \in S \ {p} : <<p, q>> \in R
    BY <2>3, FirstOfOrder, Zenon
  <2>5. ASSUME NEW j \in S PROVE j <= p
    <3>1. p \in Nat /\ j \in Nat /\ (j = p \/ p > j)
      BY <2>2, <2>4
    <3>2. QED BY <3>1
  <2>6. QED BY <2>5
<1>3. QED BY <1>1, <1>2

(* R orders S; of S, those that fewer than n come before.                  *)
InLine(S, R) ==
  /\ \A p, q \in S : p # q => <<p, q>> \in R \/ <<q, p>> \in R
  /\ \A p, q \in S : ~(<<p, q>> \in R /\ <<q, p>> \in R)
  /\ \A p, q, r \in S : <<p, q>> \in R /\ <<q, r>> \in R => <<p, r>> \in R
Foremost(S, R, n) == {p \in S : Cardinality({q \in S : <<q, p>> \in R}) < n}

(* Of a finite set in a strict order, those that fewer than n come before  *)
(* are n, or all.                                                          *)
LEMMA FirstInOrder ==
  ASSUME NEW S, IsFiniteSet(S), NEW R, InLine(S, R), NEW n \in Nat
  PROVE  Cardinality(Foremost(S, R, n)) = IF n < Cardinality(S) THEN n ELSE Cardinality(S)
<1> DEFINE InFront(p) == {q \in S : <<q, p>> \in R}
           rank == [p \in S |-> Cardinality(InFront(p))]
<1> USE DEF InLine
<1>00. PICK T : T = Foremost(S, R, n)
  OBVIOUS
<1>0. PICK N : N = Cardinality(S)
  OBVIOUS
<1>1. N \in Nat
  BY <1>0, FS_CardinalityType
<1>2. ASSUME NEW p \in S
      PROVE  IsFiniteSet(InFront(p)) /\ Cardinality(InFront(p)) \in 0..(N - 1)
  <2>1. InFront(p) \in SUBSET S /\ p \notin InFront(p)
    OBVIOUS
  <2>2. IsFiniteSet(InFront(p)) /\ Cardinality(InFront(p)) <= N /\ (N = Cardinality(InFront(p)) => S = InFront(p))
    BY <2>1, <1>0, FS_Subset, Zenon
  <2>3. Cardinality(InFront(p)) \in Nat
    BY <2>2, FS_CardinalityType
  <2>4. Cardinality(InFront(p)) # N
    BY <2>1, <2>2
  <2>5. QED BY <2>2, <2>3, <2>4, <1>1
<1>3. ASSUME NEW p \in S, NEW q \in S, <<q, p>> \in R
      PROVE  Cardinality(InFront(q)) < Cardinality(InFront(p))
  <2>1. InFront(q) \in SUBSET InFront(p) /\ q \in InFront(p) /\ q \notin InFront(q)
    BY <1>3
  <2>2. Cardinality(InFront(q)) <= Cardinality(InFront(p))
        /\ (Cardinality(InFront(p)) = Cardinality(InFront(q)) => InFront(p) = InFront(q))
    <3> HIDE DEF InFront
    <3>1. QED BY <2>1, <1>2, FS_Subset, Zenon
  <2>3. Cardinality(InFront(p)) \in 0..(N - 1) /\ Cardinality(InFront(q)) \in 0..(N - 1)
    BY <1>2
  <2>4. Cardinality(InFront(p)) # Cardinality(InFront(q))
    BY <2>1, <2>2
  <2> HIDE DEF InFront
  <2>5. QED BY <2>2, <2>3, <2>4, <1>1
<1>4. rank \in [S -> 0..(N - 1)]
  BY <1>2
<1>5. \A p, q \in S : p # q => rank[p] # rank[q]
  <2> SUFFICES ASSUME NEW p \in S, NEW q \in S, p # q PROVE rank[p] # rank[q]
    OBVIOUS
  <2>1. rank[p] \in 0..(N - 1) /\ rank[q] \in 0..(N - 1) /\ rank[p] = Cardinality(InFront(p)) /\ rank[q] = Cardinality(InFront(q))
    BY <1>4
  <2> HIDE DEF rank, InFront
  <2>2. rank[p] < rank[q] \/ rank[q] < rank[p]
    <3>1. <<p, q>> \in R \/ <<q, p>> \in R
      OBVIOUS
    <3>2. CASE <<p, q>> \in R
      BY <3>2, <2>1, <1>3
    <3>3. CASE <<q, p>> \in R
      BY <3>3, <2>1, <1>3
    <3>4. QED BY <3>1, <3>2, <3>3
  <2>3. QED BY <2>1, <2>2, <1>1
<1>6. IsFiniteSet(0..(N-1)) /\ Cardinality(0..(N-1)) = N
  <2>1. N - 1 \in Int /\ 0 \in Int
    BY <1>1
  <2>2. /\ IsFiniteSet(0..(N-1))
        /\ Cardinality(0..(N-1)) = IF 0 > N - 1 THEN 0 ELSE (N - 1) - 0 + 1
    BY <2>1, FS_Interval, Zenon
  <2>3. QED BY <2>2, <1>1
<1>7. rank \in Surjection(S, 0..(N - 1))
  <2> HIDE DEF rank
  <2>1. rank \in Injection(S, 0..(N - 1))
    BY <1>4, <1>5 DEF Injection, IsInjective
  <2>2. QED BY <2>1, <1>6, <1>0, FS_Injection, Zenon
<1>8. PICK m : m = IF n < N THEN n ELSE N
  OBVIOUS
<1>9. m \in Nat /\ m <= N
  BY <1>1, <1>8
<1>10. T = {p \in S : rank[p] < n}
  BY <1>00 DEF Foremost
<1> HIDE DEF rank
<1>11. T = {p \in S : rank[p] \in 0..(m - 1)}
  BY <1>1, <1>4, <1>8, <1>9, <1>10
<1>12. PICK f : f = [p \in T |-> rank[p]]
  OBVIOUS
<1>13. f \in Bijection(T, 0..(m - 1))
  <2>1. f \in [T -> 0..(m - 1)]
    BY <1>11, <1>12
  <2>2. \A p, q \in T : f[p] = f[q] => p = q
    BY <1>5, <1>11, <1>12
  <2>3. ASSUME NEW k \in 0..(m - 1) PROVE \E p \in T : f[p] = k
    <3>1. k \in 0..(N - 1)
      BY <1>1, <1>9
    <3>2. PICK p \in S : rank[p] = k
      BY <1>7, <3>1 DEF Surjection
    <3>3. p \in T
      BY <1>11, <3>2
    <3>4. QED BY <1>12, <3>2, <3>3
  <2>4. QED BY <2>1, <2>2, <2>3 DEF Bijection, Injection, IsInjective, Surjection
<1>14. IsFiniteSet(0..(m-1)) /\ Cardinality(0..(m-1)) = m
  <2>1. m - 1 \in Int /\ 0 \in Int
    BY <1>9
  <2>2. /\ IsFiniteSet(0..(m-1))
        /\ Cardinality(0..(m-1)) = IF 0 > m - 1 THEN 0 ELSE (m - 1) - 0 + 1
    BY <2>1, FS_Interval, Zenon
  <2>3. QED BY <2>2, <1>9
<1>15. IsFiniteSet(T)
  <2>1. T \in SUBSET S
    BY <1>11
  <2>2. QED BY <2>1, FS_Subset, Zenon
<1>16. Cardinality(T) = Cardinality(0..(m - 1))
  <2>1. ExistsBijection(T, 0..(m - 1))
    BY <1>13 DEF ExistsBijection
  <2>2. QED BY <2>1, <1>14, <1>15, FS_Bijection, Zenon
<1>17. QED BY <1>00, <1>0, <1>8, <1>14, <1>16

(* The shapes of bundles, rows and inputs.                                 *)
Bundles == [provider : DOMAIN Guides, guide : DOMAIN Contents, at : 0..LastHour]
BundleRows == [provider : DOMAIN Guides, status : {"exported", "reused"}, guide : DOMAIN Contents, folder : Folder,
         at : 0..LastHour, identity : Bundles \cup {Nothing}, seen : 0..LastHour]
Whys == {"not decisive", "provider_failed", "guide_export_failed", "invalid_exported_bundle"}
Declines == [provider : DOMAIN Guides, why : Whys, failure : Outages \cup {Nothing, InvalidBundle}]
Inputs == [folder : Folder, bundle : Bundles]

(* The rows that name bundles: of the root, and in the commands' hands.    *)
RowsIn(r) == {r.index[i] : i \in DOMAIN r.index} \cup {r.taken[i] : i \in DOMAIN r.taken}
RootRows == IF manifest = Nothing THEN {} ELSE {manifest[i] : i \in DOMAIN manifest}
AllRows == RootRows \cup UNION {RowsIn(runs[c]) : c \in Running}

(* What a row names is there, and what the row says it is.                 *)
NamesWell(row) ==
  /\ folders[row.folder] # Nothing
  /\ row.identity # Nothing => row.at = row.identity.at
  /\ row.folder \notin meddled =>
       Readable(row.folder) /\ SameBundle(folders[row.folder], row) /\ row.at = folders[row.folder].at

(* A command that is writing a bundle.                                     *)
Writes(r) == r.at \in {"exporting", "loading"}

(* A directory that is being written to is its writer's alone.             *)
WriterMade(c) ==
  Writes(runs[c]) =>
    /\ folders[runs[c].folder] # Nothing
    /\ runs[c].at = "loading" /\ runs[c].folder \notin meddled =>
         Readable(runs[c].folder) /\ folders[runs[c].folder].provider = AtHand(c)
    /\ \A row \in AllRows : row.folder # runs[c].folder
    /\ \A e \in Running \ {c} : Writes(runs[e]) => runs[e].folder # runs[c].folder

(* The root and the folders.                                               *)
DiskMade ==
  /\ hour \in 0..LastHour
  /\ folders \in [Folder -> Bundles \cup {Nothing, Torn}]
  /\ manifest # Nothing => manifest \in Seq(BundleRows) /\ Len(manifest) >= 2
  /\ DOMAIN runs = Running

(* What a command holds, at each of its steps.                             *)
RunFields == {"at", "order", "index", "left", "taken", "declined", "inputs", "guide", "folder", "payload"}

RunTyped(c, r) ==
  /\ DOMAIN r = RunFields
  /\ r.index \in Seq(BundleRows) /\ r.taken \in Seq(BundleRows) /\ r.declined \in Seq(Declines) /\ r.inputs \in Seq(Inputs)
  /\ r.at \notin {"idle", "killed"} => r.order \in Orders[c]
  /\ r.at \in {"resolving", "found", "exporting", "loading"} =>
       r.left # {} /\ r.left \subseteq {i \in DOMAIN r.order.providers : r.order.providers[i] \in Serving}
  /\ r.at \in {"found", "exporting", "loading"} => r.guide \in DOMAIN Contents
  /\ Writes(r) => r.folder \in Folder
  /\ r.at \in {"resolving", "found", "exporting", "loading", "finishing"} => Len(r.taken) = Len(r.inputs)
  /\ r.at = "reading" => Len(r.inputs) < Len(r.index)
  /\ r.at \notin {"told", "handing"} => r.payload = Nothing

(* A bundle taken from an earlier comparison.                              *)
ReusedWell(r, row) ==
  row.status = "reused" =>
    /\ ~r.order.force /\ row.at = row.identity.at /\ row.seen - row.at <= MaxAge
    /\ row.identity.provider = row.provider
    /\ \E j \in DOMAIN r.index : r.index[j].provider = row.provider /\ r.index[j].guide = row.guide

(* Why it told what it told.                                               *)
FailuresIn(r) == {r.declined[i].failure : i \in DOMAIN r.declined}
ServedAll(r) == \A i \in DOMAIN r.order.providers : r.order.providers[i] \in Serving
BlamesWell(r) ==
  r.at = "told" /\ r.declined # <<>> =>
    (r.payload.code = "insufficient_guides") = (Nothing \in FailuresIn(r) \/ ~ServedAll(r))

(* The account of the builds, when they are handed over and when it is told. *)
Accounted(r) ==
  /\ Cardinality(r.payload.handed) + Cardinality(r.payload.excluded) + r.payload.truncated = Cardinality(Urls(r.inputs))
  /\ r.payload.truncated > 0 => Cardinality(r.payload.handed \cup r.payload.excluded) = r.order.limit
  /\ \A u \in r.payload.handed : ~Reference[u].forever
(* What simc is said to have made of the builds.                           *)
SimcTold(r) ==
  LET p == r.payload
      legs == Legs(r.order)
  IN  /\ (p.status = "ok") = (p.handed # {} /\ \A u \in p.handed, l \in legs : p.ok[u][l])
      /\ (p.code = "simc_handoff_failed") = (p.handed # {} /\ \A u \in p.handed, l \in legs : ~p.ok[u][l])
      /\ p.status = "partial" => \A l \in legs : \E u \in p.handed : p.ok[u][l]

(* A command: what it took, whom it blames, what it tells.                 *)
RunMade(c, r) ==
  /\ RunTyped(c, r)
  /\ \A i \in DOMAIN r.taken : ReusedWell(r, r.taken[i])
  /\ \A i \in DOMAIN r.declined : r.declined[i].failure \in Outages \cup {Nothing} \/ meddled # {}
  /\ r.payload # Nothing /\ r.payload.code = "invalid_bundle" => meddled # {}
  /\ BlamesWell(r)
  /\ r.at = "handing" => Accounted(r) /\ r.payload.status = "-" /\ r.payload.code = "-"
  /\ r.payload # Nothing /\ r.payload.status # "-" => Accounted(r) /\ SimcTold(r)

(* The inductive invariant of GuidesSpec.                                  *)
GuidesMade ==
  /\ DiskMade
  /\ \A row \in AllRows : NamesWell(row)
  /\ \A c \in Running : WriterMade(c) /\ RunMade(c, runs[c])

(* What a command is told stays true of it while others run.               *)
LEMMA RunStays ==
  ASSUME NEW e, NEW s, s = runs'[e], RunMade(e, s), meddled # {} => meddled' # {}
  PROVE  RunMade(e, runs[e])'
<1>1. /\ RunTyped(e, runs[e])'
      /\ (\A i \in DOMAIN runs[e].taken : ReusedWell(runs[e], runs[e].taken[i]))'
  BY DEF RunMade, RunTyped, ReusedWell, Writes
<1>2. BlamesWell(runs[e])'
  BY DEF RunMade, BlamesWell, FailuresIn, ServedAll
<1>3. (runs[e].at = "handing" => Accounted(runs[e]) /\ runs[e].payload.status = "-" /\ runs[e].payload.code = "-")'
  BY DEF RunMade, Accounted
<1>4. (runs[e].payload # Nothing /\ runs[e].payload.status # "-" => Accounted(runs[e]) /\ SimcTold(runs[e]))'
  BY DEF RunMade, Accounted, SimcTold
<1>5. QED BY <1>1, <1>2, <1>3, <1>4 DEF RunMade

(* What is known of the root, the folders, the rows and each command.      *)
LEMMA StateOfGuides ==
  ASSUME GuidesMade
  PROVE  /\ DiskMade
         /\ \A row \in AllRows : NamesWell(row)
         /\ \A c \in Running : WriterMade(c) /\ RunMade(c, runs[c]) /\ RunTyped(c, runs[c])
BY DEF GuidesMade, RunMade

(* The rows in a command's hands are typed.                                *)
LEMMA RowsTyped ==
  ASSUME GuidesMade, NEW row \in AllRows
  PROVE  row \in BundleRows
<1>1. CASE row \in RootRows
  BY <1>1, StateOfGuides DEF RootRows, DiskMade
<1>2. CASE \E e \in Running : row \in RowsIn(runs[e])
  <2>1. PICK e \in Running : row \in RowsIn(runs[e])
    BY <1>2
  <2>2. runs[e].index \in Seq(BundleRows) /\ runs[e].taken \in Seq(BundleRows)
    BY StateOfGuides DEF RunTyped
  <2>3. QED BY <2>1, <2>2 DEF RowsIn
<1>3. QED BY <1>1, <1>2 DEF AllRows

(* A command that comes to r without writing, and without a row that is not *)
(* as it should be.                                                        *)
LEMMA OneRun ==
  ASSUME GuidesMade, NEW c \in Running, NEW r, Becomes(c, r), Quietly, UNCHANGED folders,
         manifest' = manifest \/ (manifest' = runs[c].taken /\ Len(runs[c].taken) >= 2),
         ~Writes(r), RunMade(c, r),
         \A row \in RowsIn(r) :
           \/ row \in AllRows
           \/ NamesWell(row) /\ \A e \in Running \ {c} : Writes(runs[e]) => row.folder # runs[e].folder
  PROVE  GuidesMade'
<1>1. DiskMade /\ RunTyped(c, runs[c])
  BY StateOfGuides
<1>2. DOMAIN runs' = Running /\ runs'[c] = r /\ \A e \in Running \ {c} : runs'[e] = runs[e]
  BY <1>1 DEF Becomes, DiskMade
<1>3. DiskMade'
  BY <1>1, <1>2 DEF DiskMade, Quietly, RunTyped
<1>4. RootRows' \subseteq AllRows
  <2>1. CASE manifest' = manifest
    BY <2>1 DEF RootRows, AllRows
  <2>2. CASE manifest' = runs[c].taken
    <3>1. RootRows' \subseteq RowsIn(runs[c])
      BY <2>2 DEF RootRows, RowsIn
    <3>2. QED BY <3>1 DEF AllRows
  <2>3. QED BY <2>1, <2>2
<1>5. AllRows' \subseteq AllRows \cup RowsIn(r)
  <2>1. \A e \in Running : RowsIn(runs'[e]) \subseteq AllRows \cup RowsIn(r)
    BY <1>2 DEF AllRows
  <2>2. AllRows' = RootRows' \cup UNION {RowsIn(runs'[e]) : e \in Running}
    BY DEF AllRows, RowsIn
  <2>3. QED BY <1>4, <2>1, <2>2
<1>6. \A row : NamesWell(row)' = NamesWell(row)
  BY DEF NamesWell, Readable, SameBundle, Quietly
<1>7. \A row \in AllRows' : NamesWell(row)'
  BY <1>5, <1>6, StateOfGuides
<1>9. ASSUME NEW e \in Running PROVE RunMade(e, runs[e])'
  <2>1. PICK s : s = runs'[e] /\ RunMade(e, s)
    BY <1>2, StateOfGuides
  <2>2. QED BY <2>1, RunStays DEF Quietly
<1>10. ASSUME NEW e \in Running PROVE WriterMade(e)'
  <2>1. CASE e = c
    BY <2>1, <1>2 DEF WriterMade, Writes
  <2>2. CASE e # c
    <3>1. runs'[e] = runs[e] /\ AtHand(e)' = AtHand(e) /\ WriterMade(e)
      BY <2>2, <1>2, StateOfGuides DEF AtHand, Turn
    <3>2. CASE ~Writes(runs[e])
      BY <3>1, <3>2 DEF WriterMade, Writes
    <3>3. CASE Writes(runs[e])
      <4>1. \A row \in AllRows' : row.folder # runs[e].folder
        BY <2>2, <3>1, <3>3, <1>5 DEF WriterMade
      <4>2. \A f \in Running \ {e} : Writes(runs'[f]) => runs'[f].folder # runs[e].folder
        BY <1>2, <2>2, <3>1, <3>3 DEF WriterMade
      <4>3. /\ folders'[runs[e].folder] # Nothing
            /\ runs[e].at = "loading" /\ runs[e].folder \notin meddled' =>
                 Readable(runs[e].folder)' /\ folders'[runs[e].folder].provider = AtHand(e)
        BY <3>1, <3>3 DEF WriterMade, Readable, Quietly
      <4>4. QED BY <3>1, <4>1, <4>2, <4>3 DEF WriterMade, Writes
    <3>4. QED BY <3>2, <3>3
  <2>3. QED BY <2>1, <2>2
<1>11. QED BY <1>3, <1>7, <1>9, <1>10 DEF GuidesMade

(* A command that writes into a directory that nobody names.               *)
LEMMA OneWrite ==
  ASSUME GuideAssumption, GuidesMade, NEW c \in Running, NEW r, Becomes(c, r), Quietly, UNCHANGED manifest,
         NEW d \in Folder, NEW b \in Bundles \cup {Torn}, folders' = [folders EXCEPT ![d] = b],
         r.folder = d, r.left = runs[c].left, r.order = runs[c].order, RowsIn(r) = RowsIn(runs[c]),
         r.at = "exporting" \/ (r.at = "loading" /\ b \in Bundles /\ b.provider = AtHand(c)), RunMade(c, r),
         \A row \in AllRows : row.folder # d,
         \A e \in Running \ {c} : Writes(runs[e]) => runs[e].folder # d
  PROVE  GuidesMade'
<1>1. DiskMade
  BY StateOfGuides
<1>2. DOMAIN runs' = Running /\ runs'[c] = r /\ \A e \in Running \ {c} : runs'[e] = runs[e]
  BY <1>1 DEF Becomes, DiskMade
<1>3. folders'[d] = b /\ \A f \in Folder \ {d} : folders'[f] = folders[f]
  BY <1>1 DEF DiskMade
<1>4. DiskMade'
  BY <1>1, <1>2 DEF DiskMade, Quietly
<1>5. AllRows' = AllRows
  <2>1. \A e \in Running : RowsIn(runs'[e]) = RowsIn(runs[e])
    BY <1>2
  <2>2. AllRows' = RootRows' \cup UNION {RowsIn(runs'[e]) : e \in Running}
    BY DEF AllRows, RowsIn
  <2>3. RootRows' = RootRows
    BY DEF RootRows
  <2>4. QED BY <2>1, <2>2, <2>3 DEF AllRows
<1>6. ASSUME NEW row \in AllRows PROVE NamesWell(row)'
  <2>1. row.folder \in Folder \ {d} /\ NamesWell(row)
    BY RowsTyped, StateOfGuides DEF BundleRows
  <2>2. folders'[row.folder] = folders[row.folder]
    BY <2>1, <1>3
  <2>3. QED BY <2>1, <2>2 DEF NamesWell, Readable, SameBundle, Quietly
<1>8. ASSUME NEW e \in Running PROVE RunMade(e, runs[e])'
  <2>1. PICK s : s = runs'[e] /\ RunMade(e, s)
    BY <1>2, StateOfGuides
  <2>2. QED BY <2>1, RunStays DEF Quietly
<1>9. ASSUME NEW e \in Running PROVE WriterMade(e)'
  <2>1. CASE e = c
    <3>1. AtHand(c)' = AtHand(c)
      BY <1>2 DEF AtHand, Turn
    <3>2. b # Nothing /\ (b \in Bundles => Readable(d)')
      BY <1>3 DEF GuideAssumption, Readable, Bundles
    <3>3. r.at = "loading" => Readable(d)' /\ folders'[d].provider = AtHand(c)
      BY <1>3, <3>2
    <3>4. \A f \in Running \ {c} : Writes(runs'[f]) => runs'[f].folder # d
      BY <1>2
    <3>5. QED BY <2>1, <1>2, <1>3, <1>5, <3>1, <3>2, <3>3, <3>4 DEF WriterMade, Writes
  <2>2. CASE e # c
    <3>1. runs'[e] = runs[e] /\ AtHand(e)' = AtHand(e) /\ WriterMade(e)
      BY <2>2, <1>2, StateOfGuides DEF AtHand, Turn
    <3>2. CASE ~Writes(runs[e])
      BY <3>1, <3>2 DEF WriterMade, Writes
    <3>3. CASE Writes(runs[e])
      <4>1. runs[e].folder # d /\ runs[e].folder \in Folder
        BY <2>2, <3>3, StateOfGuides DEF RunTyped
      <4>2. folders'[runs[e].folder] = folders[runs[e].folder]
        BY <4>1, <1>3
      <4>3. \A f \in Running \ {e} : Writes(runs'[f]) => runs'[f].folder # runs[e].folder
        BY <1>2, <2>2, <3>1, <3>3, <4>1 DEF WriterMade
      <4>4. /\ folders'[runs[e].folder] # Nothing
            /\ runs[e].at = "loading" /\ runs[e].folder \notin meddled' =>
                 Readable(runs[e].folder)' /\ folders'[runs[e].folder].provider = AtHand(e)
        BY <3>1, <3>3, <4>2 DEF WriterMade, Readable, Quietly
      <4>5. QED BY <3>1, <3>3, <4>3, <4>4, <1>5 DEF WriterMade, Writes
    <3>4. QED BY <3>2, <3>3
  <2>3. QED BY <2>1, <2>2
<1>10. QED BY <1>4, <1>5, <1>6, <1>8, <1>9 DEF GuidesMade

(* The provider at hand is one of those still to come.                     *)
LEMMA TurnIsLeft ==
  ASSUME GuideAssumption, GuidesMade, NEW c \in Running, runs[c].at \in {"resolving", "found", "exporting", "loading"}
  PROVE  /\ Turn(c) \in runs[c].left /\ AtHand(c) \in Serving /\ AtHand(c) \in DOMAIN Guides
         /\ runs[c].order \in Orders[c]
         /\ runs[c].left \ {Turn(c)} \subseteq {i \in DOMAIN runs[c].order.providers : runs[c].order.providers[i] \in Serving}
<1>1. /\ runs[c].left # {} /\ runs[c].order \in Orders[c]
      /\ runs[c].left \subseteq {i \in DOMAIN runs[c].order.providers : runs[c].order.providers[i] \in Serving}
  BY StateOfGuides DEF RunTyped
<1>2. PICK n \in Nat : n = Len(runs[c].order.providers) /\ DOMAIN runs[c].order.providers = 1..n
  BY <1>1 DEF GuideAssumption
<1>3. PICK L : L = runs[c].left
  OBVIOUS
<1>4. L \in SUBSET (1..n) /\ L # {}
  BY <1>1, <1>2, <1>3
<1>5. IsFiniteSet(L) /\ L \in SUBSET Nat
  <2>1. IsFiniteSet(1..n)
    BY FS_Interval
  <2>2. IsFiniteSet(L)
    BY <2>1, <1>4, FS_Subset, Zenon
  <2>3. QED BY <2>2, <1>4
<1>6. \E i \in L : \A j \in L : i <= j
  BY <1>4, <1>5, LeastAndGreatest
<1>7. Turn(c) \in L
  BY <1>3, <1>6 DEF Turn
<1>8. QED BY <1>1, <1>3, <1>7 DEF AtHand, GuideAssumption

(* A command that is done with the provider at hand.                       *)
LEMMA PastItIs ==
  ASSUME NEW c, DOMAIN runs[c] = RunFields, NEW r, r = PastIt(c)
  PROVE  /\ DOMAIN r = RunFields
         /\ r.at = IF runs[c].left = {Turn(c)} THEN "finishing" ELSE "resolving"
         /\ r.left = runs[c].left \ {Turn(c)} /\ r.guide = Nothing /\ r.folder = Nothing
         /\ r.order = runs[c].order /\ r.index = runs[c].index /\ r.taken = runs[c].taken
         /\ r.declined = runs[c].declined /\ r.inputs = runs[c].inputs /\ r.payload = runs[c].payload
BY DEF PastIt, RunFields

(* A provider that brings no bundle changes nothing on disk; only a bundle *)
(* that something else wrote to is an invalid one.                         *)
LEMMA DeclineMade ==
  ASSUME GuideAssumption, GuidesMade, NEW c \in Running, runs[c].at \in {"resolving", "exporting", "loading"},
         NEW why \in Whys, NEW failure,
         failure \in Outages \cup {Nothing} \/ (failure = InvalidBundle /\ meddled # {}),
         Decline(c, why, failure), OnDisk, Quietly
  PROVE  GuidesMade'
<1>1. RunMade(c, runs[c]) /\ RunTyped(c, runs[c]) /\ DOMAIN runs[c] = RunFields
  BY StateOfGuides DEF RunTyped
<1>2. PICK q : q = PastIt(c)
  OBVIOUS
<1>3. PICK x : x = [provider |-> AtHand(c), why |-> why, failure |-> failure]
  OBVIOUS
<1>4. PICK r : r = [q EXCEPT !.declined = Append(@, x)]
  OBVIOUS
<1>5. Becomes(c, r)
  BY <1>2, <1>3, <1>4 DEF Decline
<1>6. x \in Declines /\ x.failure = failure
  BY <1>3, TurnIsLeft DEF Declines
<1>7. /\ DOMAIN q = RunFields
      /\ q.at = IF runs[c].left = {Turn(c)} THEN "finishing" ELSE "resolving"
      /\ q.left = runs[c].left \ {Turn(c)}
      /\ q.order = runs[c].order /\ q.index = runs[c].index /\ q.taken = runs[c].taken
      /\ q.declined = runs[c].declined /\ q.inputs = runs[c].inputs /\ q.payload = runs[c].payload
  BY <1>1, <1>2, PastItIs
<1>8. /\ DOMAIN r = RunFields
      /\ r.at = q.at /\ r.left = q.left /\ r.order = q.order /\ r.index = q.index /\ r.taken = q.taken
      /\ r.declined = Append(q.declined, x) /\ r.inputs = q.inputs /\ r.payload = q.payload
  BY <1>4, <1>7 DEF RunFields
<1>9. r.at \in {"finishing", "resolving"} /\ (r.at = "resolving" => r.left # {})
  <2>1. Turn(c) \in runs[c].left
    BY TurnIsLeft
  <2>2. QED BY <2>1, <1>7, <1>8
<1>10. r.order \in Orders[c]
       /\ r.left \subseteq {i \in DOMAIN r.order.providers : r.order.providers[i] \in Serving}
  BY <1>7, <1>8, TurnIsLeft
<1>11. runs[c].payload = Nothing /\ runs[c].declined \in Seq(Declines) /\ Len(runs[c].taken) = Len(runs[c].inputs)
  BY <1>1 DEF RunTyped
<1>12. r.declined \in Seq(Declines)
  BY <1>6, <1>7, <1>8, <1>11
<1>13. RunTyped(c, r)
  BY <1>1, <1>7, <1>8, <1>9, <1>10, <1>11, <1>12 DEF RunTyped, Writes
<1>14. \A i \in DOMAIN r.declined : r.declined[i].failure \in Outages \cup {Nothing} \/ meddled # {}
  <2>1. PICK D : D = runs[c].declined
    OBVIOUS
  <2>2. D \in Seq(Declines) /\ r.declined = Append(D, x)
        /\ \A i \in DOMAIN D : D[i].failure \in Outages \cup {Nothing} \/ meddled # {}
    BY <2>1, <1>1, <1>7, <1>8, <1>11 DEF RunMade
  <2>3. \A i \in DOMAIN Append(D, x) : (i \in DOMAIN D /\ Append(D, x)[i] = D[i]) \/ Append(D, x)[i] = x
    BY <2>2, <1>6
  <2>4. QED BY <2>2, <2>3, <1>6
<1>15. \A i \in DOMAIN r.taken : ReusedWell(r, r.taken[i])
  BY <1>1, <1>7, <1>8 DEF RunMade, ReusedWell
<1>16. RunMade(c, r)
  BY <1>7, <1>8, <1>9, <1>11, <1>13, <1>14, <1>15 DEF RunMade, BlamesWell
<1>17. ~Writes(r) /\ RowsIn(r) = RowsIn(runs[c])
  BY <1>7, <1>8, <1>9 DEF Writes, RowsIn
<1>18. RowsIn(r) \subseteq AllRows
  BY <1>17 DEF AllRows
<1>19. QED BY <1>5, <1>16, <1>17, <1>18, OneRun DEF OnDisk

(* A bundle that is taken is the one that its row says it is.              *)
LEMMA TakeMade ==
  ASSUME GuideAssumption, GuidesMade, NEW c \in Running, runs[c].at \in {"found", "loading"},
         NEW row \in BundleRows, row.identity \in Bundles, NamesWell(row), ReusedWell(runs[c], row),
         \A e \in Running \ {c} : Writes(runs[e]) => row.folder # runs[e].folder,
         Take(c, row), OnDisk, Quietly
  PROVE  GuidesMade'
<1>1. RunMade(c, runs[c]) /\ RunTyped(c, runs[c]) /\ DOMAIN runs[c] = RunFields
  BY StateOfGuides DEF RunTyped
<1>2. PICK q : q = PastIt(c)
  OBVIOUS
<1>3. PICK x : x = [folder |-> row.folder, bundle |-> row.identity]
  OBVIOUS
<1>4. PICK r : r = [q EXCEPT !.taken = Append(@, row), !.inputs = Append(@, x)]
  OBVIOUS
<1>5. Becomes(c, r)
  BY <1>2, <1>3, <1>4 DEF Take
<1>6. x \in Inputs
  BY <1>3 DEF Inputs, BundleRows
<1>7. /\ DOMAIN q = RunFields
      /\ q.at = IF runs[c].left = {Turn(c)} THEN "finishing" ELSE "resolving"
      /\ q.left = runs[c].left \ {Turn(c)}
      /\ q.order = runs[c].order /\ q.index = runs[c].index /\ q.taken = runs[c].taken
      /\ q.declined = runs[c].declined /\ q.inputs = runs[c].inputs /\ q.payload = runs[c].payload
  BY <1>1, <1>2, PastItIs
<1>8. /\ DOMAIN r = RunFields
      /\ r.at = q.at /\ r.left = q.left /\ r.order = q.order /\ r.index = q.index /\ r.declined = q.declined
      /\ r.taken = Append(q.taken, row) /\ r.inputs = Append(q.inputs, x) /\ r.payload = q.payload
  BY <1>4, <1>7 DEF RunFields
<1>9. r.at \in {"finishing", "resolving"} /\ (r.at = "resolving" => r.left # {})
  <2>1. Turn(c) \in runs[c].left
    BY TurnIsLeft
  <2>2. QED BY <2>1, <1>7, <1>8
<1>10. r.order \in Orders[c]
       /\ r.left \subseteq {i \in DOMAIN r.order.providers : r.order.providers[i] \in Serving}
  BY <1>7, <1>8, TurnIsLeft
<1>11. PICK D, I : D = runs[c].taken /\ I = runs[c].inputs
  OBVIOUS
<1>12. /\ runs[c].payload = Nothing /\ D \in Seq(BundleRows) /\ I \in Seq(Inputs) /\ Len(D) = Len(I)
       /\ r.taken = Append(D, row) /\ r.inputs = Append(I, x)
  BY <1>1, <1>7, <1>8, <1>11 DEF RunTyped
<1>13. /\ Append(D, row) \in Seq(BundleRows) /\ Append(I, x) \in Seq(Inputs)
       /\ Len(Append(D, row)) = Len(Append(I, x))
       /\ \A i \in DOMAIN Append(D, row) : (i \in DOMAIN D /\ Append(D, row)[i] = D[i]) \/ Append(D, row)[i] = row
  BY <1>6, <1>12
<1>14. RunTyped(c, r)
  BY <1>1, <1>7, <1>8, <1>9, <1>10, <1>12, <1>13 DEF RunTyped, Writes
<1>15. \A z : ReusedWell(runs[c], z) => ReusedWell(r, z)
  BY <1>7, <1>8 DEF ReusedWell
<1>16. \A i \in DOMAIN r.taken : ReusedWell(r, r.taken[i])
  BY <1>1, <1>11, <1>12, <1>13, <1>15 DEF RunMade
<1>17. RunMade(c, r)
  BY <1>1, <1>7, <1>8, <1>9, <1>12, <1>14, <1>16 DEF RunMade, BlamesWell
<1>18. ~Writes(r)
  BY <1>9 DEF Writes
<1>19. RowsIn(r) \subseteq RowsIn(runs[c]) \cup {row}
  <2>1. \A i \in DOMAIN r.taken : r.taken[i] \in RowsIn(runs[c]) \cup {row}
    BY <1>11, <1>12, <1>13 DEF RowsIn
  <2>2. \A i \in DOMAIN r.index : r.index[i] \in RowsIn(runs[c])
    BY <1>7, <1>8 DEF RowsIn
  <2>3. QED BY <2>1, <2>2 DEF RowsIn
<1>20. RowsIn(r) \subseteq AllRows \cup {row}
  BY <1>19 DEF AllRows
<1>21. QED BY <1>5, <1>17, <1>18, <1>20, OneRun DEF OnDisk

(* A command before it starts.                                             *)
LEMMA UnstartedIs ==
  /\ DOMAIN Unstarted = RunFields
  /\ Unstarted.at = "idle" /\ Unstarted.index = <<>> /\ Unstarted.left = {} /\ Unstarted.taken = <<>>
  /\ Unstarted.declined = <<>> /\ Unstarted.inputs = <<>> /\ Unstarted.payload = Nothing
BY DEF Unstarted, RunFields

(* A command with nothing taken or declined in its hands.                  *)
Bare(c, r) ==
  /\ DOMAIN r = RunFields /\ r.taken = <<>> /\ r.declined = <<>> /\ r.index \in Seq(BundleRows) /\ r.inputs \in Seq(Inputs)
  /\ r.at \in {"told", "handing", "reading", "killed"}
  /\ r.at # "killed" => r.order \in Orders[c]
  /\ r.at = "reading" => Len(r.inputs) < Len(r.index)
  /\ r.at \notin {"told", "handing"} => r.payload = Nothing
  /\ r.payload # Nothing /\ r.payload.code = "invalid_bundle" => meddled # {}
  /\ r.at = "handing" => Accounted(r) /\ r.payload.status = "-" /\ r.payload.code = "-"
  /\ r.payload # Nothing /\ r.payload.status # "-" => Accounted(r) /\ SimcTold(r)

(* It is in order, writes nothing, and has the rows that it found.         *)
LEMMA BareMade ==
  ASSUME NEW c, NEW r, Bare(c, r)
  PROVE  RunMade(c, r) /\ ~Writes(r) /\ RowsIn(r) = {r.index[i] : i \in DOMAIN r.index}
<1> USE DEF Bare
<1>1. DOMAIN r.taken = {} /\ DOMAIN r.declined = {} /\ r.taken \in Seq(BundleRows) /\ r.declined \in Seq(Declines)
  OBVIOUS
<1>2. ~Writes(r)
  BY DEF Writes
<1>3. RunTyped(c, r)
  BY <1>1, <1>2 DEF RunTyped
<1>4. RunMade(c, r)
  BY <1>1, <1>3 DEF RunMade, BlamesWell
<1>5. QED BY <1>1, <1>2, <1>4 DEF RowsIn

(* A query starts with the rows of the root, or with none.                 *)
LEMMA StartQueryMade ==
  ASSUME GuideAssumption, GuidesMade, NEW c \in Running, StartQuery(c)
  PROVE  GuidesMade'
<1>1. PICK order \in Orders[c] :
        LET eligible == {i \in DOMAIN order.providers : order.providers[i] \in Serving}
        IN  IF Cardinality(eligible) < 2 THEN Becomes(c, [Tells("invalid_argument") EXCEPT !.order = order])
            ELSE Becomes(c, [Unstarted EXCEPT !.at = "resolving", !.order = order, !.left = eligible,
                                              !.index = IF manifest = Nothing THEN <<>> ELSE manifest])
  BY DEF StartQuery
<1>2. Quietly /\ OnDisk
  BY DEF StartQuery
<1>3. PICK E : E = {i \in DOMAIN order.providers : order.providers[i] \in Serving}
  OBVIOUS
<1>4. CASE Cardinality(E) < 2
  <2>1. PICK r : r = [Tells("invalid_argument") EXCEPT !.order = order]
    OBVIOUS
  <2>2. Becomes(c, r)
    BY <1>1, <1>3, <1>4, <2>1
  <2>3. /\ DOMAIN r = RunFields /\ r.at = "told" /\ r.order = order
        /\ r.index = <<>> /\ r.taken = <<>> /\ r.declined = <<>> /\ r.inputs = <<>>
        /\ r.payload.code = "invalid_argument" /\ r.payload.status = "-"
    BY <2>1 DEF Tells, Unstarted, RunFields
  <2>4. RunMade(c, r) /\ ~Writes(r) /\ RowsIn(r) = {}
    <3>1. r.index \in Seq(BundleRows) /\ r.inputs \in Seq(Inputs) /\ {r.index[i] : i \in DOMAIN r.index} = {}
      BY <2>3
    <3>2. Bare(c, r)
      BY <2>3, <3>1 DEF Bare
    <3>3. RunMade(c, r) /\ ~Writes(r) /\ RowsIn(r) = {r.index[i] : i \in DOMAIN r.index}
      BY <3>2, BareMade
    <3>4. QED BY <3>1, <3>3
  <2>5. QED BY <2>2, <2>4, <1>2, OneRun DEF OnDisk
<1>5. CASE ~(Cardinality(E) < 2)
  <2>1. PICK M : M = IF manifest = Nothing THEN <<>> ELSE manifest
    OBVIOUS
  <2>2. PICK r : r = [Unstarted EXCEPT !.at = "resolving", !.order = order, !.left = E, !.index = M]
    OBVIOUS
  <2>3. Becomes(c, r)
    BY <1>1, <1>3, <1>5, <2>1, <2>2
  <2>4. /\ DOMAIN r = RunFields /\ r.at = "resolving" /\ r.order = order /\ r.left = E /\ r.index = M
        /\ r.taken = <<>> /\ r.declined = <<>> /\ r.inputs = <<>> /\ r.payload = Nothing
    BY <2>2, UnstartedIs DEF RunFields
  <2>5. M \in Seq(BundleRows) /\ {M[i] : i \in DOMAIN M} \subseteq RootRows
    <3>1. CASE manifest = Nothing
      <4>1. M = <<>>
        BY <3>1, <2>1
      <4>2. DOMAIN M = {}
        BY <4>1
      <4>3. QED BY <4>1, <4>2
    <3>2. CASE manifest # Nothing
      BY <3>2, <2>1, StateOfGuides DEF DiskMade, RootRows
    <3>3. QED BY <3>1, <3>2
  <2>6. E # {}
    <3>1. Cardinality({}) = 0
      BY FS_EmptySet
    <3>2. SUFFICES ASSUME E = {} PROVE FALSE
      OBVIOUS
    <3>3. Cardinality(E) = 0
      BY <3>1, <3>2
    <3>4. QED BY <3>3, <1>5
  <2>7. DOMAIN r.taken = {} /\ DOMAIN r.declined = {} /\ r.taken \in Seq(BundleRows) /\ r.declined \in Seq(Declines)
        /\ r.inputs \in Seq(Inputs)
    BY <2>4
  <2>8. RunTyped(c, r)
    BY <1>3, <2>4, <2>5, <2>6, <2>7 DEF RunTyped, Writes
  <2>9. RunMade(c, r)
    BY <2>4, <2>7, <2>8 DEF RunMade, BlamesWell
  <2>10. ~Writes(r) /\ RowsIn(r) \subseteq AllRows
    BY <2>4, <2>5, <2>7 DEF Writes, RowsIn, AllRows
  <2>11. QED BY <2>3, <2>9, <2>10, <1>2, OneRun DEF OnDisk
<1>6. QED BY <1>4, <1>5

(* A command that goes on with the rows that it has.                       *)
LEMMA GoesOn ==
  ASSUME GuidesMade, NEW c \in Running, NEW r, Becomes(c, r), OnDisk, Quietly,
         r.index = runs[c].index, r.taken = runs[c].taken, ~Writes(r), RunMade(c, r)
  PROVE  GuidesMade'
<1>1. RowsIn(r) \subseteq AllRows
  BY DEF RowsIn, AllRows
<1>2. QED BY <1>1, OneRun DEF OnDisk

(* A guide is found, or its provider declined.                             *)
LEMMA FindGuideMade ==
  ASSUME GuideAssumption, GuidesMade, NEW c \in Running, FindGuide(c)
  PROVE  GuidesMade'
<1>1. runs[c].at = "resolving" /\ Quietly /\ OnDisk
  BY DEF FindGuide
<1>2. ASSUME NEW g \in Guides[AtHand(c)], Becomes(c, [runs[c] EXCEPT !.at = "found", !.guide = g])
      PROVE  GuidesMade'
  <2>1. RunMade(c, runs[c]) /\ RunTyped(c, runs[c]) /\ DOMAIN runs[c] = RunFields
    BY StateOfGuides DEF RunTyped
  <2>2. PICK r : r = [runs[c] EXCEPT !.at = "found", !.guide = g]
    OBVIOUS
  <2>3. /\ DOMAIN r = RunFields /\ r.at = "found" /\ r.guide = g
        /\ r.order = runs[c].order /\ r.index = runs[c].index /\ r.left = runs[c].left /\ r.taken = runs[c].taken
        /\ r.declined = runs[c].declined /\ r.inputs = runs[c].inputs /\ r.payload = runs[c].payload
    BY <2>1, <2>2 DEF RunFields
  <2>4. g \in DOMAIN Contents
    BY <1>1, TurnIsLeft DEF GuideAssumption
  <2>5. RunTyped(c, r)
    BY <1>1, <2>1, <2>3, <2>4 DEF RunTyped, Writes
  <2>6. RunMade(c, r)
    <3>1. \A i \in DOMAIN r.taken : ReusedWell(r, r.taken[i])
      BY <2>1, <2>3 DEF RunMade, ReusedWell
    <3>2. QED BY <1>1, <2>1, <2>3, <2>5, <3>1 DEF RunMade, RunTyped, BlamesWell
  <2>7. ~Writes(r)
    BY <2>3 DEF Writes
  <2>8. QED BY <1>1, <1>2, <2>2, <2>3, <2>6, <2>7, GoesOn
<1>3. ASSUME NEW why \in {"not decisive", "provider_failed"}, NEW failure \in Outages \cup {Nothing}, Decline(c, why, failure)
      PROVE  GuidesMade'
  <2>1. why \in Whys
    BY DEF Whys
  <2>2. QED BY <2>1, <1>1, <1>3, DeclineMade
<1>4. \/ \E g \in Guides[AtHand(c)] : Becomes(c, [runs[c] EXCEPT !.at = "found", !.guide = g])
      \/ Decline(c, "not decisive", Nothing)
      \/ \E failure \in Outages : Decline(c, "provider_failed", failure)
  BY DEF FindGuide
<1>5. QED BY <1>2, <1>3, <1>4

(* The row that is reused is one of the manifest's, of the provider at hand. *)
LEMMA RowOfIs ==
  ASSUME GuidesMade, NEW c \in Running, RowsAtHand(c) # {}
  PROVE  \E j \in DOMAIN runs[c].index : RowOf(c) = runs[c].index[j] /\ runs[c].index[j].provider = AtHand(c)
<1>1. PICK I : I = runs[c].index
  OBVIOUS
<1>2. I \in Seq(BundleRows)
  BY <1>1, StateOfGuides DEF RunTyped
<1>3. PICK n \in Nat : n = Len(I) /\ DOMAIN I = 1..n
  BY <1>2
<1>4. PICK S : S = RowsAtHand(c)
  OBVIOUS
<1>5. S \in SUBSET (1..n) /\ S # {} /\ \A i \in S : I[i].provider = AtHand(c)
  BY <1>1, <1>3, <1>4 DEF RowsAtHand
<1>6. IsFiniteSet(S) /\ S \in SUBSET Nat
  <2>1. IsFiniteSet(1..n)
    BY FS_Interval
  <2>2. IsFiniteSet(S)
    BY <2>1, <1>5, FS_Subset, Zenon
  <2>3. QED BY <2>2, <1>5
<1>7. \E i \in S : \A j \in S : j <= i
  BY <1>5, <1>6, LeastAndGreatest
<1>8. PICK j : j = CHOOSE i \in S : \A k \in S : k <= i
  OBVIOUS
<1>9. j \in S
  BY <1>7, <1>8
<1>10. RowOf(c) = I[j]
  BY <1>1, <1>4, <1>8 DEF RowOf
<1>11. QED BY <1>1, <1>3, <1>5, <1>9, <1>10

(* A row is reused for the bundle that it was made from.                   *)
LEMMA ReuseMade ==
  ASSUME GuideAssumption, GuidesMade, NEW c \in Running, runs[c].at = "found", Reusable(c),
         Take(c, [RowOf(c) EXCEPT !.status = "reused", !.identity = folders[RowOf(c).folder], !.seen = hour]),
         OnDisk, Quietly
  PROVE  GuidesMade'
<1>1. PICK old : old = RowOf(c)
  OBVIOUS
<1>2. /\ RowsAtHand(c) # {} /\ ~runs[c].order.force /\ hour - old.at <= MaxAge
      /\ Readable(old.folder) /\ SameBundle(folders[old.folder], old)
  BY <1>1 DEF Reusable
<1>3. PICK j \in DOMAIN runs[c].index : old = runs[c].index[j]
  BY <1>1, <1>2, RowOfIs
<1>4. old \in RowsIn(runs[c])
  BY <1>3 DEF RowsIn
<1>5. old \in AllRows
  BY <1>4 DEF AllRows
<1>6. old \in BundleRows /\ NamesWell(old)
  BY <1>5, RowsTyped, StateOfGuides
<1>7. PICK b : b = folders[old.folder]
  OBVIOUS
<1>8. b \in Bundles
  BY <1>2, <1>6, <1>7, StateOfGuides DEF DiskMade, Readable, BundleRows
<1>9. PICK row : row = [old EXCEPT !.status = "reused", !.identity = b, !.seen = hour]
  OBVIOUS
<1>10. Take(c, row)
  BY <1>1, <1>7, <1>9
<1>11. /\ row.provider = old.provider /\ row.status = "reused" /\ row.guide = old.guide /\ row.folder = old.folder
       /\ row.at = old.at /\ row.identity = b /\ row.seen = hour
  BY <1>6, <1>9 DEF BundleRows
<1>12. row \in BundleRows
  <2>1. hour \in 0..LastHour
    BY StateOfGuides DEF DiskMade
  <2>2. QED BY <1>6, <1>8, <1>9, <2>1 DEF BundleRows
<1>13. b.provider = old.provider /\ b.at = old.at
  <2>1. CASE old.identity # Nothing
    BY <2>1, <1>2, <1>6, <1>7 DEF SameBundle, NamesWell
  <2>2. CASE old.identity = Nothing
    BY <2>2, <1>2, <1>7 DEF SameBundle
  <2>3. QED BY <2>1, <2>2
<1>14. b # Nothing
  BY <1>2, <1>7 DEF Readable
<1>15. NamesWell(row)
  BY <1>2, <1>6, <1>7, <1>11, <1>13, <1>14 DEF NamesWell, SameBundle
<1>16. ReusedWell(runs[c], row)
  BY <1>2, <1>3, <1>11, <1>13 DEF ReusedWell
<1>17. ASSUME NEW e \in Running \ {c}, Writes(runs[e]) PROVE row.folder # runs[e].folder
  BY <1>5, <1>11, <1>17, StateOfGuides DEF WriterMade
<1>18. row.identity \in Bundles
  BY <1>8, <1>11
<1>19. QED BY <1>10, <1>12, <1>15, <1>16, <1>17, <1>18, TakeMade

(* An export takes a directory that nobody names and nobody writes to.     *)
LEMMA ReuseOrExportMade ==
  ASSUME GuideAssumption, GuidesMade, NEW c \in Running, ReuseOrExport(c)
  PROVE  GuidesMade'
<1>1. runs[c].at = "found" /\ Quietly
  BY DEF ReuseOrExport
<1>2. CASE Reusable(c)
  BY <1>1, <1>2, ReuseMade DEF ReuseOrExport
<1>3. CASE ~Reusable(c)
  <2>1. PICK d : d = ExportFolder
    OBVIOUS
  <2>2. /\ Unused # {} /\ folders' = [folders EXCEPT ![d] = Torn] /\ UNCHANGED manifest
        /\ Becomes(c, [runs[c] EXCEPT !.at = "exporting", !.folder = d])
    BY <1>3, <2>1 DEF ReuseOrExport
  <2>3. d \in Folder /\ folders[d] = Nothing
    <3>1. PICK S : S = Unused
      OBVIOUS
    <3>2. S \in SUBSET Folder /\ S # {}
      BY <2>2, <3>1 DEF Unused
    <3>3. IsFiniteSet(S) /\ S \in SUBSET Nat
      BY <3>2, FS_Subset, Zenon DEF GuideAssumption
    <3>4. \E i \in S : \A j \in S : i <= j
      BY <3>2, <3>3, LeastAndGreatest
    <3>5. d \in S
      BY <2>1, <3>1, <3>4 DEF ExportFolder
    <3>6. QED BY <3>1, <3>5 DEF Unused
  <2>4. PICK r : r = [runs[c] EXCEPT !.at = "exporting", !.folder = d]
    OBVIOUS
  <2>5. RunMade(c, runs[c]) /\ RunTyped(c, runs[c]) /\ DOMAIN runs[c] = RunFields
    BY StateOfGuides DEF RunTyped
  <2>6. /\ DOMAIN r = RunFields /\ r.at = "exporting" /\ r.folder = d /\ r.guide = runs[c].guide
        /\ r.order = runs[c].order /\ r.index = runs[c].index /\ r.left = runs[c].left /\ r.taken = runs[c].taken
        /\ r.declined = runs[c].declined /\ r.inputs = runs[c].inputs /\ r.payload = runs[c].payload
    BY <2>4, <2>5 DEF RunFields
  <2>7. RunTyped(c, r)
    BY <1>1, <2>3, <2>5, <2>6 DEF RunTyped, Writes
  <2>8. RunMade(c, r)
    <3>1. \A i \in DOMAIN r.taken : ReusedWell(r, r.taken[i])
      BY <2>5, <2>6 DEF RunMade, ReusedWell
    <3>2. QED BY <1>1, <2>5, <2>6, <2>7, <3>1 DEF RunMade, RunTyped, BlamesWell
  <2>9. \A row \in AllRows : row.folder # d
    BY <2>3, StateOfGuides DEF NamesWell
  <2>10. \A e \in Running \ {c} : Writes(runs[e]) => runs[e].folder # d
    BY <2>3, StateOfGuides DEF WriterMade
  <2>11. RowsIn(r) = RowsIn(runs[c])
    BY <2>6 DEF RowsIn
  <2>12. QED BY <1>1, <2>2, <2>3, <2>4, <2>6, <2>8, <2>9, <2>10, <2>11, OneWrite
<1>4. QED BY <1>2, <1>3

(* An export writes a whole bundle of the provider at hand, or nothing.    *)
LEMMA ExportMade ==
  ASSUME GuideAssumption, GuidesMade, NEW c \in Running, Export(c)
  PROVE  GuidesMade'
<1>1. runs[c].at = "exporting" /\ Quietly /\ UNCHANGED manifest
  BY DEF Export
<1>2. ASSUME NEW failure \in Outages, Decline(c, "guide_export_failed", failure), UNCHANGED folders
      PROVE  GuidesMade'
  <2>1. "guide_export_failed" \in Whys
    BY DEF Whys
  <2>2. QED BY <1>1, <1>2, <2>1, DeclineMade DEF OnDisk
<1>3. ASSUME NEW g \in Guides[AtHand(c)],
             folders' = [folders EXCEPT ![runs[c].folder] = Bundle(AtHand(c), g, hour)],
             Becomes(c, [runs[c] EXCEPT !.at = "loading"])
      PROVE  GuidesMade'
  <2>1. PICK d, b : d = runs[c].folder /\ b = Bundle(AtHand(c), g, hour)
    OBVIOUS
  <2>2. b \in Bundles /\ b.provider = AtHand(c)
    <3>1. hour \in 0..LastHour
      BY StateOfGuides DEF DiskMade
    <3>2. AtHand(c) \in DOMAIN Guides /\ g \in DOMAIN Contents
      BY <1>1, TurnIsLeft DEF GuideAssumption
    <3>3. QED BY <2>1, <3>1, <3>2 DEF Bundle, Bundles
  <2>3. RunMade(c, runs[c]) /\ RunTyped(c, runs[c]) /\ DOMAIN runs[c] = RunFields /\ WriterMade(c)
    BY StateOfGuides DEF RunTyped
  <2>4. PICK r : r = [runs[c] EXCEPT !.at = "loading"]
    OBVIOUS
  <2>5. /\ DOMAIN r = RunFields /\ r.at = "loading" /\ r.folder = d /\ r.guide = runs[c].guide
        /\ r.order = runs[c].order /\ r.index = runs[c].index /\ r.left = runs[c].left /\ r.taken = runs[c].taken
        /\ r.declined = runs[c].declined /\ r.inputs = runs[c].inputs /\ r.payload = runs[c].payload
    BY <2>1, <2>3, <2>4 DEF RunFields
  <2>6. d \in Folder
    BY <1>1, <2>1, <2>3 DEF RunTyped, Writes
  <2>7. RunTyped(c, r)
    BY <1>1, <2>3, <2>5, <2>6 DEF RunTyped, Writes
  <2>8. RunMade(c, r)
    <3>1. \A i \in DOMAIN r.taken : ReusedWell(r, r.taken[i])
      BY <2>3, <2>5 DEF RunMade, ReusedWell
    <3>2. QED BY <1>1, <2>3, <2>5, <2>7, <3>1 DEF RunMade, RunTyped, BlamesWell
  <2>9. /\ \A row \in AllRows : row.folder # d
        /\ \A e \in Running \ {c} : Writes(runs[e]) => runs[e].folder # d
    BY <1>1, <2>1, <2>3 DEF WriterMade, Writes
  <2>10. RowsIn(r) = RowsIn(runs[c])
    BY <2>5 DEF RowsIn
  <2>11. Becomes(c, r) /\ folders' = [folders EXCEPT ![d] = b]
    BY <1>3, <2>1, <2>4
  <2>12. QED BY <1>1, <2>2, <2>5, <2>6, <2>8, <2>9, <2>10, <2>11, OneWrite
<1>4. QED BY <1>2, <1>3 DEF Export

(* A bundle that is loaded is the one that was exported, or meddled with.  *)
LEMMA LoadExportMade ==
  ASSUME GuideAssumption, GuidesMade, NEW c \in Running, LoadExport(c)
  PROVE  GuidesMade'
<1>1. runs[c].at = "loading" /\ Quietly /\ OnDisk
  BY DEF LoadExport
<1>2. PICK d : d = runs[c].folder
  OBVIOUS
<1>3. RunTyped(c, runs[c]) /\ WriterMade(c) /\ DiskMade
  BY StateOfGuides
<1>4. d \in Folder /\ runs[c].guide \in DOMAIN Contents
  BY <1>1, <1>2, <1>3 DEF RunTyped, Writes
<1>5. CASE Readable(d)
  <2>1. PICK row : row = Exported(c, d)
    OBVIOUS
  <2>2. Take(c, row)
    BY <1>2, <1>5, <2>1 DEF LoadExport
  <2>3. folders[d] \in Bundles /\ folders[d] # Nothing
    BY <1>3, <1>4, <1>5 DEF DiskMade, Readable
  <2>4. row \in BundleRows
    <3>1. AtHand(c) \in DOMAIN Guides /\ hour \in 0..LastHour /\ folders[d].at \in 0..LastHour
      BY <1>1, <1>3, <2>3, TurnIsLeft DEF DiskMade, Bundles
    <3>2. QED BY <1>4, <2>1, <2>3, <3>1 DEF Exported, BundleRows
  <2>5. /\ row.provider = AtHand(c) /\ row.status = "exported" /\ row.folder = d /\ row.at = folders[d].at
        /\ row.identity = folders[d]
    BY <2>1 DEF Exported
  <2>6. d \notin meddled => folders[d].provider = AtHand(c)
    BY <1>1, <1>2, <1>3 DEF WriterMade, Writes
  <2>7. NamesWell(row)
    BY <1>5, <2>3, <2>5, <2>6 DEF NamesWell, SameBundle
  <2>8. ReusedWell(runs[c], row)
    BY <2>5 DEF ReusedWell
  <2>9. \A e \in Running \ {c} : Writes(runs[e]) => row.folder # runs[e].folder
    BY <1>1, <1>2, <1>3, <2>5 DEF WriterMade, Writes
  <2>10. row.identity \in Bundles
    BY <2>3, <2>5
  <2>11. QED BY <1>1, <2>2, <2>4, <2>7, <2>8, <2>9, <2>10, TakeMade
<1>6. CASE ~Readable(d)
  <2>1. Decline(c, "invalid_exported_bundle", InvalidBundle)
    BY <1>2, <1>6 DEF LoadExport
  <2>2. meddled # {}
    BY <1>1, <1>2, <1>3, <1>6 DEF WriterMade, Writes
  <2>3. "invalid_exported_bundle" \in Whys
    BY DEF Whys
  <2>4. QED BY <1>1, <2>1, <2>2, <2>3, DeclineMade
<1>7. QED BY <1>5, <1>6

(* What is said of failures alone is never that there are too few guides,  *)
(* and that a bundle is invalid only when one of them says so.             *)
LEMMA SharedCodeIs ==
  ASSUME GuideAssumption, NEW F, F # {}, \A f \in F : f \in Outages \/ f = InvalidBundle
  PROVE  /\ SharedCode(F) # "insufficient_guides"
         /\ SharedCode(F) = "invalid_bundle" => InvalidBundle \in F
<1>1. \A f \in F : f.code # "insufficient_guides" /\ (f.code = "invalid_bundle" => f = InvalidBundle)
  BY DEF GuideAssumption, InvalidBundle
<1>2. PICK f : f = CHOOSE g \in F : TRUE
  OBVIOUS
<1>3. f \in F
  BY <1>2
<1>4. SharedCode(F) \in {f.code, "upstream_error", "providers_failed"}
  BY <1>2 DEF SharedCode
<1>5. QED BY <1>1, <1>3, <1>4

(* Too few guides is said of absence, and of nothing else.                 *)
LEMMA InsufficientIs ==
  ASSUME GuideAssumption, GuidesMade, NEW c \in Running, runs[c].declined # <<>>
  PROVE  (Insufficient(c) = "insufficient_guides") = (Nothing \in FailuresIn(runs[c]) \/ ~ServedAll(runs[c]))
<1>1. PICK D : D = runs[c].declined
  OBVIOUS
<1>2. D \in Seq(Declines) /\ D # <<>>
  BY <1>1, StateOfGuides DEF RunTyped
<1>3. PICK F : F = FailuresIn(runs[c])
  OBVIOUS
<1>4. F = {D[i].failure : i \in DOMAIN D} /\ F = FailuresOf(c)
  BY <1>1, <1>3 DEF FailuresIn, FailuresOf
<1>5. F # {}
  <2>1. Len(D) \in Nat /\ DOMAIN D = 1..Len(D) /\ Len(D) # 0
    BY <1>2, EmptySeq
  <2>2. 1 \in DOMAIN D
    BY <2>1
  <2>3. D[1].failure \in F
    BY <2>2, <1>4
  <2>4. QED BY <2>3
<1>6. \A f \in F : f \in Outages \/ f = InvalidBundle \/ f = Nothing
  <2>1. \A i \in DOMAIN D : D[i] \in Declines
    BY <1>2
  <2>2. \A x \in Declines : x.failure \in Outages \cup {Nothing, InvalidBundle}
    BY DEF Declines
  <2>3. QED BY <1>4, <2>1, <2>2
<1>7. AllServe(c) = ServedAll(runs[c])
  BY DEF AllServe, ServedAll
<1>8. CASE Nothing \in F \/ ~ServedAll(runs[c])
  BY <1>3, <1>4, <1>7, <1>8 DEF Insufficient
<1>9. CASE Nothing \notin F /\ ServedAll(runs[c])
  <2>1. Insufficient(c) = SharedCode(F)
    BY <1>4, <1>5, <1>7, <1>9 DEF Insufficient
  <2>2. SharedCode(F) # "insufficient_guides"
    BY <1>5, <1>6, <1>9, SharedCodeIs
  <2>3. QED BY <1>3, <1>9, <2>1, <2>2
<1>10. QED BY <1>8, <1>9

(* An invalid bundle is blamed only if something else wrote to one.        *)
LEMMA InvalidIsMeddled ==
  ASSUME GuideAssumption, GuidesMade, NEW c \in Running, Insufficient(c) = "invalid_bundle"
  PROVE  meddled # {}
<1>1. PICK F : F = FailuresOf(c)
  OBVIOUS
<1>2. F # {} /\ Nothing \notin F /\ SharedCode(F) = "invalid_bundle"
  BY <1>1 DEF Insufficient
<1>3. RunTyped(c, runs[c]) /\ RunMade(c, runs[c])
  BY StateOfGuides
<1>4. PICK D : D = runs[c].declined
  OBVIOUS
<1>5. /\ D \in Seq(Declines) /\ F = {D[i].failure : i \in DOMAIN D}
      /\ \A i \in DOMAIN D : D[i].failure \in Outages \cup {Nothing} \/ meddled # {}
  BY <1>1, <1>3, <1>4 DEF RunTyped, RunMade, FailuresOf
<1>6. \A f \in F : f \in Outages \/ f = InvalidBundle
  <2>1. \A i \in DOMAIN D : D[i] \in Declines
    BY <1>5
  <2>2. \A x \in Declines : x.failure \in Outages \cup {Nothing, InvalidBundle}
    BY DEF Declines
  <2>3. QED BY <1>2, <1>5, <2>1, <2>2
<1>7. InvalidBundle \in F
  BY <1>2, <1>6, SharedCodeIs
<1>8. InvalidBundle \notin Outages /\ InvalidBundle # Nothing
  <2>1. InvalidBundle \notin Outages
    BY DEF GuideAssumption, InvalidBundle
  <2>2. QED BY <2>1, <1>2, <1>7
<1>9. QED BY <1>5, <1>7, <1>8

(* The manifest that replaces the old one names the bundles compared.      *)
LEMMA FinishMade ==
  ASSUME GuideAssumption, GuidesMade, NEW c \in Running, Finish(c)
  PROVE  GuidesMade'
<1>1. runs[c].at = "finishing" /\ Quietly /\ UNCHANGED folders
  BY DEF Finish
<1>2. RunMade(c, runs[c]) /\ RunTyped(c, runs[c]) /\ DOMAIN runs[c] = RunFields
  BY StateOfGuides DEF RunTyped
<1>3. CASE Len(runs[c].inputs) < 2
  <2>1. PICK p : p = [code |-> Insufficient(c), status |-> "-"]
    OBVIOUS
  <2>2. PICK r : r = [runs[c] EXCEPT !.at = "told", !.payload = p]
    OBVIOUS
  <2>3. Becomes(c, r) /\ UNCHANGED manifest
    BY <1>3, <2>1, <2>2 DEF Finish
  <2>4. /\ DOMAIN r = RunFields /\ r.at = "told" /\ r.payload = p
        /\ r.order = runs[c].order /\ r.index = runs[c].index /\ r.taken = runs[c].taken
        /\ r.declined = runs[c].declined /\ r.inputs = runs[c].inputs
    BY <1>2, <2>2 DEF RunFields
  <2>5. p.code = Insufficient(c) /\ p.status = "-"
    BY <2>1
  <2>6. RunTyped(c, r)
    BY <1>1, <1>2, <2>4 DEF RunTyped, Writes
  <2>7. \A i \in DOMAIN r.taken : ReusedWell(r, r.taken[i])
    BY <1>2, <2>4 DEF RunMade, ReusedWell
  <2>8. BlamesWell(r)
    <3>1. FailuresIn(r) = FailuresIn(runs[c]) /\ ServedAll(r) = ServedAll(runs[c])
      BY <2>4 DEF FailuresIn, ServedAll
    <3>2. QED BY <2>4, <2>5, <3>1, InsufficientIs DEF BlamesWell
  <2>9. p.code = "invalid_bundle" => meddled # {}
    BY <2>5, InvalidIsMeddled
  <2>10. RunMade(c, r)
    BY <1>2, <2>4, <2>5, <2>6, <2>7, <2>8, <2>9 DEF RunMade
  <2>11. ~Writes(r)
    BY <2>4 DEF Writes
  <2>12. QED BY <1>1, <2>3, <2>4, <2>10, <2>11, GoesOn DEF OnDisk
<1>4. CASE ~(Len(runs[c].inputs) < 2)
  <2>1. PICK r : r = [runs[c] EXCEPT !.at = "comparing"]
    OBVIOUS
  <2>2. Becomes(c, r) /\ manifest' = runs[c].taken
    BY <1>4, <2>1 DEF Finish
  <2>3. /\ DOMAIN r = RunFields /\ r.at = "comparing"
        /\ r.order = runs[c].order /\ r.index = runs[c].index /\ r.taken = runs[c].taken
        /\ r.declined = runs[c].declined /\ r.inputs = runs[c].inputs /\ r.payload = runs[c].payload
    BY <1>2, <2>1 DEF RunFields
  <2>4. RunTyped(c, r)
    BY <1>1, <1>2, <2>3 DEF RunTyped, Writes
  <2>5. \A i \in DOMAIN r.taken : ReusedWell(r, r.taken[i])
    BY <1>2, <2>3 DEF RunMade, ReusedWell
  <2>6. RunMade(c, r)
    BY <1>1, <1>2, <2>3, <2>4, <2>5 DEF RunMade, RunTyped, BlamesWell
  <2>7. ~Writes(r) /\ RowsIn(r) \subseteq AllRows
    BY <2>3 DEF Writes, RowsIn, AllRows
  <2>8. Len(runs[c].taken) >= 2
    <3>1. PICK T, I : T = runs[c].taken /\ I = runs[c].inputs
      OBVIOUS
    <3>2. T \in Seq(BundleRows) /\ Len(T) = Len(I) /\ ~(Len(I) < 2)
      BY <1>1, <1>2, <1>4, <3>1 DEF RunTyped
    <3>3. QED BY <3>1, <3>2
  <2>9. QED BY <1>1, <2>2, <2>6, <2>7, <2>8, OneRun
<1>5. QED BY <1>3, <1>4

(* A command that is killed leaves no rows behind.                         *)
LEMMA KillMade ==
  ASSUME GuidesMade, NEW c \in Running, Kill(c)
  PROVE  GuidesMade'
<1>1. PICK r : r = [Unstarted EXCEPT !.at = "killed"]
  OBVIOUS
<1>2. Becomes(c, r) /\ Quietly /\ OnDisk
  BY <1>1 DEF Kill
<1>3. /\ DOMAIN r = RunFields /\ r.at = "killed" /\ r.index = <<>> /\ r.taken = <<>> /\ r.declined = <<>>
      /\ r.inputs = <<>> /\ r.payload = Nothing
  BY <1>1, UnstartedIs DEF RunFields
<1>4. r.index \in Seq(BundleRows) /\ r.inputs \in Seq(Inputs) /\ {r.index[i] : i \in DOMAIN r.index} = {}
  BY <1>3
<1>5. RunMade(c, r) /\ ~Writes(r) /\ RowsIn(r) = {r.index[i] : i \in DOMAIN r.index}
  <2>1. Bare(c, r)
    BY <1>3, <1>4 DEF Bare
  <2>2. QED BY <2>1, BareMade
<1>6. QED BY <1>2, <1>4, <1>5, OneRun DEF OnDisk

(* Nothing that is written down depends on the time.                       *)
LEMMA HourMade ==
  ASSUME GuidesMade, HourPasses, LastHour \in Nat
  PROVE  GuidesMade'
<1>1. UNCHANGED <<manifest, folders, meddled, runs>> /\ hour' = hour + 1 /\ hour < LastHour
  BY DEF HourPasses
<1>2. DiskMade'
  <2>1. hour' \in 0..LastHour
    BY <1>1, StateOfGuides DEF DiskMade
  <2>2. QED BY <1>1, <2>1, StateOfGuides DEF DiskMade
<1>3. AllRows' = AllRows
  BY <1>1 DEF AllRows, RootRows, RowsIn
<1>4. \A row \in AllRows' : NamesWell(row)'
  BY <1>1, <1>3, StateOfGuides DEF NamesWell, Readable, SameBundle
<1>5. ASSUME NEW c \in Running PROVE WriterMade(c)'
  <2>1. WriterMade(c)
    BY StateOfGuides
  <2>2. QED BY <1>1, <1>3, <2>1 DEF WriterMade, Writes, Readable, AtHand, Turn
<1>6. ASSUME NEW c \in Running PROVE RunMade(c, runs[c])'
  <2>1. PICK s : s = runs'[c] /\ RunMade(c, s)
    BY <1>1, StateOfGuides
  <2>2. QED BY <1>1, <2>1, RunStays
<1>7. QED BY <1>2, <1>4, <1>5, <1>6 DEF GuidesMade

(* Something else may write to a bundle: nothing is said of it any more.   *)
LEMMA MeddleMade ==
  ASSUME GuideAssumption, GuidesMade, Meddle
  PROVE  GuidesMade'
<1>1. UNCHANGED <<hour, manifest, runs>> /\ meddled = {}
  BY DEF Meddle
<1>2. PICK d \in Folder :
        /\ Readable(d) /\ meddled' = {d}
        /\ \/ folders' = [folders EXCEPT ![d] = Torn]
           \/ \E g \in Guides[folders[d].provider] : folders' = [folders EXCEPT ![d] = Bundle(folders[d].provider, g, hour)]
  BY DEF Meddle
<1>3. DiskMade
  BY StateOfGuides
<1>4. PICK b \in Bundles \cup {Torn} : folders' = [folders EXCEPT ![d] = b]
  <2>1. CASE folders' = [folders EXCEPT ![d] = Torn]
    BY <2>1
  <2>2. ASSUME NEW g \in Guides[folders[d].provider],
               folders' = [folders EXCEPT ![d] = Bundle(folders[d].provider, g, hour)]
        PROVE  \E b \in Bundles \cup {Torn} : folders' = [folders EXCEPT ![d] = b]
    <3>1. folders[d] \in Bundles
      BY <1>2, <1>3 DEF DiskMade, Readable
    <3>2. folders[d].provider \in DOMAIN Guides /\ g \in DOMAIN Contents /\ hour \in 0..LastHour
      BY <1>3, <2>2, <3>1 DEF Bundles, DiskMade, GuideAssumption
    <3>3. Bundle(folders[d].provider, g, hour) \in Bundles
      BY <3>2 DEF Bundle, Bundles
    <3>4. QED BY <2>2, <3>3
  <2>3. QED BY <1>2, <2>1, <2>2
<1>5. b # Nothing
  BY DEF GuideAssumption, Bundles
<1>6. /\ \A f \in Folder : folders[f] # Nothing => folders'[f] # Nothing
      /\ \A f \in Folder : f \notin meddled' => folders'[f] = folders[f]
  BY <1>2, <1>3, <1>4, <1>5 DEF DiskMade
<1>7. DiskMade'
  BY <1>1, <1>3, <1>4 DEF DiskMade
<1>8. AllRows' = AllRows
  BY <1>1 DEF AllRows, RootRows, RowsIn
<1>9. ASSUME NEW row \in AllRows PROVE NamesWell(row)'
  <2>1. row.folder \in Folder /\ NamesWell(row)
    BY RowsTyped, StateOfGuides DEF BundleRows
  <2>2. QED BY <1>1, <1>6, <2>1 DEF NamesWell, Readable, SameBundle
<1>10. ASSUME NEW c \in Running PROVE WriterMade(c)'
  <2>1. WriterMade(c) /\ (Writes(runs[c]) => runs[c].folder \in Folder) /\ AtHand(c)' = AtHand(c)
    BY <1>1, StateOfGuides DEF RunTyped, AtHand, Turn
  <2>2. runs' = runs
    BY <1>1
  <2>3. CASE ~Writes(runs[c])
    BY <2>2, <2>3 DEF WriterMade, Writes
  <2>4. CASE Writes(runs[c])
    <3>1. folders'[runs[c].folder] # Nothing
      BY <1>6, <2>1, <2>4 DEF WriterMade
    <3>2. runs[c].at = "loading" /\ runs[c].folder \notin meddled' =>
            Readable(runs[c].folder)' /\ folders'[runs[c].folder].provider = AtHand(c)
      BY <1>1, <1>6, <2>1, <2>2, <2>4 DEF WriterMade, Readable
    <3>3. QED BY <1>8, <2>1, <2>2, <2>4, <3>1, <3>2 DEF WriterMade, Writes
  <2>5. QED BY <2>3, <2>4
<1>11. ASSUME NEW c \in Running PROVE RunMade(c, runs[c])'
  <2>1. PICK s : s = runs'[c] /\ RunMade(c, s)
    BY <1>1, StateOfGuides
  <2>2. QED BY <1>1, <2>1, RunStays
<1>12. QED BY <1>7, <1>8, <1>9, <1>10, <1>11 DEF GuidesMade

(* A root that is new, or left by an older version, is in order.           *)
LEMMA GuidesMadeAtFirst ==
  ASSUME GuideAssumption, GuidesInit
  PROVE  GuidesMade
<1>1. hour = 0 /\ meddled = {} /\ runs = [c \in Running |-> Unstarted]
  BY DEF GuidesInit, GuidesOnDisk
<1>2. 0 \in 0..LastHour
  BY DEF GuideAssumption
<1>3. \A c \in Running : runs[c] = Unstarted
  BY <1>1
<1>4. RowsIn(Unstarted) = {}
  BY UnstartedIs DEF RowsIn
<1>5. AllRows = RootRows
  BY <1>3, <1>4 DEF AllRows
<1>6. ASSUME NEW c \in Running PROVE WriterMade(c) /\ RunMade(c, runs[c])
  <2>1. WriterMade(c)
    BY <1>3, UnstartedIs DEF WriterMade, Writes
  <2>2. PICK r : r = Unstarted
    OBVIOUS
  <2>3. /\ DOMAIN r = RunFields
        /\ r.at = "idle" /\ r.index = <<>> /\ r.left = {} /\ r.taken = <<>>
        /\ r.declined = <<>> /\ r.inputs = <<>> /\ r.payload = Nothing
    BY <2>2, UnstartedIs
  <2>4. /\ DOMAIN r.taken = {} /\ DOMAIN r.declined = {} /\ r.taken \in Seq(BundleRows) /\ r.declined \in Seq(Declines)
        /\ r.inputs \in Seq(Inputs) /\ r.index \in Seq(BundleRows)
    BY <2>3
  <2>5. RunTyped(c, r)
    BY <2>3, <2>4 DEF RunTyped, Writes
  <2>6. RunMade(c, r)
    BY <2>3, <2>4, <2>5 DEF RunMade, BlamesWell
  <2>7. QED BY <1>3, <2>1, <2>2, <2>6
<1>7. CASE manifest = Nothing /\ folders = [d \in Folder |-> Nothing]
  <2>1. DiskMade
    BY <1>1, <1>2, <1>7 DEF DiskMade
  <2>2. AllRows = {}
    BY <1>5, <1>7 DEF RootRows
  <2>3. QED BY <1>6, <2>1, <2>2 DEF GuidesMade
<1>8. CASE /\ manifest = [i \in DOMAIN Older |-> OldRow(Older[i].provider, Older[i].guide, i)]
           /\ folders = [d \in Folder |-> IF d \in DOMAIN Older THEN Bundle(Older[d].provider, Older[d].guide, 0) ELSE Nothing]
  <2>1. ASSUME NEW i \in DOMAIN Older
        PROVE  /\ manifest[i] = OldRow(Older[i].provider, Older[i].guide, i) /\ manifest[i] \in BundleRows
               /\ folders[i] = Bundle(Older[i].provider, Older[i].guide, 0) /\ folders[i] \in Bundles /\ i \in Folder
    <3>1. /\ manifest[i] = OldRow(Older[i].provider, Older[i].guide, i) /\ i \in Folder
          /\ folders[i] = Bundle(Older[i].provider, Older[i].guide, 0)
      BY <1>8 DEF GuideAssumption
    <3>2. PICK p, g : p = Older[i].provider /\ g = Older[i].guide
      OBVIOUS
    <3>3. p \in DOMAIN Guides /\ g \in DOMAIN Contents
      BY <3>2 DEF GuideAssumption
    <3>4. Bundle(p, g, 0) \in Bundles
      BY <1>2, <3>3 DEF Bundle, Bundles
    <3>5. OldRow(p, g, i) \in BundleRows
      BY <1>2, <3>1, <3>3 DEF OldRow, BundleRows
    <3>6. QED BY <3>1, <3>2, <3>4, <3>5
  <2>2. PICK n \in Nat : n = Len(Older) /\ n >= 2 /\ DOMAIN Older = 1..n
    BY DEF GuideAssumption
  <2>3. manifest \in Seq(BundleRows) /\ Len(manifest) = n
    <3>1. manifest \in [1..n -> BundleRows]
      BY <1>8, <2>1, <2>2
    <3>2. QED BY <3>1, <2>2
  <2>4. folders \in [Folder -> Bundles \cup {Nothing, Torn}]
    BY <1>8, <2>1
  <2>5. DiskMade
    BY <1>1, <1>2, <2>2, <2>3, <2>4 DEF DiskMade
  <2>6. ASSUME NEW row \in AllRows PROVE NamesWell(row)
    <3>1. PICK i \in DOMAIN Older : row = manifest[i]
      BY <1>5, <1>8 DEF RootRows
    <3>2. PICK p, g : p = Older[i].provider /\ g = Older[i].guide
      OBVIOUS
    <3>3. row = OldRow(p, g, i) /\ folders[i] = Bundle(p, g, 0) /\ folders[i] \in Bundles
      BY <2>1, <3>1, <3>2
    <3>4. row.folder = i /\ row.identity = Nothing /\ row.at = 0 /\ row.provider = p /\ row.guide = g
      BY <3>3 DEF OldRow
    <3>5. folders[i].provider = p /\ folders[i].guide = g /\ folders[i].at = 0
      BY <3>3 DEF Bundle
    <3>6. folders[i] # Nothing /\ folders[i] # Torn
      BY <3>3 DEF GuideAssumption, Bundles
    <3>7. QED BY <3>4, <3>5, <3>6 DEF NamesWell, Readable, SameBundle
  <2>7. QED BY <1>6, <2>5, <2>6 DEF GuidesMade
<1>9. QED BY <1>7, <1>8 DEF GuidesInit, GuidesOnDisk

(* Which builds are handed over: of each bundle its builds, and of each    *)
(* build the bundle that first holds it.                                   *)
LEMMA UrlsAreFinite ==
  ASSUME GuideAssumption, NEW inputs \in Seq(Inputs)
  PROVE  Urls(inputs) \in SUBSET (DOMAIN Reference) /\ IsFiniteSet(Urls(inputs)) /\ Urls(inputs) \in SUBSET Nat
<1>1. \A i \in DOMAIN inputs : Refs(inputs, i) \subseteq DOMAIN Reference
  <2>1. \A i \in DOMAIN inputs : inputs[i].bundle.guide \in DOMAIN Contents
    <3>1. \A x \in Inputs : x.bundle.guide \in DOMAIN Contents
      BY DEF Inputs, Bundles
    <3>2. QED BY <3>1
  <2>2. QED BY <2>1 DEF Refs, Of, GuideAssumption
<1>2. Urls(inputs) \in SUBSET (DOMAIN Reference)
  BY <1>1 DEF Urls
<1>3. IsFiniteSet(Urls(inputs))
  BY <1>2, FS_Subset, Zenon DEF GuideAssumption
<1>4. QED BY <1>2, <1>3 DEF GuideAssumption

(* A build has a first bundle.                                             *)
LEMMA FirstWithIs ==
  ASSUME GuideAssumption, NEW inputs \in Seq(Inputs), NEW u \in Urls(inputs)
  PROVE  FirstWith(inputs, u) \in Nat
<1>1. PICK n \in Nat : n = Len(inputs) /\ DOMAIN inputs = 1..n
  OBVIOUS
<1>2. PICK S : S = {i \in DOMAIN inputs : u \in Refs(inputs, i)}
  OBVIOUS
<1>3. S # {} /\ S \in SUBSET (1..n)
  BY <1>1, <1>2 DEF Urls
<1>4. IsFiniteSet(S) /\ S \in SUBSET Nat
  <2>1. IsFiniteSet(1..n)
    BY FS_Interval
  <2>2. IsFiniteSet(S)
    BY <2>1, <1>3, FS_Subset, Zenon
  <2>3. QED BY <2>2, <1>3
<1>5. PICK i \in S : \A j \in S : i <= j
  BY <1>3, <1>4, LeastAndGreatest
<1>6. i \in DOMAIN inputs /\ u \in Refs(inputs, i) /\ \A j \in DOMAIN inputs : u \in Refs(inputs, j) => i <= j
  BY <1>2, <1>5
<1>7. FirstWith(inputs, u) \in DOMAIN inputs
  BY <1>6 DEF FirstWith
<1>8. QED BY <1>1, <1>7

(* As many builds are chosen as the limit lets through, or all of them.    *)
LEMMA ChosenIs ==
  ASSUME GuideAssumption, NEW inputs \in Seq(Inputs), NEW n \in Nat
  PROVE  /\ Chosen(inputs, n) \in SUBSET Urls(inputs)
         /\ Cardinality(Chosen(inputs, n)) = IF n < Cardinality(Urls(inputs)) THEN n ELSE Cardinality(Urls(inputs))
<1>1. PICK U : U = Urls(inputs)
  OBVIOUS
<1>2. IsFiniteSet(U) /\ U \in SUBSET Nat
  BY <1>1, UrlsAreFinite
<1>3. PICK first : first = [u \in U |-> FirstWith(inputs, u)]
  OBVIOUS
<1>4. DOMAIN first = U /\ \A u \in U : first[u] \in Nat
  BY <1>1, <1>3, FirstWithIs
<1>5. PICK rank : rank = [u \in U |-> Cardinality({v \in U : v < u /\ first[v] = first[u]})]
  OBVIOUS
<1>6. ASSUME NEW u \in U
      PROVE  IsFiniteSet({v \in U : v < u /\ first[v] = first[u]}) /\ rank[u] \in Nat
  <2>1. PICK B : B = {v \in U : v < u /\ first[v] = first[u]}
    OBVIOUS
  <2>2. B \in SUBSET U /\ rank[u] = Cardinality(B)
    BY <1>5, <2>1
  <2>3. IsFiniteSet(B)
    BY <1>2, <2>2, FS_Subset, Zenon
  <2>4. QED BY <2>1, <2>2, <2>3, FS_CardinalityType
<1>7. ASSUME NEW u \in U, NEW v \in U, first[u] = first[v], u < v
      PROVE  rank[u] < rank[v]
  <2>1. PICK B, D : /\ B = {w \in U : w < u /\ first[w] = first[u]}
                    /\ D = {w \in U : w < v /\ first[w] = first[v]}
    OBVIOUS
  <2>2. B \in SUBSET D /\ u \in D /\ u \notin B
    <3>1. u \in Nat /\ v \in Nat /\ \A w \in U : w \in Nat
      BY <1>2
    <3>2. \A w \in U : w < u => w < v
      BY <3>1, <1>7
    <3>3. B \in SUBSET D
      BY <1>7, <2>1, <3>2
    <3>4. u \in D
      BY <1>7, <2>1
    <3>5. u \notin B
      BY <2>1, <3>1
    <3>6. QED BY <3>3, <3>4, <3>5
  <2>3. IsFiniteSet(D) /\ rank[u] = Cardinality(B) /\ rank[v] = Cardinality(D)
    BY <1>5, <1>6, <2>1
  <2>4. Cardinality(B) <= Cardinality(D) /\ (Cardinality(D) = Cardinality(B) => D = B)
    BY <2>2, <2>3, FS_Subset, Zenon
  <2>5. Cardinality(B) # Cardinality(D)
    BY <2>2, <2>4
  <2>6. rank[u] \in Nat /\ rank[v] \in Nat
    BY <1>6
  <2>7. rank[u] <= rank[v] /\ rank[u] # rank[v]
    BY <2>3, <2>4, <2>5
  <2>8. QED BY <2>6, <2>7
<1>8. PICK R : R = {p \in U \X U : rank[p[1]] < rank[p[2]] \/ (rank[p[1]] = rank[p[2]] /\ first[p[1]] < first[p[2]])}
  OBVIOUS
<1>9. \A u, v \in U : <<u, v>> \in R <=> rank[u] < rank[v] \/ (rank[u] = rank[v] /\ first[u] < first[v])
  BY <1>8
<1>10. /\ \A u, v \in U : u # v => <<u, v>> \in R \/ <<v, u>> \in R
       /\ \A u, v \in U : ~(<<u, v>> \in R /\ <<v, u>> \in R)
       /\ \A u, v, w \in U : <<u, v>> \in R /\ <<v, w>> \in R => <<u, w>> \in R
  <2>1. ASSUME NEW u \in U, NEW v \in U, u # v PROVE <<u, v>> \in R \/ <<v, u>> \in R
    <3>1. u \in Nat /\ v \in Nat /\ rank[u] \in Nat /\ rank[v] \in Nat /\ first[u] \in Nat /\ first[v] \in Nat
      BY <1>2, <1>4, <1>6
    <3>2. first[u] # first[v] \/ rank[u] # rank[v]
      <4>1. u < v \/ v < u
        BY <2>1, <3>1
      <4>2. CASE u < v
        BY <4>2, <3>1, <1>7
      <4>3. CASE v < u
        BY <4>3, <3>1, <1>7
      <4>4. QED BY <4>1, <4>2, <4>3
    <3>3. QED BY <1>9, <3>1, <3>2
  <2>2. ASSUME NEW u \in U, NEW v \in U PROVE ~(<<u, v>> \in R /\ <<v, u>> \in R)
    <3>1. rank[u] \in Nat /\ rank[v] \in Nat /\ first[u] \in Nat /\ first[v] \in Nat
      BY <1>4, <1>6
    <3>2. QED BY <1>9, <3>1
  <2>3. ASSUME NEW u \in U, NEW v \in U, NEW w \in U, <<u, v>> \in R, <<v, w>> \in R PROVE <<u, w>> \in R
    <3>1. /\ rank[u] \in Nat /\ rank[v] \in Nat /\ rank[w] \in Nat
          /\ first[u] \in Nat /\ first[v] \in Nat /\ first[w] \in Nat
      BY <1>4, <1>6
    <3>2. QED BY <1>9, <2>3, <3>1
  <2>4. QED BY <2>1, <2>2, <2>3
<1>11. PICK T : T = Foremost(U, R, n)
  OBVIOUS
<1>12. Cardinality(T) = IF n < Cardinality(U) THEN n ELSE Cardinality(U)
  <2>1. InLine(U, R)
    BY <1>10 DEF InLine
  <2>2. QED BY <1>2, <1>11, <2>1, FirstInOrder
<1>13. Chosen(inputs, n) = T
  <2>1. Chosen(inputs, n) =
          {u \in U : Cardinality({v \in U : rank[v] < rank[u] \/ (rank[v] = rank[u] /\ first[v] < first[u])}) < n}
    BY <1>1, <1>3, <1>4, <1>5 DEF Chosen
  <2>2. \A u \in U : {v \in U : rank[v] < rank[u] \/ (rank[v] = rank[u] /\ first[v] < first[u])} = {v \in U : <<v, u>> \in R}
    BY <1>9
  <2>3. QED BY <1>11, <2>1, <2>2 DEF Foremost
<1>14. QED BY <1>1, <1>11, <1>12, <1>13 DEF Foremost

(* A command with its bundles alone.                                       *)
LEMMA WithBundlesIs ==
  ASSUME NEW c, NEW inputs, NEW phase, NEW payload, NEW r, r = WithBundles(c, inputs, phase, payload)
  PROVE  /\ DOMAIN r = RunFields /\ r.at = phase /\ r.order = runs[c].order /\ r.index = <<>>
         /\ r.taken = <<>> /\ r.declined = <<>> /\ r.inputs = inputs /\ r.payload = payload
BY DEF WithBundles, Unstarted, RunFields

(* A command that has nothing left but bundles and what it tells of them.  *)
LEMMA WithBundlesMade ==
  ASSUME GuidesMade, NEW c \in Running, runs[c].order \in Orders[c], NEW inputs \in Seq(Inputs),
         NEW phase \in {"told", "handing"}, NEW payload, NEW r, r = WithBundles(c, inputs, phase, payload),
         payload.code # "invalid_bundle",
         phase = "handing" => payload.status = "-" /\ payload.code = "-" /\ Accounted(r),
         payload.status # "-" => Accounted(r) /\ SimcTold(r),
         Becomes(c, r), OnDisk, Quietly
  PROVE  GuidesMade'
<1>1. /\ DOMAIN r = RunFields /\ r.at = phase /\ r.order = runs[c].order /\ r.index = <<>>
      /\ r.taken = <<>> /\ r.declined = <<>> /\ r.inputs = inputs /\ r.payload = payload
  BY WithBundlesIs
<1>2. r.index \in Seq(BundleRows) /\ r.inputs \in Seq(Inputs) /\ {r.index[i] : i \in DOMAIN r.index} = {}
  BY <1>1
<1>3. RunMade(c, r) /\ ~Writes(r) /\ RowsIn(r) = {r.index[i] : i \in DOMAIN r.index}
  <2>1. Bare(c, r)
    BY <1>1, <1>2 DEF Bare
  <2>2. QED BY <2>1, BareMade
<1>4. QED BY <1>2, <1>3, OneRun DEF OnDisk

(* The builds handed over, excluded and left out are all that there are.   *)
LEMMA PickBuildsMade ==
  ASSUME GuideAssumption, GuidesMade, NEW c \in Running, runs[c].order \in Orders[c], NEW inputs \in Seq(Inputs),
         PickBuilds(c, inputs), OnDisk, Quietly
  PROVE  GuidesMade'
<1>1. PICK n : n = runs[c].order.limit
  OBVIOUS
<1>2. n \in Nat
  BY <1>1 DEF GuideAssumption
<1>3. PICK U, C : U = Urls(inputs) /\ C = Chosen(inputs, n)
  OBVIOUS
<1>4. /\ C \in SUBSET U /\ IsFiniteSet(U)
      /\ Cardinality(C) = IF n < Cardinality(U) THEN n ELSE Cardinality(U)
  BY <1>2, <1>3, ChosenIs, UrlsAreFinite
<1>5. IsFiniteSet(C) /\ Cardinality(C) \in Nat /\ Cardinality(U) \in Nat
  <2>1. IsFiniteSet(C)
    BY <1>4, FS_Subset, Zenon
  <2>2. QED BY <1>4, <2>1, FS_CardinalityType
<1>6. PICK H, X : H = {u \in C : Usable(u)} /\ X = C \ H
  OBVIOUS
<1>7. Cardinality(H) + Cardinality(X) = Cardinality(C) /\ H \cup X = C
  <2>1. H \in SUBSET C /\ H \cup X = C /\ H \cap X = {}
    BY <1>6
  <2>2. IsFiniteSet(H) /\ IsFiniteSet(X)
    <3>1. X \in SUBSET C
      BY <1>6
    <3>2. QED BY <2>1, <3>1, <1>5, FS_Subset, Zenon
  <2>3. Cardinality(H \cup X) = Cardinality(H) + Cardinality(X) - Cardinality(H \cap X)
    BY <2>2, FS_Union
  <2>4. Cardinality(H \cap X) = 0 /\ Cardinality(H) \in Nat /\ Cardinality(X) \in Nat
    BY <2>1, <2>2, FS_EmptySet, FS_CardinalityType
  <2>5. Cardinality(C) = Cardinality(H) + Cardinality(X) - Cardinality(H \cap X)
    BY <2>1, <2>3
  <2>6. QED BY <2>1, <2>4, <2>5
<1>8. PICK p : p = [code |-> "-", status |-> "-", handed |-> H, excluded |-> X,
                    truncated |-> Cardinality(U) - Cardinality(C)]
  OBVIOUS
<1>9. PICK r : r = WithBundles(c, inputs, "handing", p)
  OBVIOUS
<1>10. Becomes(c, r)
  BY <1>1, <1>3, <1>6, <1>8, <1>9 DEF PickBuilds
<1>11. /\ r.order = runs[c].order /\ r.inputs = inputs /\ r.payload = p
  BY <1>9, WithBundlesIs
<1>12. /\ p.code = "-" /\ p.status = "-" /\ p.handed = H /\ p.excluded = X
       /\ p.truncated = Cardinality(U) - Cardinality(C)
  BY <1>8
<1>13. Accounted(r)
  <2>1. Cardinality(H) + Cardinality(X) + p.truncated = Cardinality(U)
    <3>1. PICK h, x, k, m : h = Cardinality(H) /\ x = Cardinality(X) /\ k = Cardinality(C) /\ m = Cardinality(U)
      OBVIOUS
    <3>2. h \in Nat /\ x \in Nat
      <4>1. H \in SUBSET C /\ X \in SUBSET C
        BY <1>6
      <4>2. IsFiniteSet(H) /\ IsFiniteSet(X)
        BY <4>1, <1>5, FS_Subset, Zenon
      <4>3. QED BY <3>1, <4>2, FS_CardinalityType
    <3>3. h + x + (m - k) = m
      BY <3>1, <3>2, <1>5, <1>7
    <3>4. QED BY <3>1, <3>3, <1>12
  <2>2. p.truncated > 0 => Cardinality(H \cup X) = n
    <3>1. PICK k, m : k = Cardinality(C) /\ m = Cardinality(U)
      OBVIOUS
    <3>2. k \in Nat /\ m \in Nat /\ (k = IF n < m THEN n ELSE m) /\ p.truncated = m - k
      BY <3>1, <1>4, <1>5, <1>12
    <3>3. p.truncated > 0 => k = n
      BY <1>2, <3>2
    <3>4. QED BY <3>1, <3>3, <1>7
  <2>3. \A u \in H : ~Reference[u].forever
    BY <1>6 DEF Usable
  <2>4. QED BY <1>1, <1>3, <1>11, <1>12, <2>1, <2>2, <2>3 DEF Accounted
<1>14. QED BY <1>9, <1>10, <1>12, <1>13, WithBundlesMade

(* What the word for the outcome says of the builds.                       *)
StatusTold(status, handed, legs, ok) ==
  /\ (status = "ok") = (handed # {} /\ \A u \in handed, l \in legs : ok[u][l])
  /\ (status = "all_handoffs_failed") = (handed # {} /\ \A u \in handed, l \in legs : ~ok[u][l])
  /\ status = "partial" => \A l \in legs : \E u \in handed : ok[u][l]

(* What is told of the builds is what became of them.                      *)
LEMMA StatusIs ==
  ASSUME NEW chosen, NEW handed \in SUBSET chosen, NEW legs, legs # {}, NEW ok \in [handed -> [legs -> BOOLEAN]],
         NEW status, status = Status(chosen, legs, handed, ok)
  PROVE  StatusTold(status, handed, legs, ok)
<1>1. PICK good : good = [l \in legs |-> {u \in handed : ok[u][l]}]
  OBVIOUS
<1>2. \A l \in legs : \A u \in handed : u \in good[l] <=> ok[u][l]
  BY <1>1, Zenon
<1>3. \A l \in legs : good[l] \in SUBSET handed
  BY <1>1, Zenon
<1>4. PICK none : none = {l \in legs : good[l] = {}}
  OBVIOUS
<1>5. status = IF chosen = {} THEN "no_build_references"
               ELSE IF handed = {} THEN "all_references_excluded"
               ELSE IF none = legs THEN "all_handoffs_failed"
               ELSE IF none # {} THEN "failed"
               ELSE IF \A l \in legs : good[l] = handed THEN "ok" ELSE "partial"
  <2>1. \A l \in legs : good[l] = {u \in handed : ok[u][l]}
    BY <1>1
  <2>2. none = {l \in legs : {u \in handed : ok[u][l]} = {}}
    BY <1>4, <2>1
  <2>3. (\A l \in legs : good[l] = handed) <=> (\A l \in legs : {u \in handed : ok[u][l]} = handed)
    BY <2>1
  <2>4. QED BY <2>2, <2>3 DEF Status
<1>6. (\A u \in handed, l \in legs : ok[u][l]) <=> (\A l \in legs : good[l] = handed)
  <2>1. (\A u \in handed, l \in legs : ok[u][l]) <=> (\A l \in legs : \A u \in handed : u \in good[l])
    BY <1>2, Zenon
  <2>2. QED BY <2>1, <1>3
<1>7. (\A u \in handed, l \in legs : ~ok[u][l]) <=> (\A l \in legs : good[l] = {})
  <2>1. (\A u \in handed, l \in legs : ~ok[u][l]) <=> (\A l \in legs : \A u \in handed : u \notin good[l])
    BY <1>2, Zenon
  <2>2. QED BY <2>1, <1>3
<1>8. (\A l \in legs : \E u \in handed : ok[u][l]) <=> (\A l \in legs : good[l] # {})
  <2>1. (\A l \in legs : \E u \in handed : ok[u][l]) <=> (\A l \in legs : \E u \in handed : u \in good[l])
    BY <1>2, Zenon
  <2>2. QED BY <2>1, <1>3
<1>9. (status = "ok") = (handed # {} /\ \A l \in legs : good[l] = handed)
  BY <1>3, <1>4, <1>5
<1>10. (status = "all_handoffs_failed") = (handed # {} /\ \A l \in legs : good[l] = {})
  BY <1>3, <1>4, <1>5
<1>11. status = "partial" => \A l \in legs : good[l] # {}
  BY <1>3, <1>4, <1>5
<1>12. QED BY <1>6, <1>7, <1>8, <1>9, <1>10, <1>11, Zenon DEF StatusTold

(* What simc made of the builds is added to their account.                 *)
LEMMA HandOffMade ==
  ASSUME GuideAssumption, GuidesMade, NEW c \in Running, HandOff(c)
  PROVE  GuidesMade'
<1>1. runs[c].at = "handing" /\ Quietly /\ OnDisk
  BY DEF HandOff
<1>2. PICK p, legs, I, order : p = runs[c].payload /\ order = runs[c].order /\ legs = Legs(order) /\ I = runs[c].inputs
  OBVIOUS
<1>3. PICK ok \in [p.handed -> [legs -> BOOLEAN]] :
        LET status == Status(p.handed \cup p.excluded, legs, p.handed, ok)
        IN  Becomes(c, WithBundles(c, I, "told",
              [code |-> IF status = "all_handoffs_failed" THEN "simc_handoff_failed" ELSE "-", status |-> status,
               handed |-> p.handed, excluded |-> p.excluded, truncated |-> p.truncated, ok |-> ok]))
  BY <1>2 DEF HandOff
<1>4. RunMade(c, runs[c]) /\ order \in Orders[c] /\ I \in Seq(Inputs)
  BY <1>1, <1>2, StateOfGuides DEF RunTyped
<1>5. PICK H, X, t : H = p.handed /\ X = p.excluded /\ t = p.truncated
  OBVIOUS
<1>6. /\ Cardinality(H) + Cardinality(X) + t = Cardinality(Urls(I))
      /\ t > 0 => Cardinality(H \cup X) = order.limit
      /\ \A u \in H : ~Reference[u].forever
  BY <1>1, <1>2, <1>4, <1>5 DEF RunMade, Accounted
<1>7. PICK status : status = Status(H \cup X, legs, H, ok)
  OBVIOUS
<1>8. PICK code : code = IF status = "all_handoffs_failed" THEN "simc_handoff_failed" ELSE "-"
  OBVIOUS
<1>9. PICK q : q = [code |-> code, status |-> status, handed |-> H, excluded |-> X, truncated |-> t, ok |-> ok]
  OBVIOUS
<1>10. PICK r : r = WithBundles(c, I, "told", q)
  OBVIOUS
<1>11. Becomes(c, r)
  BY <1>3, <1>5, <1>7, <1>8, <1>9, <1>10
<1>12. r.order = order /\ r.inputs = I /\ r.payload = q
  BY <1>2, <1>10, WithBundlesIs
<1>13. q.code = code /\ q.status = status /\ q.handed = H /\ q.excluded = X /\ q.truncated = t /\ q.ok = ok
  BY <1>9
<1>14. Accounted(r)
  BY <1>6, <1>12, <1>13 DEF Accounted
<1>15. legs # {}
  <2>1. "identify" \in legs
    BY <1>2 DEF Legs
  <2>2. QED BY <2>1
<1>16. StatusTold(status, H, legs, ok)
  <2>1. H \in SUBSET (H \cup X) /\ ok \in [H -> [legs -> BOOLEAN]]
    BY <1>5
  <2>2. QED BY <2>1, <1>7, <1>15, StatusIs
<1>17. (code = "simc_handoff_failed") = (status = "all_handoffs_failed") /\ code # "invalid_bundle"
  BY <1>8
<1>18. SimcTold(r)
  BY <1>2, <1>12, <1>13, <1>16, <1>17, Zenon DEF SimcTold, StatusTold
<1>19. QED BY <1>1, <1>2, <1>4, <1>10, <1>11, <1>13, <1>14, <1>17, <1>18, WithBundlesMade

(* A comparison tells, or goes on to the builds.                           *)
LEMMA CompareBundlesMade ==
  ASSUME GuideAssumption, GuidesMade, NEW c \in Running, CompareBundles(c)
  PROVE  GuidesMade'
<1>1. runs[c].at = "comparing" /\ Quietly /\ OnDisk
  BY DEF CompareBundles
<1>2. PICK I : I = runs[c].inputs
  OBVIOUS
<1>3. runs[c].order \in Orders[c] /\ I \in Seq(Inputs)
  BY <1>1, <1>2, StateOfGuides DEF RunTyped
<1>4. CASE runs[c].order.simc
  <2>1. PickBuilds(c, I)
    BY <1>2, <1>4 DEF CompareBundles
  <2>2. QED BY <1>1, <1>3, <2>1, PickBuildsMade
<1>5. CASE ~runs[c].order.simc
  <2>1. PICK p : p = [code |-> "-", status |-> "-", fresh |-> Freshness(I), shared |-> Shared(I)]
    OBVIOUS
  <2>2. PICK r : r = WithBundles(c, I, "told", p)
    OBVIOUS
  <2>3. Becomes(c, r)
    BY <1>2, <1>5, <2>1, <2>2 DEF CompareBundles
  <2>4. p.code = "-" /\ p.status = "-"
    BY <2>1
  <2>5. QED BY <1>1, <1>3, <2>2, <2>3, <2>4, WithBundlesMade
<1>6. QED BY <1>4, <1>5

(* The builds of a root are read from its rows.                            *)
LEMMA StartBuildsMade ==
  ASSUME GuideAssumption, GuidesMade, NEW c \in Running, StartBuilds(c)
  PROVE  GuidesMade'
<1>1. PICK order \in Orders[c] :
        Becomes(c, IF manifest = Nothing THEN [Tells("not_found") EXCEPT !.order = order]
                   ELSE [Unstarted EXCEPT !.at = "reading", !.order = order, !.index = manifest])
  BY DEF StartBuilds
<1>2. Quietly /\ OnDisk
  BY DEF StartBuilds
<1>3. CASE manifest = Nothing
  <2>1. PICK r : r = [Tells("not_found") EXCEPT !.order = order]
    OBVIOUS
  <2>2. Becomes(c, r)
    BY <1>1, <1>3, <2>1
  <2>3. /\ DOMAIN r = RunFields /\ r.at = "told" /\ r.order = order
        /\ r.index = <<>> /\ r.taken = <<>> /\ r.declined = <<>> /\ r.inputs = <<>>
        /\ r.payload.code = "not_found" /\ r.payload.status = "-"
    BY <2>1 DEF Tells, Unstarted, RunFields
  <2>4. r.index \in Seq(BundleRows) /\ r.inputs \in Seq(Inputs) /\ {r.index[i] : i \in DOMAIN r.index} = {}
    BY <2>3
  <2>5. Bare(c, r)
    BY <2>3, <2>4 DEF Bare
  <2>6. RunMade(c, r) /\ ~Writes(r) /\ RowsIn(r) = {}
    <3>1. RunMade(c, r) /\ ~Writes(r) /\ RowsIn(r) = {r.index[i] : i \in DOMAIN r.index}
      BY <2>5, BareMade
    <3>2. QED BY <2>4, <3>1
  <2>7. QED BY <1>2, <2>2, <2>6, OneRun DEF OnDisk
<1>4. CASE manifest # Nothing
  <2>1. PICK r : r = [Unstarted EXCEPT !.at = "reading", !.order = order, !.index = manifest]
    OBVIOUS
  <2>2. Becomes(c, r)
    BY <1>1, <1>4, <2>1
  <2>3. PICK M : M = manifest
    OBVIOUS
  <2>4. M \in Seq(BundleRows) /\ Len(M) >= 2 /\ {M[i] : i \in DOMAIN M} \subseteq AllRows
    BY <1>4, <2>3, StateOfGuides DEF DiskMade, RootRows, AllRows
  <2>5. /\ DOMAIN r = RunFields /\ r.at = "reading" /\ r.order = order /\ r.index = M
        /\ r.taken = <<>> /\ r.declined = <<>> /\ r.inputs = <<>> /\ r.payload = Nothing
    BY <2>1, <2>3, UnstartedIs DEF RunFields
  <2>6. r.inputs \in Seq(Inputs) /\ Len(r.inputs) < Len(r.index)
    BY <2>4, <2>5
  <2>7. Bare(c, r)
    BY <2>4, <2>5, <2>6 DEF Bare
  <2>8. RunMade(c, r) /\ ~Writes(r) /\ RowsIn(r) \subseteq AllRows
    <3>1. RunMade(c, r) /\ ~Writes(r) /\ RowsIn(r) = {r.index[i] : i \in DOMAIN r.index}
      BY <2>7, BareMade
    <3>2. QED BY <2>4, <2>5, <3>1
  <2>9. QED BY <1>2, <2>2, <2>8, OneRun DEF OnDisk
<1>5. QED BY <1>3, <1>4

(* A bundle of the root that cannot be read was meddled with.              *)
LEMMA ReadBundleMade ==
  ASSUME GuideAssumption, GuidesMade, NEW c \in Running, ReadBundle(c)
  PROVE  GuidesMade'
<1>1. runs[c].at = "reading" /\ Quietly /\ OnDisk
  BY DEF ReadBundle
<1>2. PICK I, X, order : I = runs[c].inputs /\ X = runs[c].index /\ order = runs[c].order
  OBVIOUS
<1>3. /\ I \in Seq(Inputs) /\ X \in Seq(BundleRows) /\ Len(I) < Len(X) /\ order \in Orders[c] /\ runs[c].payload = Nothing
      /\ DOMAIN runs[c] = RunFields /\ RunMade(c, runs[c])
  BY <1>1, <1>2, StateOfGuides DEF RunTyped
<1>4. PICK k : k = Len(I) + 1
  OBVIOUS
<1>5. k \in DOMAIN X
  BY <1>3, <1>4
<1>6. PICK row : row = X[k]
  OBVIOUS
<1>7. row \in AllRows /\ row \in BundleRows
  <2>1. row \in RowsIn(runs[c])
    BY <1>2, <1>5, <1>6 DEF RowsIn
  <2>2. row \in AllRows
    BY <2>1 DEF AllRows
  <2>3. QED BY <2>2, RowsTyped
<1>8. PICK d, J : d = row.folder /\ J = Append(I, [folder |-> d, bundle |-> folders[d]])
  OBVIOUS
<1>9. IF ~Readable(d) THEN Becomes(c, [Tells("invalid_bundle") EXCEPT !.order = order])
      ELSE IF Len(J) < Len(X) THEN Becomes(c, [runs[c] EXCEPT !.inputs = J])
      ELSE PickBuilds(c, J)
  BY <1>2, <1>4, <1>6, <1>8 DEF ReadBundle
<1>10. CASE ~Readable(d)
  <2>1. PICK r : r = [Tells("invalid_bundle") EXCEPT !.order = order]
    OBVIOUS
  <2>2. /\ DOMAIN r = RunFields /\ r.at = "told" /\ r.order = order
        /\ r.index = <<>> /\ r.taken = <<>> /\ r.declined = <<>> /\ r.inputs = <<>>
        /\ r.payload.code = "invalid_bundle" /\ r.payload.status = "-"
    BY <2>1 DEF Tells, Unstarted, RunFields
  <2>3. meddled # {}
    BY <1>7, <1>8, <1>10, StateOfGuides DEF NamesWell
  <2>4. r.index \in Seq(BundleRows) /\ r.inputs \in Seq(Inputs) /\ {r.index[i] : i \in DOMAIN r.index} = {}
    BY <2>2
  <2>5. Bare(c, r)
    BY <1>3, <2>2, <2>3, <2>4 DEF Bare
  <2>6. RunMade(c, r) /\ ~Writes(r) /\ RowsIn(r) = {}
    <3>1. RunMade(c, r) /\ ~Writes(r) /\ RowsIn(r) = {r.index[i] : i \in DOMAIN r.index}
      BY <2>5, BareMade
    <3>2. QED BY <2>4, <3>1
  <2>7. QED BY <1>1, <1>9, <1>10, <2>1, <2>6, OneRun DEF OnDisk
<1>11. CASE Readable(d)
  <2>1. J \in Seq(Inputs)
    <3>1. d \in Folder /\ folders[d] \in Bundles
      BY <1>7, <1>8, <1>11, StateOfGuides DEF DiskMade, Readable, BundleRows
    <3>2. [folder |-> d, bundle |-> folders[d]] \in Inputs
      BY <3>1 DEF Inputs
    <3>3. QED BY <1>3, <1>8, <3>2
  <2>2. CASE Len(J) < Len(X)
    <3>1. PICK r : r = [runs[c] EXCEPT !.inputs = J]
      OBVIOUS
    <3>2. /\ DOMAIN r = RunFields /\ r.at = "reading" /\ r.order = order /\ r.index = X /\ r.inputs = J
          /\ r.taken = runs[c].taken /\ r.declined = runs[c].declined /\ r.payload = Nothing
      BY <1>1, <1>2, <1>3, <3>1 DEF RunFields
    <3>3. RunTyped(c, r)
      BY <1>3, <2>1, <2>2, <3>2, StateOfGuides DEF RunTyped, Writes
    <3>4. \A i \in DOMAIN r.taken : ReusedWell(r, r.taken[i])
      BY <1>2, <1>3, <3>2 DEF RunMade, ReusedWell
    <3>5. RunMade(c, r)
      BY <1>3, <3>2, <3>3, <3>4 DEF RunMade, BlamesWell
    <3>6. ~Writes(r)
      BY <3>2 DEF Writes
    <3>7. QED BY <1>1, <1>2, <1>9, <1>11, <2>2, <3>1, <3>2, <3>5, <3>6, GoesOn
  <2>3. CASE ~(Len(J) < Len(X))
    <3>1. PickBuilds(c, J)
      BY <1>9, <1>11, <2>3
    <3>2. QED BY <1>1, <1>2, <1>3, <2>1, <3>1, PickBuildsMade
  <2>4. QED BY <2>2, <2>3
<1>12. QED BY <1>10, <1>11

(* Whatever the commands do, and whatever is done to their bundles, the    *)
(* root, the folders and the commands stay in order.                       *)
THEOREM GuidesAlwaysMade == GuidesSpec => []GuidesMade
<1>1. GuidesInit => GuidesMade
  BY GuideAssumption, GuidesMadeAtFirst
<1>2. GuidesMade /\ [GuidesNext]_guiding => GuidesMade'
  <2> SUFFICES ASSUME GuidesMade, [GuidesNext]_guiding PROVE GuidesMade'
    OBVIOUS
  <2> USE GuideAssumption
  <2>1. CASE UNCHANGED guiding
    <3>1. UNCHANGED <<hour, manifest, folders, meddled, runs>>
      BY <2>1 DEF guiding
    <3>2. DiskMade'
      BY <3>1, StateOfGuides DEF DiskMade
    <3>3. AllRows' = AllRows
      BY <3>1 DEF AllRows, RootRows, RowsIn
    <3>4. \A row \in AllRows' : NamesWell(row)'
      BY <3>1, <3>3, StateOfGuides DEF NamesWell, Readable, SameBundle
    <3>5. ASSUME NEW c \in Running PROVE WriterMade(c)'
      <4>1. WriterMade(c)
        BY StateOfGuides
      <4>2. QED BY <3>1, <3>3, <4>1 DEF WriterMade, Writes, Readable, AtHand, Turn
    <3>6. ASSUME NEW c \in Running PROVE RunMade(c, runs[c])'
      <4>1. PICK s : s = runs'[c] /\ RunMade(c, s)
        BY <3>1, StateOfGuides
      <4>2. QED BY <3>1, <4>1, RunStays
    <3>7. QED BY <3>2, <3>4, <3>5, <3>6 DEF GuidesMade
  <2>2. CASE HourPasses
    <3>1. LastHour \in Nat
      BY DEF GuideAssumption
    <3>2. QED BY <2>2, <3>1, HourMade
  <2>3. CASE Meddle
    BY <2>3, MeddleMade
  <2>4. ASSUME NEW c \in Running, StartQuery(c) PROVE GuidesMade'
    BY <2>4, StartQueryMade
  <2>5. ASSUME NEW c \in Running, FindGuide(c) PROVE GuidesMade'
    BY <2>5, FindGuideMade
  <2>6. ASSUME NEW c \in Running, ReuseOrExport(c) PROVE GuidesMade'
    BY <2>6, ReuseOrExportMade
  <2>7. ASSUME NEW c \in Running, Export(c) PROVE GuidesMade'
    BY <2>7, ExportMade
  <2>8. ASSUME NEW c \in Running, LoadExport(c) PROVE GuidesMade'
    BY <2>8, LoadExportMade
  <2>9. ASSUME NEW c \in Running, Finish(c) PROVE GuidesMade'
    BY <2>9, FinishMade
  <2>10. ASSUME NEW c \in Running, CompareBundles(c) PROVE GuidesMade'
    BY <2>10, CompareBundlesMade
  <2>11. ASSUME NEW c \in Running, StartBuilds(c) PROVE GuidesMade'
    BY <2>11, StartBuildsMade
  <2>12. ASSUME NEW c \in Running, ReadBundle(c) PROVE GuidesMade'
    BY <2>12, ReadBundleMade
  <2>13. ASSUME NEW c \in Running, HandOff(c) PROVE GuidesMade'
    BY <2>13, HandOffMade
  <2>14. ASSUME NEW c \in Running, Kill(c) PROVE GuidesMade'
    BY <2>14, KillMade
  <2>15. QED BY <2>1, <2>2, <2>3, <2>4, <2>5, <2>6, <2>7, <2>8, <2>9, <2>10, <2>11, <2>12, <2>13, <2>14
            DEF GuidesNext, GuideCommands, GuideSurroundings
<1>3. QED BY <1>1, <1>2, PTL DEF GuidesSpec

(* What a guide comparison leaves and tells: the root names at least two   *)
(* bundles, whole and the ones that were compared, a bundle that is reused *)
(* is a current one, an outage is never told as absence, and the account of *)
(* the builds is complete (guide_compare.py).                              *)
THEOREM GuidesAlwaysHold == GuidesSpec => []GuidesHold
<1>1. GuidesMade => GuidesHold
  <2> SUFFICES ASSUME GuidesMade PROVE GuidesHold
    OBVIOUS
  <2>1. RootHolds
    <3>1. ASSUME manifest # Nothing
          PROVE  /\ Len(manifest) >= 2
                 /\ \A i \in DOMAIN manifest :
                      manifest[i].folder \notin meddled =>
                        /\ Readable(manifest[i].folder) /\ SameBundle(folders[manifest[i].folder], manifest[i])
                        /\ manifest[i].at = folders[manifest[i].folder].at
      <4>1. \A i \in DOMAIN manifest : NamesWell(manifest[i])
        BY <3>1, StateOfGuides DEF RootRows, AllRows
      <4>2. QED BY <3>1, <4>1, StateOfGuides DEF NamesWell, DiskMade
    <3>2. \A c \in Running : runs[c].payload # Nothing /\ runs[c].payload.code = "invalid_bundle" => meddled # {}
      BY StateOfGuides DEF RunMade
    <3>3. QED BY <3>1, <3>2 DEF RootHolds
  <2>2. ReusedIsCurrent
    BY StateOfGuides DEF RunMade, ReusedWell, ReusedIsCurrent
  <2>3. OutageIsNotAbsence
    <3>1. \A c \in Running : BlamesWell(runs[c])
      BY StateOfGuides DEF RunMade
    <3>2. QED BY <3>1 DEF BlamesWell, OutageIsNotAbsence, FailuresIn, FailuresOf, ServedAll, AllServe
  <2>4. HandoffTold
    <3>1. \A c \in Running :
            runs[c].payload # Nothing /\ runs[c].payload.status # "-" => Accounted(runs[c]) /\ SimcTold(runs[c])
      BY StateOfGuides DEF RunMade
    <3>2. QED BY <3>1, Zenon DEF HandoffTold, Accounted, SimcTold
  <2>5. QED BY <2>1, <2>2, <2>3, <2>4 DEF GuidesHold
<1>2. QED BY <1>1, GuidesAlwaysMade, PTL
=============================================================================
