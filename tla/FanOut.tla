------------------------------- MODULE FanOut -------------------------------
(***************************************************************************)
(* warcraft_cli/main.py: `warcraft search` asks every included provider at *)
(* once, each in a thread of its own, and puts one envelope together from  *)
(* what they did.  Each provider records its cache lookups in a ledger of  *)
(* its own, which is added to the command's ledger when the provider's     *)
(* call is over (warcraft_core/cache_ledger.py).  Providers whose cache is *)
(* in Redis share the process's breaker (RedisCacheStore in                *)
(* warcraft_api/cache.py).                                                 *)
(***************************************************************************)
EXTENDS Integers, Sequences, FiniteSets

CONSTANTS
  Provider,     \* the providers a search can include
  HintOnly,     \* those that answer free text with a hint and no rows
  InRedis,      \* those whose cache is in Redis; the others' is in files
  Ages,         \* what file hits report: their age and the TTL they were stored with
  NoAge,        \* a hit that has no age, and an age nothing has set
  Failures,     \* what a call may fail with: the error's code and its exit code
  MaxOps        \* bound: cache operations of each provider's call

ASSUME FanOutAssumption ==
  /\ IsFiniteSet(Provider)
  /\ HintOnly \subseteq Provider
  /\ InRedis \subseteq Provider
  /\ Ages \subseteq [age : Nat, ttl : Nat]
  /\ NoAge \notin Ages
  /\ Failures \subseteq [code : STRING, exit : Nat \ {0}]
  /\ MaxOps \in [Provider -> Nat]

VARIABLES
  included,   \* the providers of this search
  pc,         \* where each provider's thread is
  ledger,     \* the ledger of each provider's call
  total,      \* the command's ledger
  tripped,    \* the Redis URL is in _FAILED_REDIS_URLS
  answer,     \* what each provider's call came to
  block,      \* the provenance.cache of each provider's envelope
  envelope,   \* what the command printed
  ops         \* history: the cache operations of each provider

vars == <<included, pc, ledger, total, tripped, answer, block, envelope, ops>>

Backend(p) == IF p \in InRedis THEN "redis" ELSE "file"

-----------------------------------------------------------------------------
(* CacheLedger.                                                             *)

EmptyLedger == [backends |-> {}, lookups |-> 0, hits |-> 0, oldest |-> NoAge,
                ageless |-> FALSE, errors |-> 0]

(* _add_oldest: the age and its TTL stay together. *)
Oldest(held, found) ==
  IF found # NoAge /\ (held = NoAge \/ found.age > held.age) THEN found ELSE held

AddStore(l, backend) == [l EXCEPT !.backends = @ \cup {backend}]

AddHit(l, backend, found) ==
  [l EXCEPT !.backends = @ \cup {backend}, !.lookups = @ + 1, !.hits = @ + 1,
            !.ageless = @ \/ found = NoAge, !.oldest = Oldest(@, found)]

AddMiss(l, backend) == [l EXCEPT !.backends = @ \cup {backend}, !.lookups = @ + 1]

AddError(l, backend) == [l EXCEPT !.backends = @ \cup {backend}, !.errors = @ + 1]

\* Mutant: a child's hits without an age are forgotten.
MergeForgetful(l, child) ==
  [l EXCEPT !.backends = @ \cup child.backends, !.lookups = @ + child.lookups,
            !.hits = @ + child.hits, !.errors = @ + child.errors,
            !.oldest = Oldest(@, child.oldest)]

Merge(l, child) ==
  [l EXCEPT !.backends = @ \cup child.backends, !.lookups = @ + child.lookups,
            !.hits = @ + child.hits, !.errors = @ + child.errors,
            !.ageless = @ \/ child.ageless, !.oldest = Oldest(@, child.oldest)]

NoBlock == [backend |-> "none", lookups |-> 0, hits |-> 0, allHits |-> FALSE,
            oldest |-> NoAge, errors |-> 0]

(* provenance(): nothing when no store was built. *)
Provenance(l) ==
  IF l.backends = {} THEN NoBlock
  ELSE [backend |-> IF Cardinality(l.backends) = 1 THEN CHOOSE b \in l.backends : TRUE ELSE "mixed",
        lookups |-> l.lookups, hits |-> l.hits, allHits |-> l.lookups > 0 /\ l.hits = l.lookups,
        oldest |-> IF l.ageless THEN NoAge ELSE l.oldest, errors |-> l.errors]

-----------------------------------------------------------------------------
(* One provider's call.                                                     *)

NoAnswer == [ok |-> FALSE, rows |-> FALSE, code |-> "none", exit |-> 0]
NoEnvelope == [kind |-> "none", failed |-> {}, code |-> "none", exit |-> 0, cache |-> NoBlock]

Init ==
  /\ included \in SUBSET Provider
  /\ pc = [p \in Provider |-> "queued"]
  /\ ledger = [p \in Provider |-> EmptyLedger]
  /\ total = EmptyLedger
  /\ tripped = FALSE
  /\ answer = [p \in Provider |-> NoAnswer]
  /\ block = [p \in Provider |-> NoBlock]
  /\ envelope = NoEnvelope
  /\ ops = [p \in Provider |-> <<>>]

Step(p, from, to) == pc[p] = from /\ pc' = [pc EXCEPT ![p] = to]

(* The provider's thread starts: its call opens a ledger and builds a store. *)
Begin(p) ==
  /\ p \in included
  /\ Step(p, "queued", "calling")
  /\ ledger' = [ledger EXCEPT ![p] = AddStore(@, Backend(p))]
  /\ UNCHANGED <<included, total, tripped, answer, block, envelope, ops>>

Record(p, op, l) ==
  /\ ops' = [ops EXCEPT ![p] = Append(@, op)]
  /\ ledger' = [ledger EXCEPT ![p] = l]

Op(kind, found) == [kind |-> kind, found |-> found]

(* A file lookup; writes to a file are never recorded. *)
LookUpFile(p) ==
  /\ p \notin InRedis /\ pc[p] = "calling" /\ Len(ops[p]) < MaxOps[p]
  /\ \/ Record(p, Op("miss", NoAge), AddMiss(ledger[p], "file"))
     \/ \E found \in Ages : Record(p, Op("hit", found), AddHit(ledger[p], "file", found))
  /\ UNCHANGED <<included, pc, total, tripped, answer, block, envelope>>

(* _run sends a get or a set while the breaker is closed. *)
AskRedis(p) ==
  /\ p \in InRedis /\ ~tripped /\ Len(ops[p]) < MaxOps[p]
  /\ \/ Step(p, "calling", "getting")
     \/ Step(p, "calling", "setting")
  /\ UNCHANGED <<included, ledger, total, tripped, answer, block, envelope, ops>>

(* Redis answers, whoever else has found it down meanwhile. *)
RedisAnswers(p) ==
  /\ \/ /\ Step(p, "getting", "calling")
        /\ \/ Record(p, Op("miss", NoAge), AddMiss(ledger[p], "redis"))
           \/ Record(p, Op("hit", NoAge), AddHit(ledger[p], "redis", NoAge))
     \/ Step(p, "setting", "calling") /\ UNCHANGED <<ops, ledger>>
  /\ UNCHANGED <<included, total, tripped, answer, block, envelope>>

\* Mutant: the breaker is never tripped.
RedisFailsAgain(p) ==
  /\ \/ /\ Step(p, "getting", "calling")
        /\ Record(p, Op("failed get", NoAge), AddMiss(AddError(ledger[p], "redis"), "redis"))
     \/ /\ Step(p, "setting", "calling")
        /\ Record(p, Op("failed set", NoAge), AddError(ledger[p], "redis"))
  /\ UNCHANGED <<included, total, tripped, answer, block, envelope>>

(* Redis does not answer: the error is recorded and the breaker tripped.    *)
RedisFails(p) ==
  /\ \/ /\ Step(p, "getting", "calling")
        /\ Record(p, Op("failed get", NoAge), AddMiss(AddError(ledger[p], "redis"), "redis"))
     \/ /\ Step(p, "setting", "calling")
        /\ Record(p, Op("failed set", NoAge), AddError(ledger[p], "redis"))
  /\ tripped' = TRUE
  /\ UNCHANGED <<included, total, answer, block, envelope>>

(* The breaker is open: nothing is sent, and the error still counts. *)
SkipRedis(p) ==
  /\ p \in InRedis /\ tripped /\ pc[p] = "calling" /\ Len(ops[p]) < MaxOps[p]
  /\ \/ Record(p, Op("skipped get", NoAge), AddMiss(AddError(ledger[p], "redis"), "redis"))
     \/ Record(p, Op("skipped set", NoAge), AddError(ledger[p], "redis"))
  /\ UNCHANGED <<included, pc, total, tripped, answer, block, envelope>>

(* The surface returns an envelope, with rows or without, or raises. *)
Return(p) ==
  /\ Step(p, "calling", "returned")
  /\ \/ \E rows \in BOOLEAN :
          answer' = [answer EXCEPT ![p] = [ok |-> TRUE, rows |-> rows, code |-> "none", exit |-> 0]]
     \/ \E f \in Failures :
          answer' = [answer EXCEPT ![p] = [ok |-> FALSE, rows |-> FALSE, code |-> f.code, exit |-> f.exit]]
  /\ UNCHANGED <<included, ledger, total, tripped, block, envelope, ops>>

(* cache_ledger() ends: under its lock the command's ledger takes the counts *)
(* over, and a success envelope gets its own block.                          *)
Close(p) ==
  /\ Step(p, "returned", "done")
  /\ total' = Merge(total, ledger[p])
  /\ block' = [block EXCEPT ![p] = IF answer[p].ok THEN Provenance(ledger[p]) ELSE NoBlock]
  /\ UNCHANGED <<included, ledger, tripped, answer, envelope, ops>>

-----------------------------------------------------------------------------
(* The envelope, once every thread is done.                                 *)

Failed == {p \in included : ~answer[p].ok}

\* Mutant: a hint counts as an answer.
AnsweredHint == {p \in included : answer[p].ok}

(* _provider_answered: a provider that only knows report references has not *)
(* looked a text up unless it found something.                              *)
Answered == {p \in included : answer[p].ok /\ (p \in HintOnly => answer[p].rows)}

(* shared_failure. *)
SharedFailure(failed) ==
  LET codes == {answer[p].code : p \in failed}
      exits == {answer[p].exit : p \in failed}
      exit == IF Cardinality(exits) = 1 THEN CHOOSE e \in exits : TRUE ELSE 1 IN
  [code |-> IF Cardinality(codes) = 1 THEN CHOOSE c \in codes : TRUE
            ELSE IF exit = 5 THEN "upstream_error" ELSE "providers_failed",
   exit |-> exit]

(* _emit_fanout: the command fails when nobody answered, with the providers' *)
(* own error when some failed, and succeeds otherwise.                       *)
Emit ==
  /\ envelope.kind = "none"
  /\ \A p \in included : pc[p] = "done"
  /\ envelope' =
       IF Answered # {} THEN [kind |-> "ok", failed |-> Failed, code |-> "none", exit |-> 0,
                              cache |-> Provenance(total)]
       ELSE IF Failed # {} THEN [kind |-> "error", failed |-> Failed, code |-> SharedFailure(Failed).code,
                                 exit |-> SharedFailure(Failed).exit, cache |-> NoBlock]
       ELSE [kind |-> "error", failed |-> {}, code |-> "no_searching_provider", exit |-> 2,
             cache |-> NoBlock]
  /\ UNCHANGED <<included, pc, ledger, total, tripped, answer, block, ops>>

ProviderStep(p) ==
  \/ Begin(p) \/ LookUpFile(p) \/ AskRedis(p) \/ RedisAnswers(p) \/ RedisFails(p)
  \/ SkipRedis(p) \/ Return(p) \/ Close(p)

Next == Emit \/ \E p \in Provider : ProviderStep(p)

Spec == Init /\ [][Next]_vars

-----------------------------------------------------------------------------
(* Properties.                                                              *)

OpKind == {"hit", "miss", "failed get", "failed set", "skipped get", "skipped set"}
Ledgers == [backends : SUBSET {"file", "redis"}, lookups : Nat, hits : Nat,
            oldest : Ages \cup {NoAge}, ageless : BOOLEAN, errors : Nat]
Answers == [ok : BOOLEAN, rows : BOOLEAN, code : {"none"} \cup {f.code : f \in Failures}, exit : Nat]

TypeOK ==
  /\ included \subseteq Provider
  /\ pc \in [Provider -> {"queued", "calling", "getting", "setting", "returned", "done"}]
  /\ ledger \in [Provider -> Ledgers]
  /\ total \in Ledgers
  /\ tripped \in BOOLEAN
  /\ answer \in [Provider -> Answers]
  /\ envelope.kind \in {"none", "ok", "error"}
  /\ ops \in [Provider -> Seq([kind : OpKind, found : Ages \cup {NoAge}])]

(* The cache block of an envelope, from the operations of the providers ps. *)
Operations(ps) == UNION {{p} \X DOMAIN ops[p] : p \in ps}
Count(ps, kinds) ==
  Cardinality({o \in Operations(ps) : ops[o[1]][o[2]].kind \in kinds})
HitsOf(ps) ==
  {ops[o[1]][o[2]].found : o \in {q \in Operations(ps) : ops[q[1]][q[2]].kind = "hit"}}

TellsOf(b, ps) ==
  /\ b.lookups = Count(ps, OpKind \ {"failed set", "skipped set"})
  /\ b.hits = Count(ps, {"hit"})
  /\ b.errors = Count(ps, OpKind \ {"hit", "miss"})
  /\ b.allHits <=> b.lookups > 0 /\ Count(ps, OpKind \ {"hit", "failed set", "skipped set"}) = 0
  /\ b.backend = "mixed" <=> \E p, q \in ps : Backend(p) # Backend(q)
  /\ b.oldest # NoAge =>
       b.oldest \in HitsOf(ps) /\ \A h \in HitsOf(ps) : h # NoAge /\ h.age <= b.oldest.age
  /\ b.oldest = NoAge => HitsOf(ps) = {} \/ NoAge \in HitsOf(ps)

(* Whatever the order in which threads look up, fail and finish, a success  *)
(* envelope tells of every lookup made for it, those of failed providers    *)
(* included, and of no other; an age is never an understatement, and stays  *)
(* with its own TTL; each provider's own block tells of its own lookups.    *)
CacheClaimsHonest ==
  /\ envelope.kind = "ok" => TellsOf(envelope.cache, included)
  /\ \A p \in included : pc[p] = "done" /\ answer[p].ok => TellsOf(block[p], {p})

(* A Redis that does not answer costs each provider one wait at most, even  *)
(* when the providers find it down at the same time.                        *)
OneWaitEach ==
  \A p \in Provider : Count({p}, {"failed get", "failed set"}) <= 1

(* An outage is not an empty page: the command only succeeds when a provider *)
(* looked the text up, and then names every provider that failed.  It only   *)
(* fails as a transport error (exit 5, worth a retry) when every provider    *)
(* that failed did.                                                          *)
OutageIsNotEmptyPage ==
  /\ envelope.kind = "ok" =>
       /\ \E p \in included : answer[p].ok /\ (p \notin HintOnly \/ answer[p].rows)
       /\ \A p \in included : answer[p].exit > 0 => p \in envelope.failed
  /\ envelope.kind = "error" =>
       /\ envelope.exit > 0
       /\ envelope.exit = 5 => /\ envelope.failed # {}
                               /\ \A p \in envelope.failed : answer[p].exit = 5
       /\ \A p \in included \ HintOnly : answer[p].exit > 0
=============================================================================
