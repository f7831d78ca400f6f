------------------------- MODULE SiteCrawlerProofs -------------------------
(***************************************************************************)
(* The walk of SiteCrawler for any site, any seeds and any bounds.  First  *)
(* what the sequences it builds hold, then its type; FetchedOnce from the  *)
(* invariant Walk and Polite from Patience; then, step by kind of step,    *)
(* that it implements PoliteCrawl (Covered), forgets nothing (Remembers),  *)
(* walks in order (Ordered) and keeps the contract its caller merges the   *)
(* result by (Accounts), which together are ResultHolds.                   *)
(***************************************************************************)
EXTENDS SiteCrawler, SequenceTheorems, FiniteSetTheorems, WellFoundedInduction, TLAPS

-----------------------------------------------------------------------------
(* The sequences.                                                           *)

(* A listing of a finite set is a sequence that names each element once.    *)
LEMMA OrderingIsSeq ==
  ASSUME NEW S, IsFiniteSet(S), NEW order \in Orderings(S)
  PROVE  /\ order \in Seq(S)
         /\ Len(order) = Cardinality(S)
         /\ DOMAIN order = 1..Len(order)
         /\ \A i, j \in DOMAIN order : order[i] = order[j] => i = j
         /\ \A u : (\E i \in DOMAIN order : order[i] = u) <=> u \in S
<1>1. Cardinality(S) \in Nat
  BY FS_CardinalityType
<1>2. /\ order \in [1..Cardinality(S) -> S]
      /\ \A i, j \in DOMAIN order : order[i] = order[j] => i = j
      /\ \A u \in S : \E i \in 1..Cardinality(S) : order[i] = u
  BY DEF Orderings, Bijection, Injection, Surjection, IsInjective
<1>3. QED BY <1>1, <1>2

(* The elements of a sequence are finitely many.                            *)
LEMMA RangeFinite ==
  ASSUME NEW S, NEW s \in Seq(S)
  PROVE  IsFiniteSet(Range(s)) /\ Range(s) \subseteq S
<1>1. s \in Surjection(1..Len(s), Range(s))
  BY LenProperties DEF Surjection, Range
<1>2. IsFiniteSet(1..Len(s))
  BY LenProperties, FS_Interval
<1>3. IsFiniteSet(Range(s))
  BY <1>1, <1>2, FS_Surjection
<1>4. QED BY <1>3, LenProperties DEF Range

(* A set of naturals has a least element.                                   *)
LEMMA LeastNatural ==
  ASSUME NEW T \in SUBSET Nat, T # {}
  PROVE  \E x \in T : \A y \in T : x <= y
<1>1. PICK x \in T : \A y \in T : <<y, x>> \notin OpToRel(<, Nat)
  BY NatLessThanWellFounded, WFMin
<1>2. \A y \in T : ~(y < x)
  BY <1>1, Zenon DEF OpToRel
<1>3. QED BY <1>2

(* What follows the m-th element of a sequence.                             *)
LEMMA AfterProperties ==
  ASSUME NEW S, NEW s \in Seq(S), NEW m \in 1..Len(s)
  PROVE  /\ SubSeq(s, m + 1, Len(s)) \in Seq(S)
         /\ Len(SubSeq(s, m + 1, Len(s))) = Len(s) - m
         /\ \A i \in 1..(Len(s) - m) : SubSeq(s, m + 1, Len(s))[i] = s[m + i]
<1>1. Len(s) \in Nat /\ m \in Nat /\ m <= Len(s)
  BY LenProperties
<1>2. \A i \in (m + 1)..Len(s) : s[i] \in S
  BY <1>1, ElementOfSeq
<1>3. m + 1 \in Int /\ Len(s) \in Int
  BY <1>1
<1>4. /\ SubSeq(s, m + 1, Len(s)) \in Seq(S)
      /\ Len(SubSeq(s, m + 1, Len(s))) = IF m + 1 <= Len(s) THEN Len(s) - (m + 1) + 1 ELSE 0
      /\ \A i \in 1..(Len(s) - (m + 1) + 1) :
           SubSeq(s, m + 1, Len(s))[i] = s[(m + 1) + i - 1]
  BY ONLY <1>2, <1>3, SubSeqProperties
<1>5. QED BY <1>1, <1>4

(* Items of a sequence of addresses.                                        *)
LEMMA ItemsProperties ==
  ASSUME NEW urls \in Seq(URL), NEW source \in Source
  PROVE  /\ Items(urls, source) \in Seq(Item)
         /\ Len(Items(urls, source)) = Len(urls)
         /\ \A i \in 1..Len(urls) : Items(urls, source)[i].url = urls[i]
<1>1. /\ Len(urls) \in Nat /\ DOMAIN urls = 1..Len(urls)
      /\ \A i \in 1..Len(urls) : urls[i] \in URL
  BY LenProperties
<1>2. Items(urls, source) \in [1..Len(urls) -> Item]
  BY <1>1 DEF Items, Item
<1>3. Items(urls, source) \in Seq(Item) /\ Len(Items(urls, source)) = Len(urls)
  BY <1>1, <1>2
<1>4. \A i \in 1..Len(urls) : Items(urls, source)[i].url = urls[i]
  BY <1>1 DEF Items
<1>5. QED BY <1>3, <1>4

(* The item in hand and what is left behind it.                             *)
LEMMA NextItemProperties ==
  ASSUME TypeOK, HasItem
  PROVE  /\ NextItem \in Item
         /\ QueueLeft \in Seq(Item)
         /\ RevisitsLeft \in Seq(URL)
         /\ queue # <<>> => NextItem = queue[1] /\ QueueLeft = Tail(queue)
         /\ queue = <<>> => /\ QueueLeft = <<>>
                            /\ NextItem.url \in Range(revisits) \ done
                            /\ NextItem.source = "revisit"
         /\ Range(RevisitsLeft) \subseteq Range(revisits)
<1> USE DEF TypeOK
<1>1. CASE queue # <<>>
  BY <1>1, HeadTailProperties DEF NextItem, QueueLeft, RevisitsLeft
<1>2. CASE queue = <<>>
  <2>1. OpenRevisits \subseteq 1..Len(revisits) /\ OpenRevisits # {}
    BY <1>2, LenProperties DEF HasItem, OpenRevisits
  <2>2. FirstOpen \in OpenRevisits
    <3>1. OpenRevisits \in SUBSET Nat
      BY <2>1, LenProperties
    <3>2. \E i \in OpenRevisits : \A j \in OpenRevisits : i <= j
      BY <2>1, <3>1, LeastNatural
    <3>3. QED BY <3>2 DEF FirstOpen
  <2>3. FirstOpen \in 1..Len(revisits) /\ revisits[FirstOpen] \in URL \ done
    BY <2>1, <2>2, LenProperties DEF OpenRevisits
  <2>4. /\ RevisitsLeft \in Seq(URL)
        /\ \A i \in 1..Len(RevisitsLeft) : RevisitsLeft[i] \in Range(revisits)
    <3>1. RevisitsLeft = SubSeq(revisits, FirstOpen + 1, Len(revisits))
      BY <1>2 DEF RevisitsLeft
    <3>2. Len(revisits) \in Nat /\ DOMAIN revisits = 1..Len(revisits)
      BY LenProperties
    <3>3. /\ RevisitsLeft \in Seq(URL)
          /\ Len(RevisitsLeft) = Len(revisits) - FirstOpen
          /\ \A i \in 1..Len(RevisitsLeft) : RevisitsLeft[i] = revisits[FirstOpen + i]
      BY <2>3, <3>1, AfterProperties
    <3>4. ASSUME NEW i \in 1..Len(RevisitsLeft) PROVE RevisitsLeft[i] \in Range(revisits)
      <4>1. FirstOpen + i \in DOMAIN revisits
        BY <2>3, <3>2, <3>3
      <4>2. QED BY <3>3, <4>1 DEF Range
    <3>5. QED BY <3>3, <3>4
  <2>5. QED BY <1>2, <2>3, <2>4, LenProperties DEF NextItem, QueueLeft, Item, Source, Range
<1>3. QED BY <1>1, <1>2

(* Stopping puts items back in front of the rest of the queue.              *)
LEMMA StopProperties ==
  ASSUME TypeOK, HasItem, NEW reason \in StopReason, NEW items \in Seq(Item),
         Stop(reason, items)
  PROVE  stopReason' = reason /\ running' = FALSE /\ queue' \in Seq(Item)
<1>1. IsFiniteSet(KeptItems(items)) /\ KeptItems(items) \subseteq Item
  <2>1. KeptItems(items) \in SUBSET Range(items)
    BY DEF KeptItems
  <2>2. QED BY <2>1, RangeFinite, FS_Subset
<1>2. \A kept \in Orderings(KeptItems(items)) : kept \o QueueLeft \in Seq(Item)
  <2> TAKE kept \in Orderings(KeptItems(items))
  <2>1. kept \in Seq(Item)
    BY <1>1, OrderingIsSeq, SeqMonotonic
  <2>2. QED BY <2>1, NextItemProperties, ConcatProperties
<1>3. QED BY <1>2, NextItemProperties DEF Stop

(* A sequence of addresses the provider may pass, and the order revisits    *)
(* come in.                                                                 *)
LEMMA SubsetFinite == ASSUME NEW S \in SUBSET URL PROVE IsFiniteSet(S)
BY CrawlAssumption, FS_Subset

(* What a page adds to the queue.                                           *)
LEMMA FoundProperties ==
  ASSUME TypeOK, HasItem, NEW found \in SUBSET URL, NEW order \in Orderings(found)
  PROVE  /\ Items(order, "link") \in Seq(Item)
         /\ Enqueue(order) \in Seq(Item)
<1>1. order \in Seq(URL)
  BY SubsetFinite, OrderingIsSeq, SeqMonotonic
<1>2. QED BY <1>1, ItemsProperties, NextItemProperties, ConcatProperties DEF Enqueue, Source

-----------------------------------------------------------------------------
(* The type.                                                                *)

LEMMA InitTyped == Init => TypeOK
<1> SUFFICES ASSUME NEW list \in SeedLists, NEW indexed \in SUBSET HeldPages,
                    NEW order \in Orderings(indexed \ Range(list)), Started(list, order)
             PROVE  TypeOK
  BY DEF Init
<1>1. list \in Seq(URL) /\ Range(list) \subseteq URL
  BY CrawlAssumption, RangeFinite
<1>2. order \in Seq(URL) /\ Range(order) \subseteq URL
  <2>1. indexed \ Range(list) \in SUBSET URL
    BY CrawlAssumption
  <2>2. order \in Seq(URL)
    BY <2>1, SubsetFinite, OrderingIsSeq, SeqMonotonic
  <2>3. QED BY <2>2, RangeFinite
<1>3. Items(list, "seed") \in Seq(Item)
  BY <1>1, ItemsProperties DEF Source
<1>4. QED BY <1>1, <1>2, <1>3 DEF Started, TypeOK, StopReason

(* A fetch is logged as what it was.                                        *)
LEMMA LoggedTyped ==
  ASSUME TypeOK, HasItem, NEW outcome \in Outcome, NEW page \in URL \cup {NoUrl},
         NEW found \in SUBSET URL, Logged(outcome, page, found)
  PROVE  log' \in Seq(Fetch)
BY NextItemProperties, AppendProperties DEF TypeOK, Logged, Fetch, Item

LEMMA NextTyped == TypeOK /\ [Next]_vars => TypeOK'
<1> SUFFICES ASSUME TypeOK, [Next]_vars PROVE TypeOK'
  OBVIOUS
<1> USE CrawlAssumption
<1>1. CASE Finish
  BY <1>1, EmptySeq DEF Finish, TypeOK
<1>2. CASE CapReached
  <2>1. HasItem /\ <<NextItem>> \in Seq(Item) /\ "max_requests" \in StopReason
    BY <1>2, NextItemProperties DEF CapReached, StopReason
  <2>2. queue' \in Seq(Item) /\ stopReason' \in StopReason /\ running' \in BOOLEAN
    BY <1>2, <2>1, StopProperties DEF CapReached
  <2>3. QED BY <1>2, <2>1, <2>2, NextItemProperties DEF CapReached, TypeOK
<1>3. CASE FetchBlocked
  <2>1. HasItem /\ <<NextItem>> \in Seq(Item) /\ "blocked" \in StopReason
    BY <1>3, NextItemProperties DEF FetchBlocked, Fetching, StopReason
  <2>2. queue' \in Seq(Item) /\ stopReason' \in StopReason /\ running' \in BOOLEAN
    BY <1>3, <2>1, StopProperties DEF FetchBlocked
  <2>3. log' \in Seq(Fetch)
    BY <1>3, <2>1, LoggedTyped DEF FetchBlocked, Outcome
  <2>4. streak' \in Seq(Item)
    <3>1. NextItem \in Item /\ streak \in Seq(Item)
      BY <2>1, NextItemProperties DEF TypeOK
    <3>2. Append(streak, NextItem) \in Seq(Item)
      BY <3>1, AppendProperties
    <3>3. streak' \in {<<>>, Append(streak, NextItem)}
      BY <1>3 DEF FetchBlocked
    <3>4. <<>> \in Seq(Item)
      BY EmptySeq
    <3>5. QED BY <3>2, <3>3, <3>4
  <2>5. QED BY <1>3, <2>1, <2>2, <2>3, <2>4, NextItemProperties
            DEF FetchBlocked, Fetching, TypeOK, Item
<1>4. CASE FetchDown
  <2>1. HasItem /\ <<NextItem>> \in Seq(Item) /\ streak' \in Seq(Item)
    BY <1>4, NextItemProperties, AppendProperties DEF FetchDown, Fetching, TypeOK
  <2>2. queue' \in Seq(Item) /\ stopReason' \in StopReason /\ running' \in BOOLEAN
    <3>1. CASE Stop("seed_failed", <<NextItem>>)
      BY <2>1, <3>1, StopProperties DEF StopReason
    <3>2. CASE Stop("unavailable", streak')
      BY <2>1, <3>2, StopProperties DEF StopReason
    <3>3. CASE GoOn /\ queue' = QueueLeft
      BY <2>1, <3>3, NextItemProperties DEF GoOn, TypeOK
    <3>4. QED BY <1>4, <3>1, <3>2, <3>3 DEF FetchDown
  <2>3. log' \in Seq(Fetch)
    BY <1>4, <2>1, LoggedTyped DEF FetchDown, Outcome
  <2>4. /\ UNCHANGED <<seeds, held, seen, pages, notFound>>
        /\ requests' = requests + 1 /\ revisits' = RevisitsLeft
        /\ done' = done \cup {NextItem.url} /\ errors' = errors \cup {NextItem.url}
    BY <1>4 DEF FetchDown, Fetching
  <2>5. QED BY <2>1, <2>2, <2>3, <2>4, NextItemProperties DEF TypeOK, Item
<1>5. ASSUME NEW outcome \in {"gone", "other", "notpage"}, NEW cost \in {0, 1},
             FetchNoPage(outcome, cost)
      PROVE  TypeOK'
  <2>1. HasItem /\ <<NextItem>> \in Seq(Item)
    BY <1>5, NextItemProperties DEF FetchNoPage, Fetching
  <2>2. queue' \in Seq(Item) /\ stopReason' \in StopReason /\ running' \in BOOLEAN
    <3>1. CASE Stop("seed_failed", <<NextItem>>)
      BY <2>1, <3>1, StopProperties DEF StopReason
    <3>2. CASE GoOn /\ queue' = QueueLeft
      BY <2>1, <3>2, NextItemProperties DEF GoOn, TypeOK
    <3>3. QED BY <1>5, <3>1, <3>2 DEF FetchNoPage
  <2>3. log' \in Seq(Fetch)
    BY <1>5, <2>1, LoggedTyped DEF FetchNoPage, Outcome
  <2>4. QED BY <1>5, <2>1, <2>2, <2>3, NextItemProperties DEF FetchNoPage, Fetching, TypeOK, Item
<1>6. ASSUME NEW cost \in {0, 1}, NEW target \in RedirectTargets \cup {NoUrl},
             FetchBareSeed(IF target = NoUrl THEN NextItem.url ELSE target, cost)
      PROVE  TypeOK'
  <2>1. HasItem /\ <<NextItem>> \in Seq(Item)
    BY <1>6, NextItemProperties DEF FetchBareSeed, Fetching
  <2>2. queue' \in Seq(Item) /\ stopReason' \in StopReason /\ running' \in BOOLEAN
    BY <1>6, <2>1, StopProperties DEF FetchBareSeed, StopReason
  <2>3. log' \in Seq(Fetch)
    BY <1>6, <2>1, NextItemProperties, LoggedTyped DEF FetchBareSeed, Outcome, Item
  <2>4. QED BY <1>6, <2>1, <2>2, <2>3, NextItemProperties DEF FetchBareSeed, Fetching, TypeOK, Item
<1>7. ASSUME NEW cost \in {0, 1}, NEW target \in RedirectTargets \cup {NoUrl},
             NEW follow \in FollowSets,
             FetchPage(IF target = NoUrl THEN NextItem.url ELSE target, follow, cost)
      PROVE  TypeOK'
  <2> DEFINE page == IF target = NoUrl THEN NextItem.url ELSE target
             found == Discovered(follow, page)
  <2>1. HasItem /\ NextItem \in Item /\ page \in URL /\ found \in SUBSET URL
    BY <1>7, NextItemProperties DEF FetchPage, Fetching, Discovered, Item
  <2>2. queue' \in Seq(Item)
    BY <1>7, <2>1, FoundProperties DEF FetchPage
  <2>3. log' \in Seq(Fetch)
    BY <1>7, <2>1, LoggedTyped DEF FetchPage, Outcome
  <2>4. pages' \subseteq [requested : URL, url : URL, source : Source]
    BY <1>7, <2>1 DEF FetchPage, TypeOK, Item
  <2>5. QED BY <1>7, <2>1, <2>2, <2>3, <2>4, NextItemProperties
            DEF FetchPage, Fetching, GoOn, TypeOK, Item
<1>8. CASE UNCHANGED vars
  BY <1>8 DEF vars, TypeOK
<1>9. QED BY <1>1, <1>2, <1>3, <1>4, <1>5, <1>6, <1>7, <1>8 DEF Next

(* Every state of the walk is of the kind the result is built from: the     *)
(* queue and the streak hold addresses with their source, whatever is       *)
(* discovered, put back or stopped on.                                      *)
THEOREM TypeCorrect == Spec => []TypeOK
BY InitTyped, NextTyped, PTL DEF Spec

-----------------------------------------------------------------------------
(* No address is fetched twice.                                             *)

DistinctUrls(items) == \A i, j \in DOMAIN items : items[i].url = items[j].url => i = j

(* While the walk runs, what waits in the queue waits once, was seen and    *)
(* was not fetched; what was fetched is done and seen, so that neither a    *)
(* link nor a revisit leads back to it.                                     *)
Walk ==
  /\ FetchedOnce
  /\ Fetched \subseteq done \cap seen
  /\ Range(revisits) \subseteq seen
  /\ running => /\ Urls(queue) \subseteq seen \ Fetched
                /\ DistinctUrls(queue)

(* Taking the next item leaves a queue of that kind, without the item.      *)
LEMMA TakeProperties ==
  ASSUME TypeOK, Walk, running, HasItem
  PROVE  /\ NextItem.url \in seen \ Fetched
         /\ Urls(QueueLeft) \subseteq seen \ (Fetched \cup {NextItem.url})
         /\ DistinctUrls(QueueLeft)
<1>1. CASE queue # <<>>
  <2>1. /\ Len(queue) \in Nat \ {0} /\ DOMAIN queue = 1..Len(queue)
        /\ DOMAIN Tail(queue) = 1..(Len(queue) - 1)
        /\ \A i \in 1..(Len(queue) - 1) : Tail(queue)[i] = queue[i + 1]
    BY <1>1, LenProperties, EmptySeq, HeadTailProperties DEF TypeOK
  <2>2. NextItem = queue[1] /\ QueueLeft = Tail(queue)
    BY <1>1, NextItemProperties
  <2>3. \A i \in DOMAIN Tail(queue) : i + 1 \in DOMAIN queue /\ i + 1 # 1
    BY <2>1
  <2>4. 1 \in DOMAIN queue
    BY <2>1
  <2>5. NextItem.url \in Urls(queue)
    BY <2>2, <2>4 DEF Urls
  <2>6. Urls(Tail(queue)) \subseteq Urls(queue) \ {queue[1].url}
    BY <2>1, <2>3, <2>4 DEF Urls, Walk, DistinctUrls
  <2>7. DistinctUrls(Tail(queue))
    BY <2>1, <2>3 DEF Walk, DistinctUrls
  <2>8. QED BY <2>2, <2>5, <2>6, <2>7 DEF Walk
<1>2. CASE queue = <<>>
  <2>1. QueueLeft = <<>> /\ NextItem.url \in seen \ Fetched
    BY <1>2, NextItemProperties DEF Walk
  <2>2. QED BY <2>1 DEF Urls, DistinctUrls
<1>3. QED BY <1>1, <1>2

(* The log after a fetch.                                                   *)
LEMMA LogProperties ==
  ASSUME TypeOK, HasItem, NEW outcome \in Outcome, NEW page \in URL \cup {NoUrl},
         NEW found \in SUBSET URL, Logged(outcome, page, found)
  PROVE  /\ Len(log) \in Nat /\ Len(log') = Len(log) + 1
         /\ DOMAIN log = 1..Len(log) /\ DOMAIN log' = 1..(Len(log) + 1)
         /\ \A i \in 1..Len(log) : log'[i] = log[i]
         /\ log'[Len(log) + 1].url = NextItem.url
         /\ log'[Len(log) + 1].outcome = outcome
<1> DEFINE fetch == [url |-> NextItem.url, source |-> NextItem.source,
                     outcome |-> outcome, page |-> page, found |-> found]
<1>1. fetch \in Fetch /\ log \in Seq(Fetch)
  BY NextItemProperties DEF TypeOK, Fetch, Item
<1>2. log' = Append(log, fetch)
  BY DEF Logged
<1> HIDE DEF fetch
<1>3. /\ Len(log) \in Nat /\ Len(log') = Len(log) + 1
      /\ log' \in Seq(Fetch)
      /\ \A i \in 1..Len(log) : log'[i] = log[i]
      /\ log'[Len(log) + 1] = fetch
  BY <1>1, <1>2, AppendProperties, LenProperties
<1>4. DOMAIN log = 1..Len(log) /\ DOMAIN log' = 1..(Len(log) + 1)
  BY <1>1, <1>3, LenProperties
<1>5. fetch.url = NextItem.url /\ fetch.outcome = outcome
  BY DEF fetch
<1>6. QED BY <1>3, <1>4, <1>5

(* The queue after links were found on a page.                              *)
LEMMA EnqueueProperties ==
  ASSUME TypeOK, HasItem, NEW found \in SUBSET URL, NEW order \in Orderings(found),
         DistinctUrls(QueueLeft), Urls(QueueLeft) \cap found = {}
  PROVE  /\ Urls(Enqueue(order)) \subseteq Urls(QueueLeft) \cup found
         /\ DistinctUrls(Enqueue(order))
<1> DEFINE links == Items(order, "link")
<1>1. /\ order \in Seq(URL) /\ DOMAIN order = 1..Len(order)
      /\ \A i, j \in DOMAIN order : order[i] = order[j] => i = j
      /\ \A i \in DOMAIN order : order[i] \in found
  BY SubsetFinite, OrderingIsSeq, SeqMonotonic
<1>2. /\ links \in Seq(Item) /\ Len(links) = Len(order)
      /\ \A i \in 1..Len(order) : links[i].url = order[i]
  BY <1>1, ItemsProperties DEF Source
<1>3. Enqueue(order) = QueueLeft \o links /\ QueueLeft \in Seq(Item)
  BY NextItemProperties DEF Enqueue
<1> HIDE DEF links
<1>4. /\ Len(QueueLeft) \in Nat /\ Len(order) \in Nat
      /\ DOMAIN QueueLeft = 1..Len(QueueLeft)
      /\ DOMAIN Enqueue(order) = 1..(Len(QueueLeft) + Len(order))
      /\ \A i \in 1..(Len(QueueLeft) + Len(order)) : Enqueue(order)[i] =
           IF i <= Len(QueueLeft) THEN QueueLeft[i] ELSE links[i - Len(QueueLeft)]
  <2> DEFINE left == QueueLeft
  <2>1. left \in Seq(Item) /\ links \in Seq(Item)
    BY <1>2, <1>3
  <2> HIDE DEF left
  <2>2. /\ left \o links \in Seq(Item)
        /\ Len(left \o links) = Len(left) + Len(links)
        /\ \A i \in 1..(Len(left) + Len(links)) : (left \o links)[i] =
             IF i <= Len(left) THEN left[i] ELSE links[i - Len(left)]
    BY ONLY <2>1, ConcatProperties
  <2>3. /\ Len(left) \in Nat /\ DOMAIN left = 1..Len(left)
        /\ Len(links) \in Nat
        /\ DOMAIN (left \o links) = 1..Len(left \o links)
    BY ONLY <2>1, <2>2, LenProperties
  <2>4. Enqueue(order) = left \o links
    BY <1>3 DEF left
  <2>5. Len(links) = Len(order)
    BY <1>2
  <2>6. /\ Len(left) \in Nat /\ Len(order) \in Nat
        /\ DOMAIN left = 1..Len(left)
        /\ DOMAIN Enqueue(order) = 1..(Len(left) + Len(order))
        /\ \A i \in 1..(Len(left) + Len(order)) : Enqueue(order)[i] =
             IF i <= Len(left) THEN left[i] ELSE links[i - Len(left)]
    BY <2>2, <2>3, <2>4, <2>5
  <2>7. QED BY <2>6 DEF left
<1>5. ASSUME NEW i \in DOMAIN Enqueue(order)
      PROVE  \/ i \in DOMAIN QueueLeft /\ Enqueue(order)[i].url = QueueLeft[i].url
             \/ /\ i - Len(QueueLeft) \in DOMAIN order
                /\ Enqueue(order)[i].url = order[i - Len(QueueLeft)]
  BY <1>1, <1>2, <1>4
<1>6. \A i \in DOMAIN QueueLeft, k \in DOMAIN order : QueueLeft[i].url # order[k]
  BY <1>1 DEF Urls
<1>7. Urls(Enqueue(order)) \subseteq Urls(QueueLeft) \cup found
  BY <1>1, <1>5 DEF Urls
<1>8. ASSUME NEW i \in DOMAIN Enqueue(order), NEW j \in DOMAIN Enqueue(order),
             Enqueue(order)[i].url = Enqueue(order)[j].url
      PROVE  i = j
  <2>1. i \in Int /\ j \in Int /\ Len(QueueLeft) \in Int
    BY <1>4
  <2>2. QED BY <1>1, <1>5, <1>6, <1>8, <2>1 DEF DistinctUrls
<1>9. QED BY <1>7, <1>8 DEF DistinctUrls

(* A fetch keeps Walk, whatever it fetched and however the loop goes on.    *)
LEMMA WalkStep ==
  ASSUME TypeOK, Walk, running, HasItem, NEW outcome \in Outcome,
         NEW page \in URL \cup {NoUrl}, NEW found \in SUBSET URL,
         Logged(outcome, page, found),
         revisits' = RevisitsLeft,
         done \cup {NextItem.url} \subseteq done',
         seen \subseteq seen',
         \/ running' = FALSE
         \/ queue' = QueueLeft
         \/ /\ \E order \in Orderings(found) : queue' = Enqueue(order)
            /\ found \cap seen = {} /\ found \subseteq seen'
  PROVE  Walk'
<1> USE TakeProperties
<1>1. Fetched' \subseteq Fetched \cup {NextItem.url}
  BY LogProperties DEF Fetched
<1>2. FetchedOnce'
  <2>1. \A i \in 1..Len(log) : log[i].url # NextItem.url
    BY LogProperties DEF Fetched
  <2>2. /\ Len(log) \in Nat /\ DOMAIN log = 1..Len(log) /\ DOMAIN log' = 1..(Len(log) + 1)
        /\ \A i \in 1..Len(log) : log'[i] = log[i]
        /\ log'[Len(log) + 1].url = NextItem.url
    BY LogProperties
  <2>3. \A i, j \in 1..Len(log) : log[i].url = log[j].url => i = j
    BY <2>2 DEF Walk, FetchedOnce
  <2>4. \A i \in 1..(Len(log) + 1) : i \in 1..Len(log) \/ i = Len(log) + 1
    BY <2>2
  <2>5. QED BY <2>1, <2>2, <2>3, <2>4 DEF FetchedOnce
<1>3. Fetched' \subseteq done' \cap seen'
  BY <1>1 DEF Walk
<1>4. Range(revisits') \subseteq seen'
  BY NextItemProperties DEF Walk
<1>5. ASSUME running' PROVE Urls(queue') \subseteq seen' \ Fetched' /\ DistinctUrls(queue')
  <2>1. CASE queue' = QueueLeft
    BY <1>1, <2>1
  <2>2. CASE /\ \E order \in Orderings(found) : queue' = Enqueue(order)
             /\ found \cap seen = {} /\ found \subseteq seen'
    <3>1. PICK order \in Orderings(found) : queue' = Enqueue(order)
      BY <2>2
    <3>2. Urls(QueueLeft) \cap found = {}
      BY <2>2
    <3>3. /\ Urls(Enqueue(order)) \subseteq Urls(QueueLeft) \cup found
          /\ DistinctUrls(Enqueue(order))
      BY <3>2, EnqueueProperties
    <3>4. found \cap Fetched = {} /\ NextItem.url \notin found
      BY <2>2 DEF Walk
    <3>5. QED BY <1>1, <2>2, <3>1, <3>3, <3>4
  <2>3. QED BY <1>5, <2>1, <2>2
<1>6. QED BY <1>2, <1>3, <1>4, <1>5 DEF Walk, Range, Urls, DistinctUrls

(* The same for a fetch that finds nothing.                                 *)
LEMMA WalkStepBare ==
  ASSUME TypeOK, Walk, running, HasItem, NEW outcome \in Outcome,
         NEW page \in URL \cup {NoUrl},
         Logged(outcome, page, {}),
         revisits' = RevisitsLeft,
         done \cup {NextItem.url} \subseteq done',
         seen \subseteq seen',
         running' = FALSE \/ queue' = QueueLeft
  PROVE  Walk'
<1> DEFINE found == {}
<1>1. found \in SUBSET URL /\ Logged(outcome, page, found)
  OBVIOUS
<1> HIDE DEF found
<1>2. QED BY <1>1, WalkStep

LEMMA InitWalk == Init => Walk
<1> SUFFICES ASSUME NEW list \in SeedLists, NEW indexed \in SUBSET HeldPages,
                    NEW order \in Orderings(indexed \ Range(list)), Started(list, order)
             PROVE  Walk
  BY DEF Init
<1>1. list \in Seq(URL) /\ IsInjective(list)
  BY CrawlAssumption
<1>2. log = <<>> /\ revisits = order /\ queue = Items(list, "seed")
      /\ seen = Range(list) \cup Range(order)
  BY DEF Started
<1>3. DOMAIN queue = DOMAIN list /\ \A i \in DOMAIN list : queue[i].url = list[i]
  BY <1>2 DEF Items
<1>4. FetchedOnce /\ Fetched = {}
  BY <1>2 DEF FetchedOnce, Fetched
<1>5. DistinctUrls(queue)
  BY <1>1, <1>3 DEF DistinctUrls, IsInjective
<1>6. Urls(queue) \subseteq seen
  BY <1>2, <1>3 DEF Urls, Range
<1>7. QED BY <1>2, <1>4, <1>5, <1>6 DEF Walk

LEMMA NextWalk == TypeOK /\ Walk /\ [Next]_vars => Walk'
<1> SUFFICES ASSUME TypeOK, Walk, [Next]_vars PROVE Walk'
  OBVIOUS
<1> USE CrawlAssumption
<1>1. CASE Finish
  BY <1>1 DEF Finish, Walk, FetchedOnce, Fetched, Range
<1>2. CASE CapReached
  <2>1. HasItem /\ running' = FALSE /\ UNCHANGED <<seen, done, log>> /\ revisits' = RevisitsLeft
    BY <1>2 DEF CapReached, Stop
  <2>2. Range(revisits') \subseteq seen'
    BY <2>1, NextItemProperties DEF Walk
  <2>3. QED BY <2>1, <2>2 DEF Walk, FetchedOnce, Fetched
<1>3. CASE FetchBlocked
  <2>1. running /\ HasItem /\ Logged("blocked", NoUrl, {}) /\ running' = FALSE
    BY <1>3 DEF FetchBlocked, Fetching, Stop
  <2>2. /\ revisits' = RevisitsLeft /\ seen \subseteq seen'
        /\ done \cup {NextItem.url} \subseteq done' /\ "blocked" \in Outcome
    BY <1>3 DEF FetchBlocked, Fetching, Outcome
  <2>3. QED BY <2>1, <2>2, WalkStepBare
<1>4. CASE FetchDown
  <2>1. running /\ HasItem /\ Logged("down", NoUrl, {})
    BY <1>4 DEF FetchDown, Fetching
  <2>2. running' = FALSE \/ queue' = QueueLeft
    BY <1>4 DEF FetchDown, Stop, GoOn
  <2>3. /\ revisits' = RevisitsLeft /\ seen \subseteq seen'
        /\ done \cup {NextItem.url} \subseteq done' /\ "down" \in Outcome
    BY <1>4 DEF FetchDown, Fetching, Outcome
  <2>4. QED BY <2>1, <2>2, <2>3, WalkStepBare
<1>5. ASSUME NEW outcome \in {"gone", "other", "notpage"}, NEW cost \in {0, 1},
             FetchNoPage(outcome, cost)
      PROVE  Walk'
  <2>1. running /\ HasItem /\ Logged(outcome, NoUrl, {}) /\ outcome \in Outcome
    BY <1>5 DEF FetchNoPage, Fetching, Outcome
  <2>2. running' = FALSE \/ queue' = QueueLeft
    BY <1>5 DEF FetchNoPage, Stop, GoOn
  <2>3. QED BY <1>5, <2>1, <2>2, WalkStepBare DEF FetchNoPage, Fetching
<1>6. ASSUME NEW page, NEW cost \in {0, 1}, page \in URL \cup {NoUrl},
             FetchBareSeed(page, cost)
      PROVE  Walk'
  <2>1. running /\ HasItem /\ Logged("page", page, {}) /\ running' = FALSE
    BY <1>6 DEF FetchBareSeed, Fetching, Stop
  <2>2. /\ revisits' = RevisitsLeft /\ seen \subseteq seen'
        /\ done \cup {NextItem.url} \subseteq done' /\ "page" \in Outcome
    BY <1>6 DEF FetchBareSeed, Fetching, Outcome
  <2>3. QED BY <1>6, <2>1, <2>2, WalkStepBare
<1>7. ASSUME NEW page, NEW cost \in {0, 1}, page \in URL \cup {NoUrl},
             NEW follow \in FollowSets, FetchPage(page, follow, cost)
      PROVE  Walk'
  <2> DEFINE found == Discovered(follow, page)
  <2>1. running /\ HasItem /\ found \in SUBSET URL /\ found \cap seen = {}
    BY <1>7 DEF FetchPage, Fetching, Discovered
  <2>2. /\ Logged("page", page, found) /\ revisits' = RevisitsLeft
        /\ done \cup {NextItem.url} \subseteq done' /\ seen \subseteq seen'
        /\ found \subseteq seen'
        /\ \E order \in Orderings(found) : queue' = Enqueue(order)
    BY <1>7 DEF FetchPage, Fetching
  <2>3. "page" \in Outcome
    BY DEF Outcome
  <2> HIDE DEF found
  <2>4. QED BY <1>7, <2>1, <2>2, <2>3, WalkStep
<1>8. ASSUME NEW cost \in {0, 1}, NEW target \in RedirectTargets \cup {NoUrl}
      PROVE  HasItem => (IF target = NoUrl THEN NextItem.url ELSE target) \in URL \cup {NoUrl}
  BY NextItemProperties DEF Item
<1>9. CASE UNCHANGED vars
  BY <1>9 DEF vars, Walk, FetchedOnce, Fetched, Urls, DistinctUrls, Range
<1>10. CASE \E cost \in {0, 1}, target \in RedirectTargets \cup {NoUrl} :
              LET page == IF target = NoUrl THEN NextItem.url ELSE target IN
              \/ FetchBareSeed(page, cost)
              \/ \E follow \in FollowSets : FetchPage(page, follow, cost)
  <2>1. HasItem
    BY <1>10 DEF FetchBareSeed, FetchPage, Fetching
  <2>2. QED BY <1>6, <1>7, <1>8, <1>10, <2>1
<1>11. QED BY <1>1, <1>2, <1>3, <1>4, <1>5, <1>9, <1>10 DEF Next

(* No address is fetched twice in one run, for every site, every list of    *)
(* seeds, every index to revisit and every way links and redirects lead     *)
(* around: the walk costs a site at most one request per address.           *)
THEOREM NeverFetchedTwice == Spec => []FetchedOnce
<1>1. Walk => FetchedOnce
  BY DEF Walk
<1>2. QED BY <1>1, InitTyped, NextTyped, InitWalk, NextWalk, PTL DEF Spec

-----------------------------------------------------------------------------
(* The site is not pestered.                                                *)

(* The log ends in downs from i on. *)
DownSince(i) == \A j \in i..Len(log) : log[j].outcome = "down"

(* Polite is not inductive: that a run of failures stops the walk holds     *)
(* because the streak is as long as any run of failures at the end of the   *)
(* log, and shorter than UnavailableAfter while the walk runs.              *)
Patience ==
  /\ Polite
  /\ running =>
       /\ \A i \in DOMAIN log : log[i].outcome # "blocked"
       /\ Len(streak) < UnavailableAfter
       /\ \A i \in DOMAIN log : DownSince(i) => Len(log) - i < Len(streak)

LEMMA InitPatience == Init => Patience
<1> SUFFICES ASSUME Init PROVE Patience
  OBVIOUS
<1>1. log = <<>> /\ streak = <<>> /\ requests = 0
  BY DEF Init, Started
<1>2. DOMAIN log = {} /\ Len(streak) = 0
  BY <1>1
<1>3. QED BY <1>1, <1>2, CrawlAssumption DEF Patience, Polite

(* A fetch within the cap keeps Patience when the walk goes on only with a  *)
(* streak that has grown by this failure and is short enough, or is empty.  *)
LEMMA PatienceStep ==
  ASSUME TypeOK, Patience, running, HasItem, NEW outcome \in Outcome,
         NEW page \in URL \cup {NoUrl}, NEW found \in SUBSET URL,
         Logged(outcome, page, found),
         NEW cost \in {0, 1}, requests < MaxRequests, requests' = requests + cost,
         running' => /\ outcome # "blocked"
                     /\ Len(streak') < UnavailableAfter
                     /\ outcome = "down" => Len(streak') = Len(streak) + 1
  PROVE  Patience'
<1> DEFINE L == Len(log)
<1>1. /\ L \in Nat /\ Len(log') = L + 1
      /\ DOMAIN log = 1..L /\ DOMAIN log' = 1..(L + 1)
      /\ \A i \in 1..L : log'[i] = log[i]
      /\ log'[L + 1].outcome = outcome
  BY LogProperties
<1>2. Len(streak) \in Nat /\ UnavailableAfter \in Nat \ {0} /\ MaxRequests \in Nat
      /\ requests \in Nat
  BY CrawlAssumption, LenProperties DEF TypeOK
<1>3. /\ \A i \in 1..L : log[i].outcome # "blocked"
      /\ Len(streak) < UnavailableAfter
      /\ \A i \in 1..L : DownSince(i) => L - i < Len(streak)
      /\ Polite
  BY <1>1 DEF Patience
<1> HIDE DEF L
<1>4. requests' <= MaxRequests
  BY <1>2
<1>5. \A i \in 1..(L + 1) : log'[i].outcome = "blocked" => i = L + 1
  BY <1>1, <1>3
<1>6. ASSUME NEW i \in 1..(L + 1),
             \A j \in 1..(L + 1) : i <= j /\ j < i + UnavailableAfter => log'[j].outcome = "down"
      PROVE  L + 1 <= i + UnavailableAfter - 1
  <2> SUFFICES ASSUME i + UnavailableAfter - 1 <= L PROVE FALSE
    BY <1>1, <1>2
  <2>1. i \in 1..L
    BY <1>1, <1>2
  <2>2. \A j \in 1..L : i <= j /\ j < i + UnavailableAfter => log[j].outcome = "down"
    BY <1>1, <1>6
  <2>3. L <= i + UnavailableAfter - 1
    BY <1>1, <1>3, <2>1, <2>2 DEF Polite, L
  <2>4. DownSince(i)
    BY <1>1, <1>2, <2>1, <2>2, <2>3 DEF DownSince, L
  <2>5. QED BY <1>1, <1>2, <1>3, <2>1, <2>3, <2>4
<1>7. Polite'
  BY <1>1, <1>4, <1>5, <1>6 DEF Polite
<1>8. ASSUME running', NEW i \in 1..(L + 1), DownSince(i)'
      PROVE  Len(log') - i < Len(streak')
  <2>1. \A j \in i..(L + 1) : log'[j].outcome = "down"
    BY <1>1, <1>8 DEF DownSince
  <2>2. outcome = "down"
    BY <1>1, <2>1
  <2>3. CASE i = L + 1
    BY <1>1, <1>2, <1>8, <2>2, <2>3
  <2>4. CASE i \in 1..L
    <3>1. DownSince(i)
      BY <1>1, <2>1, <2>4 DEF DownSince, L
    <3>2. QED BY <1>1, <1>2, <1>3, <1>8, <2>2, <2>4, <3>1
  <2>5. QED BY <1>1, <2>3, <2>4
<1>9. running' => \A i \in 1..(L + 1) : log'[i].outcome # "blocked"
  BY <1>1, <1>3
<1>10. QED BY <1>1, <1>7, <1>8, <1>9 DEF Patience

LEMMA NextPatience == TypeOK /\ Patience /\ [Next]_vars => Patience'
<1> SUFFICES ASSUME TypeOK, Patience, [Next]_vars PROVE Patience'
  OBVIOUS
<1> USE CrawlAssumption
<1>1. CASE Finish
  BY <1>1 DEF Finish, Patience, Polite
<1>2. CASE CapReached
  <2>1. running' = FALSE /\ UNCHANGED <<requests, log>>
    BY <1>2 DEF CapReached, Stop
  <2>2. QED BY <2>1 DEF Patience, Polite
<1>3. CASE FetchBlocked
  <2> DEFINE found == {}
  <2>1. /\ running /\ HasItem /\ Logged("blocked", NoUrl, found) /\ running' = FALSE
        /\ requests < MaxRequests /\ requests' = requests + 1
        /\ "blocked" \in Outcome /\ found \in SUBSET URL /\ NoUrl \in URL \cup {NoUrl}
    BY <1>3 DEF FetchBlocked, Fetching, Stop, Outcome
  <2> HIDE DEF found
  <2>2. QED BY <2>1, PatienceStep
<1>4. CASE FetchDown
  <2> DEFINE found == {}
  <2>1. /\ running /\ HasItem /\ Logged("down", NoUrl, found)
        /\ requests < MaxRequests /\ requests' = requests + 1
        /\ "down" \in Outcome /\ "down" # "blocked"
        /\ found \in SUBSET URL /\ NoUrl \in URL \cup {NoUrl}
    BY <1>4 DEF FetchDown, Fetching, Outcome
  <2>2. Len(streak') = Len(streak) + 1 /\ Len(streak) \in Nat
    BY <1>4, <2>1, NextItemProperties, AppendProperties, LenProperties DEF FetchDown, TypeOK
  <2>3. running' => Len(streak') < UnavailableAfter
    BY <1>4, <2>2 DEF FetchDown, Stop
  <2> HIDE DEF found
  <2>4. QED BY <2>1, <2>2, <2>3, PatienceStep
<1>5. ASSUME NEW outcome \in {"gone", "other", "notpage"}, NEW cost \in {0, 1},
             FetchNoPage(outcome, cost)
      PROVE  Patience'
  <2> DEFINE found == {}
  <2>1. /\ running /\ HasItem /\ Logged(outcome, NoUrl, found)
        /\ requests < MaxRequests /\ requests' = requests + cost /\ streak' = <<>>
        /\ outcome \in Outcome /\ outcome # "blocked" /\ outcome # "down"
        /\ found \in SUBSET URL /\ NoUrl \in URL \cup {NoUrl}
    BY <1>5 DEF FetchNoPage, Fetching, Outcome
  <2>2. Len(streak') < UnavailableAfter
    BY <2>1
  <2> HIDE DEF found
  <2>3. QED BY <2>1, <2>2, PatienceStep
<1>6. ASSUME NEW page, NEW cost \in {0, 1}, page \in URL \cup {NoUrl},
             FetchBareSeed(page, cost)
      PROVE  Patience'
  <2> DEFINE found == {}
  <2>1. /\ running /\ HasItem /\ Logged("page", page, found) /\ running' = FALSE
        /\ requests < MaxRequests /\ requests' = requests + cost
        /\ "page" \in Outcome /\ found \in SUBSET URL
    BY <1>6 DEF FetchBareSeed, Fetching, Stop, Outcome
  <2> HIDE DEF found
  <2>2. QED BY <1>6, <2>1, PatienceStep
<1>7. ASSUME NEW page, NEW cost \in {0, 1}, page \in URL \cup {NoUrl},
             NEW follow \in FollowSets, FetchPage(page, follow, cost)
      PROVE  Patience'
  <2> DEFINE found == Discovered(follow, page)
  <2>1. /\ running /\ HasItem /\ Logged("page", page, found)
        /\ requests < MaxRequests /\ requests' = requests + cost /\ streak' = <<>>
        /\ "page" \in Outcome /\ "page" # "blocked" /\ "page" # "down"
        /\ found \in SUBSET URL
    BY <1>7 DEF FetchPage, Fetching, Outcome, Discovered
  <2>2. Len(streak') < UnavailableAfter
    BY <2>1
  <2> HIDE DEF found
  <2>3. QED BY <1>7, <2>1, <2>2, PatienceStep
<1>8. CASE \E cost \in {0, 1}, target \in RedirectTargets \cup {NoUrl} :
              LET page == IF target = NoUrl THEN NextItem.url ELSE target IN
              \/ FetchBareSeed(page, cost)
              \/ \E follow \in FollowSets : FetchPage(page, follow, cost)
  <2>1. HasItem
    BY <1>8 DEF FetchBareSeed, FetchPage, Fetching
  <2>2. \A target \in RedirectTargets \cup {NoUrl} :
          (IF target = NoUrl THEN NextItem.url ELSE target) \in URL \cup {NoUrl}
    BY <2>1, NextItemProperties DEF Item
  <2>3. QED BY <1>6, <1>7, <1>8, <2>2
<1>9. CASE UNCHANGED vars
  BY <1>9 DEF vars, Patience, Polite, DownSince
<1>10. QED BY <1>1, <1>2, <1>3, <1>4, <1>5, <1>8, <1>9 DEF Next

(* The politeness rules hold for every cap and every UnavailableAfter,      *)
(* whatever the site answers: no request past the cap, none after a block,  *)
(* none after that many failures in a row, wherever in the walk they come.  *)
THEOREM StaysPolite == Spec => []Polite
<1>1. Patience => Polite
  BY DEF Patience
<1>2. QED BY <1>1, InitTyped, NextTyped, InitPatience, NextPatience, PTL DEF Spec

(* Both courtesies together, for any site and bounds. *)
THEOREM StaysCourteous == Spec => []Courteous
BY NeverFetchedTwice, StaysPolite, PTL DEF Courteous

-----------------------------------------------------------------------------
(* The kinds of steps, as what follows needs them.                          *)

(* A fetch that found no page and after which the walk goes on.             *)
GoesPast(outcome) ==
  /\ outcome \in {"down", "gone", "other", "notpage"} /\ NextItem.url # firstSeed
  /\ running' = TRUE /\ stopReason' = stopReason /\ queue' = QueueLeft
  /\ UNCHANGED <<seen, pages>> /\ done' = done \cup {NextItem.url}
  /\ outcome # "down" => streak' = <<>>
  /\ outcome = "down" => streak' = Append(streak, NextItem)
  /\ outcome = "gone" => notFound' = notFound \cup {NextItem.url} /\ errors' = errors
  /\ outcome # "gone" => notFound' = notFound /\ errors' = errors \cup {NextItem.url}

(* One that read a page.                                                    *)
ReadsPage(page, found) ==
  /\ page \in URL /\ found \cap (seen \cup {page}) = {}
  /\ running' = TRUE /\ stopReason' = stopReason
  /\ \E order \in Orderings(found) : queue' = Enqueue(order)
  /\ seen' = seen \cup {page} \cup found /\ done' = done \cup {NextItem.url, page}
  /\ pages' = pages \cup {[requested |-> NextItem.url, url |-> page, source |-> NextItem.source]}
  /\ streak' = <<>> /\ UNCHANGED <<notFound, errors>>

(* And one on which the walk stops.                                         *)
StopsOn(outcome) ==
  /\ UNCHANGED <<seen, pages>> /\ done' = done \cup {NextItem.url}
  /\ \/ /\ outcome = "blocked" /\ Stop("blocked", <<NextItem>>)
        /\ UNCHANGED <<notFound, errors>>
     \/ /\ outcome # "blocked" /\ NextItem.url = firstSeed /\ Stop("seed_failed", <<NextItem>>)
        /\ \/ notFound' = notFound /\ errors' = errors \cup {NextItem.url}
           \/ errors' = errors /\ notFound' = notFound \cup {NextItem.url}
     \/ /\ outcome = "down" /\ NextItem.url # firstSeed /\ Stop("unavailable", Append(streak, NextItem))
        /\ notFound' = notFound /\ errors' = errors \cup {NextItem.url}

Fetches(outcome, page, found) ==
  /\ running /\ HasItem
  /\ requests < MaxRequests /\ requests' \in {requests, requests + 1}
  /\ revisits' = RevisitsLeft /\ UNCHANGED <<seeds, held>>
  /\ Logged(outcome, page, found)
  /\ \/ page = NoUrl /\ found = {} /\ GoesPast(outcome)
     \/ outcome = "page" /\ ReadsPage(page, found)
     \/ found = {} /\ StopsOn(outcome)

LEMMA StepCases ==
  ASSUME TypeOK, Next
  PROVE  \/ Finish
         \/ CapReached
         \/ \E outcome \in Outcome, page \in URL \cup {NoUrl}, found \in SUBSET URL :
              Fetches(outcome, page, found)
<1> USE CrawlAssumption
<1> DEFINE Some == \E outcome \in Outcome, page \in URL \cup {NoUrl}, found \in SUBSET URL :
                     Fetches(outcome, page, found)
<1>1. ASSUME NEW outcome \in Outcome, NEW page \in URL \cup {NoUrl}, NEW found \in SUBSET URL,
             Fetches(outcome, page, found)
      PROVE  Some
  BY <1>1
<1> HIDE DEF Some
<1> DEFINE nothing == {}
<1>2. nothing \in SUBSET URL /\ nothing = {} /\ NoUrl \in URL \cup {NoUrl}
  OBVIOUS
<1> HIDE DEF nothing
<1>3. CASE FetchBlocked
  <2>1. "blocked" \in Outcome /\ Fetches("blocked", NoUrl, nothing)
    BY <1>2, <1>3 DEF FetchBlocked, Fetching, Fetches, StopsOn, Outcome
  <2>2. Some
    BY <1>1, <1>2, <2>1
  <2>3. QED BY <2>2 DEF Some
<1>4. CASE FetchDown
  <2>1. StopsOn("down") \/ GoesPast("down")
    <3>1. CASE NextItem.url = firstSeed
      BY <1>4, <3>1 DEF FetchDown, StopsOn
    <3>2. CASE NextItem.url # firstSeed
      BY <1>4, <3>2 DEF FetchDown, StopsOn, GoesPast, GoOn
    <3>3. QED BY <3>1, <3>2
  <2>2. "down" \in Outcome /\ Fetches("down", NoUrl, nothing)
    BY <1>2, <1>4, <2>1 DEF FetchDown, Fetching, Fetches, Outcome
  <2>3. Some
    BY <1>1, <1>2, <2>2
  <2>4. QED BY <2>3 DEF Some
<1>5. ASSUME NEW outcome \in {"gone", "other", "notpage"}, NEW cost \in {0, 1},
             FetchNoPage(outcome, cost)
      PROVE  Some
  <2>1. StopsOn(outcome) \/ GoesPast(outcome)
    <3>1. CASE NextItem.url = firstSeed
      BY <1>5, <3>1 DEF FetchNoPage, StopsOn
    <3>2. CASE NextItem.url # firstSeed
      BY <1>5, <3>2 DEF FetchNoPage, GoesPast, GoOn
    <3>3. QED BY <3>1, <3>2
  <2>2. requests' \in {requests, requests + 1} /\ requests \in Nat
    BY <1>5 DEF FetchNoPage, Fetching, TypeOK
  <2>3. outcome \in Outcome /\ Fetches(outcome, NoUrl, nothing)
    BY <1>2, <1>5, <2>1, <2>2 DEF FetchNoPage, Fetching, Fetches, Outcome
  <2>4. QED BY <1>1, <1>2, <2>3
<1>6. ASSUME NEW page, NEW cost \in {0, 1}, page \in URL \cup {NoUrl},
             FetchBareSeed(page, cost)
      PROVE  Some
  <2>1. requests' \in {requests, requests + 1} /\ requests \in Nat
    BY <1>6 DEF FetchBareSeed, Fetching, TypeOK
  <2>2. "page" \in Outcome /\ Fetches("page", page, nothing)
    BY <1>2, <1>6, <2>1 DEF FetchBareSeed, Fetching, Fetches, StopsOn, Outcome
  <2>3. QED BY <1>1, <1>2, <1>6, <2>2
<1>7. ASSUME NEW page, NEW cost \in {0, 1}, page \in URL,
             NEW follow \in FollowSets, FetchPage(page, follow, cost)
      PROVE  Some
  <2> DEFINE found == Discovered(follow, page)
  <2>1. found \in SUBSET URL /\ found \cap (seen \cup {page}) = {}
    BY DEF Discovered
  <2>2. requests' \in {requests, requests + 1} /\ requests \in Nat
    BY <1>7 DEF FetchPage, Fetching, TypeOK
  <2>3. /\ ReadsPage(page, found)
        /\ Logged("page", page, found)
    BY <1>7, <2>1 DEF FetchPage, ReadsPage, GoOn
  <2> HIDE DEF found
  <2>4. "page" \in Outcome /\ Fetches("page", page, found)
    BY <1>7, <2>2, <2>3 DEF FetchPage, Fetching, Fetches, Outcome
  <2>5. QED BY <1>1, <1>7, <2>1, <2>4
<1>8. CASE \E cost \in {0, 1}, target \in RedirectTargets \cup {NoUrl} :
              LET page == IF target = NoUrl THEN NextItem.url ELSE target IN
              \/ FetchBareSeed(page, cost)
              \/ \E follow \in FollowSets : FetchPage(page, follow, cost)
  <2>1. HasItem
    BY <1>8 DEF FetchBareSeed, FetchPage, Fetching
  <2>2. \A target \in RedirectTargets \cup {NoUrl} :
          (IF target = NoUrl THEN NextItem.url ELSE target) \in URL
    BY <2>1, NextItemProperties DEF Item
  <2>3. Some
    BY <1>6, <1>7, <1>8, <2>2
  <2>4. QED BY <2>3 DEF Some
<1>9. CASE Finish \/ CapReached
  BY <1>9
<1>10. CASE \E outcome \in {"gone", "other", "notpage"}, cost \in {0, 1} : FetchNoPage(outcome, cost)
  <2>1. Some
    BY <1>5, <1>10
  <2>2. QED BY <2>1 DEF Some
<1>11. QED BY <1>3, <1>4, <1>8, <1>9, <1>10 DEF Next

(* What a fetch adds to the log.                                            *)
Pointed == {log[i].page : i \in DOMAIN log}

LEMMA LogIs ==
  ASSUME TypeOK, HasItem, NEW outcome \in Outcome, NEW page \in URL \cup {NoUrl},
         NEW found \in SUBSET URL, Logged(outcome, page, found)
  PROVE  /\ Len(log) \in Nat /\ Len(log') = Len(log) + 1
         /\ DOMAIN log = 1..Len(log) /\ DOMAIN log' = 1..(Len(log) + 1)
         /\ \A i \in 1..Len(log) : log'[i] = log[i]
         /\ log'[Len(log) + 1].url = NextItem.url /\ log'[Len(log) + 1].source = NextItem.source
         /\ log'[Len(log) + 1].outcome = outcome /\ log'[Len(log) + 1].page = page
         /\ log'[Len(log) + 1].found = found
         /\ Fetched' = Fetched \cup {NextItem.url} /\ Pointed' = Pointed \cup {page}
<1> DEFINE fetch == [url |-> NextItem.url, source |-> NextItem.source,
                     outcome |-> outcome, page |-> page, found |-> found]
<1>1. log \in Seq(Fetch) /\ log' = Append(log, fetch)
  BY DEF TypeOK, Logged
<1>2. /\ Len(log) \in Nat /\ Len(log') = Len(log) + 1
      /\ DOMAIN log = 1..Len(log) /\ DOMAIN log' = 1..(Len(log) + 1)
      /\ \A i \in 1..Len(log) : log'[i] = log[i]
  BY LogProperties
<1>3. log'[Len(log) + 1] = fetch
  <2>1. fetch \in Fetch
    BY NextItemProperties DEF Fetch, Item
  <2> HIDE DEF fetch
  <2>2. QED BY <1>1, <2>1, AppendProperties
<1>4. /\ log'[Len(log) + 1].url = NextItem.url /\ log'[Len(log) + 1].source = NextItem.source
      /\ log'[Len(log) + 1].outcome = outcome /\ log'[Len(log) + 1].page = page
      /\ log'[Len(log) + 1].found = found
  BY <1>3
<1> HIDE DEF fetch
<1>5. \A i : i \in DOMAIN log' <=> i \in DOMAIN log \/ i = Len(log) + 1
  BY <1>2
<1>6. Fetched' = Fetched \cup {NextItem.url}
  BY <1>2, <1>4, <1>5 DEF Fetched
<1>7. Pointed' = Pointed \cup {page}
  BY <1>2, <1>4, <1>5 DEF Pointed
<1>8. QED BY <1>2, <1>4, <1>6, <1>7

(* What is left when an item is taken.                                      *)
LEMMA QueueTaken ==
  ASSUME TypeOK, HasItem, queue # <<>>
  PROVE  /\ Len(QueueLeft) \in Nat /\ Len(queue) = Len(QueueLeft) + 1
         /\ DOMAIN QueueLeft = 1..Len(QueueLeft) /\ DOMAIN queue = 1..(Len(QueueLeft) + 1)
         /\ \A i \in 1..Len(QueueLeft) : QueueLeft[i] = queue[i + 1]
         /\ NextItem = queue[1] /\ RevisitsLeft = revisits
<1>1. QueueLeft = Tail(queue) /\ NextItem = queue[1] /\ queue \in Seq(Item)
  BY NextItemProperties DEF TypeOK
<1>2. /\ Len(queue) \in Nat \ {0} /\ DOMAIN queue = 1..Len(queue)
      /\ Tail(queue) \in Seq(Item) /\ Len(Tail(queue)) = Len(queue) - 1
      /\ \A i \in 1..(Len(queue) - 1) : Tail(queue)[i] = queue[i + 1]
  BY <1>1, LenProperties, EmptySeq, HeadTailProperties
<1>3. DOMAIN Tail(queue) = 1..(Len(queue) - 1)
  BY <1>2, LenProperties
<1>4. RevisitsLeft = revisits
  BY DEF RevisitsLeft
<1>5. QED BY <1>1, <1>2, <1>3, <1>4

LEMMA RevisitTaken ==
  ASSUME TypeOK, HasItem, queue = <<>>
  PROVE  /\ Len(revisits) \in Nat /\ DOMAIN revisits = 1..Len(revisits)
         /\ QueueLeft = <<>> /\ NextItem = [url |-> revisits[FirstOpen], source |-> "revisit"]
         /\ FirstOpen \in 1..Len(revisits) /\ revisits[FirstOpen] \notin done
         /\ \A i \in 1..Len(revisits) : i < FirstOpen => revisits[i] \in done
         /\ DOMAIN RevisitsLeft = 1..(Len(revisits) - FirstOpen)
         /\ \A i \in 1..(Len(revisits) - FirstOpen) : RevisitsLeft[i] = revisits[FirstOpen + i]
<1>1. revisits \in Seq(URL) /\ Len(revisits) \in Nat /\ DOMAIN revisits = 1..Len(revisits)
  BY LenProperties DEF TypeOK
<1>2. OpenRevisits \in SUBSET Nat /\ OpenRevisits # {} /\ OpenRevisits \subseteq 1..Len(revisits)
  BY <1>1 DEF HasItem, OpenRevisits
<1>3. FirstOpen \in OpenRevisits /\ \A j \in OpenRevisits : FirstOpen <= j
  <2>1. \E i \in OpenRevisits : \A j \in OpenRevisits : i <= j
    BY <1>2, LeastNatural
  <2>2. QED BY <2>1 DEF FirstOpen
<1>4. FirstOpen \in 1..Len(revisits) /\ revisits[FirstOpen] \notin done
  BY <1>1, <1>2, <1>3 DEF OpenRevisits
<1>5. ASSUME NEW i \in 1..Len(revisits), i < FirstOpen PROVE revisits[i] \in done
  <2> SUFFICES ASSUME i \in OpenRevisits PROVE FALSE
    BY <1>1 DEF OpenRevisits
  <2>1. FirstOpen <= i /\ FirstOpen \in Nat
    BY <1>3, <1>4
  <2>2. QED BY <1>5, <2>1
<1>6. QueueLeft = <<>> /\ NextItem = [url |-> revisits[FirstOpen], source |-> "revisit"]
      /\ RevisitsLeft = SubSeq(revisits, FirstOpen + 1, Len(revisits))
  BY DEF QueueLeft, NextItem, RevisitsLeft
<1>7. /\ RevisitsLeft \in Seq(URL) /\ Len(RevisitsLeft) = Len(revisits) - FirstOpen
      /\ \A i \in 1..(Len(revisits) - FirstOpen) : RevisitsLeft[i] = revisits[FirstOpen + i]
  BY <1>1, <1>4, <1>6, AfterProperties
<1>8. DOMAIN RevisitsLeft = 1..(Len(revisits) - FirstOpen)
  BY <1>7, LenProperties
<1>9. QED BY <1>1, <1>4, <1>5, <1>6, <1>7, <1>8

(* Nothing is lost by taking an item but the item and revisits passed over. *)
LEMMA NothingElseTaken ==
  ASSUME TypeOK, HasItem
  PROVE  /\ Urls(queue) \subseteq Urls(QueueLeft) \cup {NextItem.url}
         /\ Urls(QueueLeft) \subseteq Urls(queue)
         /\ Range(revisits) \subseteq Range(RevisitsLeft) \cup {NextItem.url} \cup done
<1>1. CASE queue # <<>>
  <2>1. \A i \in DOMAIN queue : i = 1 \/ (i - 1 \in DOMAIN QueueLeft /\ queue[i] = QueueLeft[i - 1])
    BY <1>1, QueueTaken
  <2>2. \A i \in DOMAIN QueueLeft : i + 1 \in DOMAIN queue /\ QueueLeft[i] = queue[i + 1]
    BY <1>1, QueueTaken
  <2>3. QED BY <1>1, <2>1, <2>2, QueueTaken DEF Urls
<1>2. CASE queue = <<>>
  <2>1. Urls(queue) = {} /\ Urls(QueueLeft) = {}
    BY <1>2, RevisitTaken DEF Urls
  <2>2. ASSUME NEW i \in DOMAIN revisits
        PROVE  revisits[i] \in Range(RevisitsLeft) \cup {NextItem.url} \cup done
    <3>1. i \in Nat /\ FirstOpen \in Nat /\ i \in 1..Len(revisits) /\ Len(revisits) \in Nat
      BY <1>2, RevisitTaken
    <3>2. CASE i < FirstOpen
      BY <1>2, <3>1, <3>2, RevisitTaken
    <3>3. CASE i = FirstOpen
      BY <1>2, <3>3, RevisitTaken
    <3>4. CASE i > FirstOpen
      <4>1. i - FirstOpen \in 1..(Len(revisits) - FirstOpen) /\ FirstOpen + (i - FirstOpen) = i
        BY <3>1, <3>4
      <4>2. i - FirstOpen \in DOMAIN RevisitsLeft /\ RevisitsLeft[i - FirstOpen] = revisits[i]
        BY <1>2, <4>1, RevisitTaken
      <4>3. QED BY <4>2 DEF Range
    <3>5. QED BY <3>1, <3>2, <3>3, <3>4
  <2>3. QED BY <2>1, <2>2 DEF Range
<1>3. QED BY <1>1, <1>2

(* The queue after links were found, in order.                              *)
LEMMA EnqueueIs ==
  ASSUME TypeOK, HasItem, NEW found \in SUBSET URL, NEW order \in Orderings(found)
  PROVE  /\ Len(QueueLeft) \in Nat /\ Len(order) \in Nat
         /\ DOMAIN QueueLeft = 1..Len(QueueLeft)
         /\ DOMAIN Enqueue(order) = 1..(Len(QueueLeft) + Len(order))
         /\ \A i \in 1..Len(QueueLeft) : Enqueue(order)[i] = QueueLeft[i]
         /\ \A i \in 1..Len(order) :
              /\ order[i] \in found
              /\ Enqueue(order)[Len(QueueLeft) + i].url = order[i]
              /\ Enqueue(order)[Len(QueueLeft) + i].source = "link"
         /\ Urls(Enqueue(order)) = Urls(QueueLeft) \cup found
<1> DEFINE links == Items(order, "link")
           left == QueueLeft
           all == left \o links
<1>1. /\ order \in Seq(URL) /\ DOMAIN order = 1..Len(order) /\ Len(order) \in Nat
      /\ \A u : (\E i \in DOMAIN order : order[i] = u) <=> u \in found
  BY SubsetFinite, OrderingIsSeq, SeqMonotonic, LenProperties
<1>2. \A i \in 1..Len(order) : links[i].url = order[i] /\ links[i].source = "link"
  BY <1>1 DEF Items
<1>3. links \in Seq(Item) /\ Len(links) = Len(order)
  BY <1>1, ItemsProperties DEF Source
<1>4. left \in Seq(Item)
  BY NextItemProperties
<1>5. Enqueue(order) = all
  BY DEF Enqueue
<1> HIDE DEF links, left
<1>6. /\ all \in Seq(Item) /\ Len(all) = Len(left) + Len(links)
      /\ \A i \in 1..(Len(left) + Len(links)) : all[i] =
           IF i <= Len(left) THEN left[i] ELSE links[i - Len(left)]
  BY ONLY <1>3, <1>4, ConcatProperties
<1> HIDE DEF all
<1>7. /\ Len(left) \in Nat /\ DOMAIN left = 1..Len(left)
      /\ DOMAIN all = 1..(Len(left) + Len(order))
  BY <1>3, <1>4, <1>6, LenProperties
<1>8. \A i \in 1..Len(left) : all[i] = left[i] /\ i \in DOMAIN all
  BY <1>1, <1>3, <1>6, <1>7
<1>9. ASSUME NEW i \in 1..Len(order)
      PROVE  /\ order[i] \in found /\ Len(left) + i \in DOMAIN all
             /\ all[Len(left) + i].url = order[i] /\ all[Len(left) + i].source = "link"
  <2>1. /\ Len(left) + i \in 1..(Len(left) + Len(order)) /\ ~(Len(left) + i <= Len(left))
        /\ (Len(left) + i) - Len(left) = i
    BY <1>1, <1>7
  <2>2. all[Len(left) + i] = links[i]
    BY <1>3, <1>6, <2>1
  <2>3. order[i] \in found
    BY <1>1
  <2>4. QED BY <1>2, <1>7, <2>1, <2>2, <2>3
<1>10. \A k \in DOMAIN all : k \in 1..Len(left) \/ \E i \in 1..Len(order) : k = Len(left) + i
  <2> TAKE k \in DOMAIN all
  <2>1. CASE k <= Len(left)
    BY <1>1, <1>7, <2>1
  <2>2. CASE ~(k <= Len(left))
    <3>1. k - Len(left) \in 1..Len(order) /\ k = Len(left) + (k - Len(left))
      BY <1>1, <1>7, <2>2
    <3>2. QED BY <3>1
  <2>3. QED BY <2>1, <2>2
<1>11. Urls(all) = Urls(left) \cup found
  <2>1. \A k \in DOMAIN all : all[k].url \in Urls(left) \cup found
    <3> TAKE k \in DOMAIN all
    <3>1. CASE k \in 1..Len(left)
      BY <1>7, <1>8, <3>1 DEF Urls
    <3>2. CASE \E i \in 1..Len(order) : k = Len(left) + i
      <4>1. PICK i \in 1..Len(order) : k = Len(left) + i
        BY <3>2
      <4>2. QED BY <1>9, <4>1
    <3>3. QED BY <1>10, <3>1, <3>2
  <2>2. ASSUME NEW u \in found PROVE \E k \in DOMAIN all : all[k].url = u
    <3>1. PICK i \in 1..Len(order) : order[i] = u
      BY <1>1
    <3>2. QED BY <1>9, <3>1
  <2>3. \A k \in DOMAIN left : k \in DOMAIN all /\ all[k].url = left[k].url
    BY <1>7, <1>8
  <2>4. QED BY <2>1, <2>2, <2>3 DEF Urls
<1>12. QED BY <1>1, <1>5, <1>7, <1>8, <1>9, <1>11 DEF left

-----------------------------------------------------------------------------
(* The walk implements PoliteCrawl.                                         *)

(* What the walk knows is fetched, settled, or still waits; and it goes on  *)
(* only while nothing has stopped it.                                       *)
Covered ==
  /\ done \subseteq Fetched \cup Pointed
  /\ running => /\ stopReason = "none"
                /\ seen \subseteq Fetched \cup Pointed \cup Urls(queue) \cup Range(revisits)

LEMMA InitCovered == Init => Covered
<1> SUFFICES ASSUME NEW list \in SeedLists, NEW indexed \in SUBSET HeldPages,
                    NEW order \in Orderings(indexed \ Range(list)), Started(list, order)
             PROVE  Covered
  BY DEF Init
<1>1. /\ done = {} /\ stopReason = "none" /\ revisits = order /\ queue = Items(list, "seed")
      /\ seen = Range(list) \cup Range(order)
  BY DEF Started
<1>2. DOMAIN queue = DOMAIN list /\ \A i \in DOMAIN list : queue[i].url = list[i]
  BY <1>1 DEF Items
<1>3. Range(list) \subseteq Urls(queue)
  BY <1>2 DEF Urls, Range
<1>4. QED BY <1>1, <1>3 DEF Covered

(* A fetch covers its item and what its page led to.                        *)
LEMMA FetchCovered ==
  ASSUME TypeOK, Covered, NEW outcome \in Outcome, NEW page \in URL \cup {NoUrl},
         NEW found \in SUBSET URL, Fetches(outcome, page, found)
  PROVE  Covered'
<1>1. HasItem /\ running /\ Logged(outcome, page, found) /\ revisits' = RevisitsLeft
  BY DEF Fetches
<1>2. Fetched' = Fetched \cup {NextItem.url} /\ Pointed' = Pointed \cup {page}
  BY <1>1, LogIs
<1>3. done' \subseteq Fetched' \cup Pointed'
  BY <1>2 DEF Fetches, GoesPast, ReadsPage, StopsOn, Covered
<1>4. CASE running' = FALSE
  BY <1>3, <1>4 DEF Covered
<1>5. CASE page = NoUrl /\ found = {} /\ GoesPast(outcome)
  <2>1. stopReason' = "none" /\ seen' = seen /\ queue' = QueueLeft
    BY <1>1, <1>5 DEF GoesPast, Covered
  <2>2. seen' \subseteq Fetched' \cup Pointed' \cup Urls(QueueLeft) \cup Range(RevisitsLeft)
    BY <1>1, <1>2, <2>1, NothingElseTaken DEF Covered
  <2>3. Urls(queue') = Urls(QueueLeft) /\ Range(revisits') = Range(RevisitsLeft)
    BY <1>1, <2>1
  <2>4. Urls(queue)' = Urls(queue') /\ Range(revisits)' = Range(revisits')
    BY DEF Urls, Range
  <2>5. QED BY <1>3, <2>1, <2>2, <2>3, <2>4 DEF Covered
<1>6. CASE outcome = "page" /\ ReadsPage(page, found)
  <2>1. stopReason' = "none" /\ seen' = seen \cup {page} \cup found
    BY <1>1, <1>6 DEF ReadsPage, Covered
  <2>2. PICK order \in Orderings(found) : queue' = Enqueue(order)
    BY <1>6 DEF ReadsPage
  <2>3. Urls(queue') = Urls(QueueLeft) \cup found
    BY <1>1, <2>2, EnqueueIs
  <2>4. seen' \subseteq Fetched' \cup Pointed' \cup Urls(queue') \cup Range(RevisitsLeft)
    BY <1>1, <1>2, <2>1, <2>3, NothingElseTaken DEF Covered
  <2>5. Urls(queue)' = Urls(queue') /\ Range(revisits)' = Range(RevisitsLeft)
    BY <1>1 DEF Urls, Range
  <2>6. QED BY <1>3, <2>1, <2>4, <2>5 DEF Covered
<1>7. CASE StopsOn(outcome)
  BY <1>4, <1>7 DEF StopsOn, Stop
<1>8. QED BY <1>5, <1>6, <1>7 DEF Fetches

LEMMA NextCovered == TypeOK /\ Covered /\ [Next]_vars => Covered'
<1> SUFFICES ASSUME TypeOK, Covered, [Next]_vars PROVE Covered'
  OBVIOUS
<1>1. CASE UNCHANGED vars
  BY <1>1 DEF vars, Covered, Fetched, Pointed, Urls, Range
<1>2. CASE Finish
  BY <1>2 DEF Finish, Covered, Fetched, Pointed
<1>3. CASE CapReached
  BY <1>3 DEF CapReached, Stop, Covered, Fetched, Pointed
<1>4. CASE Next
  BY <1>2, <1>3, <1>4, StepCases, FetchCovered
<1>5. QED BY <1>1, <1>4

LEMMA InitPromised == Init => Promise!Init
<1> SUFFICES ASSUME Init PROVE Promise!Init
  OBVIOUS
<1>1. log = <<>> /\ running = TRUE /\ requests = 0
  BY DEF Init, Started
<1>2. seen \in SUBSET URL
  BY InitTyped DEF TypeOK
<1>3. Fetched = {} /\ {log[i].page : i \in DOMAIN log} \cap seen = {} /\ Ending = "no"
  BY <1>1 DEF Fetched, Ending
<1>4. QED BY <1>1, <1>2, <1>3 DEF Promise!Init

(* Each step of the walk is a visit, running out, completing, or none.      *)
LEMMA FetchPromised ==
  ASSUME TypeOK, Walk, Covered, NEW outcome \in Outcome, NEW page \in URL \cup {NoUrl},
         NEW found \in SUBSET URL, Fetches(outcome, page, found), seen' \in SUBSET URL
  PROVE  Promise!Visit
<1>1. HasItem /\ running /\ Logged(outcome, page, found) /\ stopReason = "none"
  BY DEF Fetches, Covered
<1>2. Fetched' = Fetched \cup {NextItem.url} /\ Pointed' = Pointed \cup {page}
  BY <1>1, LogIs
<1>3. NextItem.url \in seen \ Fetched
  BY <1>1, TakeProperties
<1>4. requests < MaxRequests /\ requests' \in {requests, requests + 1}
  BY DEF Fetches
<1>5. seen \subseteq seen'
  BY DEF Fetches, GoesPast, ReadsPage, StopsOn
<1>6. Ending = "no" /\ Ending' \in {"no", "partial"}
  <2>1. running' = TRUE \/ (running' = FALSE /\ stopReason' # "none")
    BY DEF Fetches, GoesPast, ReadsPage, StopsOn, Stop
  <2>2. QED BY <1>1, <2>1 DEF Ending
<1>7. Pointed \cap seen \subseteq (Pointed \cap seen)' /\ (Pointed \cap seen)' \subseteq seen'
  BY <1>2, <1>5
<1>8. QED BY <1>2, <1>3, <1>4, <1>5, <1>6, <1>7 DEF Promise!Visit, Pointed

LEMMA NextPromised ==
  TypeOK /\ TypeOK' /\ Walk /\ Covered /\ [Next]_vars
    => [Promise!Next]_<<seen, Fetched, {log[i].page : i \in DOMAIN log} \cap seen, requests, Ending>>
<1> SUFFICES ASSUME TypeOK, TypeOK', Walk, Covered, [Next]_vars
             PROVE  Promise!Next \/ UNCHANGED <<seen, Fetched, {log[i].page : i \in DOMAIN log} \cap seen, requests, Ending>>
  OBVIOUS
<1>1. CASE UNCHANGED vars
  BY <1>1 DEF vars, Fetched, Ending
<1>2. CASE Finish
  <2>1. running /\ ~HasItem /\ running' = FALSE /\ UNCHANGED <<seen, log, requests, stopReason>>
    BY <1>2 DEF Finish
  <2>2. queue = <<>> /\ \A i \in DOMAIN revisits : revisits[i] \in done
    BY <2>1 DEF HasItem, OpenRevisits
  <2>3. Urls(queue) = {} /\ Range(revisits) \subseteq done
    BY <2>2 DEF Urls, Range
  <2>4. seen \subseteq Fetched \cup (Pointed \cap seen)
    BY <2>1, <2>3 DEF Covered
  <2>5. Ending = "no" /\ Ending' = "complete"
    BY <2>1 DEF Ending, Covered
  <2>6. QED BY <2>1, <2>4, <2>5 DEF Promise!Next, Promise!Complete, Pointed, Fetched
<1>3. CASE CapReached
  <2>1. /\ running /\ HasItem /\ running' = FALSE /\ stopReason' = "max_requests"
        /\ UNCHANGED <<seen, log, requests>> /\ requests >= MaxRequests
    BY <1>3 DEF CapReached, Stop
  <2>2. NextItem.url \in seen \ Fetched
    BY <2>1, TakeProperties
  <2>3. Ending = "no" /\ Ending' = "partial"
    BY <2>1 DEF Ending
  <2>4. QED BY <2>1, <2>2, <2>3 DEF Promise!Next, Promise!RunOut, Fetched
<1>4. CASE Next
  <2>1. seen' \in SUBSET URL
    BY DEF TypeOK
  <2>2. QED BY <1>2, <1>3, <1>4, <2>1, StepCases, FetchPromised DEF Promise!Next
<1>5. QED BY <1>1, <1>4

(* The walk implements PoliteCrawl for every site, seeds and bounds: every  *)
(* fetch is a first visit within the budget to an address already known,    *)
(* and a run calls itself complete only when every address it knows was     *)
(* fetched or is where a fetched page said it lives.                        *)
THEOREM WalkKeepsPromise == Spec => ImplementsPromise
<1>1. Spec => []TypeOK /\ []Walk /\ []Covered
  BY InitTyped, NextTyped, InitWalk, NextWalk, InitCovered, NextCovered, PTL DEF Spec
<1>2. QED BY <1>1, InitPromised, NextPromised, PTL DEF Spec, ImplementsPromise, Promise!Spec

-----------------------------------------------------------------------------
(* Nothing is forgotten.                                                    *)

(* What a stop leaves in the queue: the items it puts back and the rest.    *)
LEMMA StopQueue ==
  ASSUME TypeOK, HasItem, NEW reason, NEW items \in Seq(Item), Stop(reason, items)
  PROVE  /\ reason = "seed_failed" => queue' = QueueLeft
         /\ reason # "seed_failed" =>
              \A u : u \in Urls(queue') <=>
                u \in Urls(QueueLeft)
                  \/ \E k \in DOMAIN items : items[k].source # "revisit" /\ items[k].url = u
<1>1. reason = "seed_failed" => queue' = QueueLeft
  BY DEF Stop
<1>2. ASSUME reason # "seed_failed", NEW u
      PROVE  u \in Urls(queue') <=>
               u \in Urls(QueueLeft)
                 \/ \E k \in DOMAIN items : items[k].source # "revisit" /\ items[k].url = u
  <2>1. PICK kept \in Orderings(KeptItems(items)) : queue' = kept \o QueueLeft
    BY <1>2 DEF Stop
  <2>2. IsFiniteSet(KeptItems(items)) /\ KeptItems(items) \subseteq Item
    <3>1. KeptItems(items) \in SUBSET Range(items)
      BY DEF KeptItems
    <3>2. QED BY <3>1, RangeFinite, FS_Subset
  <2>3. /\ kept \in Seq(Item) /\ DOMAIN kept = 1..Len(kept)
        /\ \A it : (\E k \in DOMAIN kept : kept[k] = it) <=> it \in KeptItems(items)
    BY <2>2, OrderingIsSeq, SeqMonotonic
  <2> DEFINE left == QueueLeft
             all == kept \o left
  <2>4. left \in Seq(Item)
    BY NextItemProperties
  <2>5. (\E k \in DOMAIN kept : kept[k].url = u) <=>
        \E k \in DOMAIN items : items[k].source # "revisit" /\ items[k].url = u
    BY <2>3 DEF KeptItems, Range
  <2> HIDE DEF left
  <2>6. /\ all \in Seq(Item) /\ Len(all) = Len(kept) + Len(left)
        /\ \A i \in 1..(Len(kept) + Len(left)) : all[i] =
             IF i <= Len(kept) THEN kept[i] ELSE left[i - Len(kept)]
    BY ONLY <2>3, <2>4, ConcatProperties
  <2> HIDE DEF all
  <2>7. /\ Len(left) \in Nat /\ DOMAIN left = 1..Len(left)
        /\ Len(kept) \in Nat /\ DOMAIN kept = 1..Len(kept)
        /\ DOMAIN all = 1..(Len(kept) + Len(left))
    BY <2>3, <2>4, <2>6, LenProperties
  <2>8. \A i \in DOMAIN kept : i \in DOMAIN all /\ all[i] = kept[i]
    BY <2>6, <2>7
  <2>9. \A i \in DOMAIN left : Len(kept) + i \in DOMAIN all /\ all[Len(kept) + i] = left[i]
    <3> TAKE i \in DOMAIN left
    <3>1. /\ Len(kept) + i \in 1..(Len(kept) + Len(left)) /\ ~(Len(kept) + i <= Len(kept))
          /\ (Len(kept) + i) - Len(kept) = i
      BY <2>7
    <3>2. QED BY <2>6, <2>7, <3>1
  <2>10. \A i \in DOMAIN all : \/ i \in DOMAIN kept /\ all[i] = kept[i]
                               \/ i - Len(kept) \in DOMAIN left /\ all[i] = left[i - Len(kept)]
    BY <2>6, <2>7
  <2>11. u \in Urls(all) <=> u \in Urls(left) \/ \E k \in DOMAIN kept : kept[k].url = u
    BY <2>8, <2>9, <2>10 DEF Urls
  <2>12. QED BY <2>1, <2>5, <2>11 DEF all, left
<1>3. QED BY <1>1, <1>2

(* The item in hand as the only item of a stop.                             *)
LEMMA StopOnItem ==
  ASSUME TypeOK, HasItem, NEW reason, Stop(reason, <<NextItem>>), reason # "seed_failed"
  PROVE  /\ NextItem.source # "revisit" => Urls(queue') = Urls(QueueLeft) \cup {NextItem.url}
         /\ NextItem.source = "revisit" => Urls(queue') = Urls(QueueLeft)
<1> DEFINE items == <<NextItem>>
<1>1. items \in Seq(Item) /\ Stop(reason, items)
  BY NextItemProperties
<1>2. DOMAIN items = {1} /\ items[1] = NextItem
  OBVIOUS
<1> HIDE DEF items
<1>3. \A u : u \in Urls(queue') <=>
          u \in Urls(QueueLeft)
            \/ \E k \in DOMAIN items : items[k].source # "revisit" /\ items[k].url = u
  BY <1>1, StopQueue
<1>4. QED BY <1>2, <1>3

(* How the queue goes on when the walk does.                                *)
LEMMA QueueGrows ==
  ASSUME TypeOK, NEW outcome \in Outcome, NEW page \in URL \cup {NoUrl},
         NEW found \in SUBSET URL, Fetches(outcome, page, found), running' = TRUE
  PROVE  /\ Len(QueueLeft) \in Nat /\ DOMAIN QueueLeft = 1..Len(QueueLeft)
         /\ \A k \in DOMAIN queue' :
              \/ k \in DOMAIN QueueLeft
              \/ k > Len(QueueLeft) /\ k \in Nat
                   /\ queue'[k].url \in found /\ queue'[k].source = "link"
         /\ \A k \in DOMAIN QueueLeft : k \in DOMAIN queue' /\ queue'[k] = QueueLeft[k]
         /\ Urls(queue') = Urls(QueueLeft) \cup found
<1>1. HasItem
  BY DEF Fetches
<1>2. Len(QueueLeft) \in Nat /\ DOMAIN QueueLeft = 1..Len(QueueLeft)
  BY <1>1, NextItemProperties, LenProperties
<1>3. CASE found = {} /\ GoesPast(outcome)
  BY <1>2, <1>3 DEF GoesPast
<1>4. CASE ReadsPage(page, found)
  <2>1. PICK order \in Orderings(found) : queue' = Enqueue(order)
    BY <1>4 DEF ReadsPage
  <2> DEFINE next == Enqueue(order)
  <2>2. /\ Len(order) \in Nat /\ DOMAIN next = 1..(Len(QueueLeft) + Len(order))
        /\ \A i \in 1..Len(QueueLeft) : next[i] = QueueLeft[i]
        /\ \A i \in 1..Len(order) :
             /\ order[i] \in found
             /\ next[Len(QueueLeft) + i].url = order[i] /\ next[Len(QueueLeft) + i].source = "link"
        /\ Urls(next) = Urls(QueueLeft) \cup found
    BY <1>1, EnqueueIs
  <2> HIDE DEF next
  <2>3. \A k \in DOMAIN next :
          \/ k \in DOMAIN QueueLeft
          \/ k > Len(QueueLeft) /\ k \in Nat /\ next[k].url \in found /\ next[k].source = "link"
    <3> TAKE k \in DOMAIN next
    <3>1. CASE k <= Len(QueueLeft)
      BY <1>2, <2>2, <3>1
    <3>2. CASE ~(k <= Len(QueueLeft))
      <4>1. k - Len(QueueLeft) \in 1..Len(order) /\ Len(QueueLeft) + (k - Len(QueueLeft)) = k
        BY <1>2, <2>2, <3>2
      <4>2. next[k].url \in found /\ next[k].source = "link"
        BY <2>2, <4>1
      <4>3. QED BY <1>2, <2>2, <3>2, <4>2
    <3>3. QED BY <3>1, <3>2
  <2>4. \A k \in DOMAIN QueueLeft : k \in DOMAIN next /\ next[k] = QueueLeft[k]
    BY <1>2, <2>2
  <2>5. next = queue'
    BY <2>1 DEF next
  <2>6. QED BY <1>2, <2>2, <2>3, <2>4, <2>5
<1>5. CASE StopsOn(outcome)
  BY <1>5 DEF StopsOn, Stop
<1>6. QED BY <1>3, <1>4, <1>5 DEF Fetches

(* What is left of the queue is the queue without its first item.           *)
LEMMA QueueShifts ==
  ASSUME TypeOK, HasItem
  PROVE  /\ \A k \in DOMAIN QueueLeft : k \in Nat /\ k + 1 \in DOMAIN queue /\ QueueLeft[k] = queue[k + 1]
         /\ \A k \in DOMAIN queue :
              /\ k \in Nat
              /\ \/ k = 1 /\ queue[k] = NextItem
                 \/ k - 1 \in DOMAIN QueueLeft /\ queue[k] = QueueLeft[k - 1]
<1>1. CASE queue # <<>>
  BY <1>1, QueueTaken
<1>2. CASE queue = <<>>
  BY <1>2, RevisitTaken
<1>3. QED BY <1>1, <1>2

(* What is re-read is held; and while the walk runs, a failure is followed  *)
(* by an answer or its item is still in the streak, so that a stop on the   *)
(* streak puts back exactly the failures nothing has answered after.        *)
Remembers ==
  /\ Range(revisits) \subseteq Range(held)
  /\ running =>
       /\ \A k \in DOMAIN queue : queue[k].source # "revisit"
       /\ \A k \in DOMAIN streak : streak[k].source = "revisit" => streak[k].url \in Range(held)
       /\ \A i \in DOMAIN log : log[i].outcome = "down" =>
            \/ \E j \in DOMAIN log : j > i /\ log[j].outcome # "down"
            \/ \E k \in DOMAIN streak : streak[k].url = log[i].url
  /\ ~running => NothingForgotten

LEMMA InitRemembers == Init => Remembers
<1> SUFFICES ASSUME NEW list \in SeedLists, NEW indexed \in SUBSET HeldPages,
                    NEW order \in Orderings(indexed \ Range(list)), Started(list, order)
             PROVE  Remembers
  BY DEF Init
<1>1. /\ revisits = held /\ queue = Items(list, "seed") /\ streak = <<>> /\ log = <<>> /\ running = TRUE
  BY DEF Started
<1>2. \A k \in DOMAIN queue : queue[k].source # "revisit"
  BY <1>1 DEF Items
<1>3. QED BY <1>1, <1>2 DEF Remembers

LEMMA RevisitIsHeld ==
  ASSUME TypeOK, Remembers, running, HasItem, NextItem.source = "revisit"
  PROVE  NextItem.url \in Range(held)
<1>1. CASE queue # <<>>
  <2>1. 1 \in DOMAIN queue /\ NextItem = queue[1]
    BY <1>1, QueueTaken
  <2>2. QED BY <2>1 DEF Remembers
<1>2. CASE queue = <<>>
  BY <1>2, NextItemProperties DEF Remembers
<1>3. QED BY <1>1, <1>2

(* While the walk runs, what is known is fetched, settled, waits or is held.*)
LEMMA KnownIs ==
  ASSUME TypeOK, Covered, Remembers, Patience, running, NEW u \in seen \ Range(held)
  PROVE  \/ u \in Urls(queue)
         \/ \E i \in DOMAIN log : log[i].page = u
         \/ \E i \in DOMAIN log : log[i].url = u /\ log[i].outcome # "blocked"
<1>1. u \in Fetched \/ u \in Pointed \/ u \in Urls(queue)
  BY DEF Covered, Remembers
<1>2. \A i \in DOMAIN log : log[i].outcome # "blocked"
  BY DEF Patience
<1>3. QED BY <1>1, <1>2 DEF Fetched, Pointed

(* What a running walk forgets is nothing.                                  *)
LEMMA RunningForgetsNothing ==
  TypeOK /\ Covered /\ Remembers /\ Patience => NothingForgotten
<1> SUFFICES ASSUME TypeOK, Covered, Remembers, Patience, running,
                    NEW u \in seen \ Range(held)
             PROVE  u \in Urls(queue) \/ Answered(u) \/ RedirectTarget(u) \/ GivenUp(u)
  BY DEF Remembers, NothingForgotten
<1>1. stopReason # "unavailable"
  BY DEF Covered
<1>2. QED BY <1>1, KnownIs DEF Answered, RedirectTarget, GivenUp

(* A fetch after which the walk goes on.                                    *)
LEMMA GoingOnRemembers ==
  ASSUME TypeOK, Remembers, NEW outcome \in Outcome, NEW page \in URL \cup {NoUrl},
         NEW found \in SUBSET URL, Fetches(outcome, page, found), running' = TRUE
  PROVE  Remembers'
<1>1. /\ HasItem /\ running /\ Logged(outcome, page, found) /\ revisits' = RevisitsLeft
      /\ held' = held
  BY DEF Fetches
<1>2. Range(revisits') \subseteq Range(held')
  BY <1>1, NextItemProperties DEF Remembers
<1>3. \A k \in DOMAIN queue' : queue'[k].source # "revisit"
  <2> TAKE k \in DOMAIN queue'
  <2>1. \/ k \in DOMAIN QueueLeft /\ queue'[k] = QueueLeft[k]
        \/ queue'[k].source = "link"
    BY QueueGrows
  <2>2. k \in DOMAIN QueueLeft => k + 1 \in DOMAIN queue /\ QueueLeft[k] = queue[k + 1]
    BY <1>1, QueueShifts
  <2>3. \A m \in DOMAIN queue : queue[m].source # "revisit"
    BY <1>1 DEF Remembers
  <2>4. QED BY <2>1, <2>2, <2>3
<1>4. \/ outcome = "down" /\ streak' = Append(streak, NextItem)
      \/ outcome # "down" /\ streak' = <<>>
  BY DEF Fetches, GoesPast, ReadsPage, StopsOn, Stop
<1>5. /\ Len(log) \in Nat /\ DOMAIN log = 1..Len(log) /\ DOMAIN log' = 1..(Len(log) + 1)
      /\ \A i \in 1..Len(log) : log'[i] = log[i]
      /\ log'[Len(log) + 1].url = NextItem.url /\ log'[Len(log) + 1].outcome = outcome
  BY <1>1, LogIs
<1>6. CASE outcome # "down"
  <2>1. \A i \in DOMAIN log' : log'[i].outcome = "down" =>
          \E j \in DOMAIN log' : j > i /\ log'[j].outcome # "down"
    <3> SUFFICES ASSUME NEW i \in DOMAIN log', log'[i].outcome = "down"
                 PROVE  \E j \in DOMAIN log' : j > i /\ log'[j].outcome # "down"
      OBVIOUS
    <3>1. i # Len(log) + 1
      BY <1>5, <1>6
    <3>2. Len(log) + 1 \in DOMAIN log' /\ Len(log) + 1 > i
      BY <1>5, <3>1
    <3>3. QED BY <1>5, <1>6, <3>2
  <2>2. DOMAIN streak' = {}
    BY <1>4, <1>6
  <2>3. QED BY <1>2, <1>3, <2>1, <2>2 DEF Remembers, Range
<1>7. CASE outcome = "down"
  <2>1. streak \in Seq(Item) /\ NextItem \in Item /\ streak' = Append(streak, NextItem)
    BY <1>1, <1>4, <1>7, NextItemProperties DEF TypeOK
  <2>2. /\ Len(streak) \in Nat /\ DOMAIN streak = 1..Len(streak)
        /\ DOMAIN streak' = 1..(Len(streak) + 1)
        /\ \A k \in 1..Len(streak) : streak'[k] = streak[k]
        /\ streak'[Len(streak) + 1] = NextItem
    BY <2>1, AppendProperties, LenProperties
  <2>3. \A k \in DOMAIN streak' : streak'[k].source = "revisit" => streak'[k].url \in Range(held)
    <3> SUFFICES ASSUME NEW k \in DOMAIN streak', streak'[k].source = "revisit"
                 PROVE  streak'[k].url \in Range(held)
      OBVIOUS
    <3>1. CASE k = Len(streak) + 1
      BY <1>1, <2>2, <3>1, RevisitIsHeld
    <3>2. CASE k # Len(streak) + 1
      <4>1. k \in DOMAIN streak /\ streak'[k] = streak[k]
        BY <2>2, <3>2
      <4>2. QED BY <1>1, <4>1 DEF Remembers
    <3>3. QED BY <3>1, <3>2
  <2>4. \A i \in DOMAIN log' : log'[i].outcome = "down" =>
          \/ \E j \in DOMAIN log' : j > i /\ log'[j].outcome # "down"
          \/ \E k \in DOMAIN streak' : streak'[k].url = log'[i].url
    <3> SUFFICES ASSUME NEW i \in DOMAIN log', log'[i].outcome = "down"
                 PROVE  \/ \E j \in DOMAIN log' : j > i /\ log'[j].outcome # "down"
                        \/ \E k \in DOMAIN streak' : streak'[k].url = log'[i].url
      OBVIOUS
    <3>1. CASE i = Len(log) + 1
      BY <1>5, <2>2, <3>1
    <3>2. CASE i # Len(log) + 1
      <4>1. i \in DOMAIN log /\ log'[i] = log[i]
        BY <1>5, <3>2
      <4>2. \/ \E j \in DOMAIN log : j > i /\ log[j].outcome # "down"
            \/ \E k \in DOMAIN streak : streak[k].url = log[i].url
        BY <1>1, <4>1 DEF Remembers
      <4>3. \A j \in DOMAIN log : j \in DOMAIN log' /\ log'[j] = log[j]
        BY <1>5
      <4>4. \A k \in DOMAIN streak : k \in DOMAIN streak' /\ streak'[k] = streak[k]
        BY <2>2
      <4>5. QED BY <4>1, <4>2, <4>3, <4>4
    <3>3. QED BY <3>1, <3>2
  <2>5. Range(held)' = Range(held)
    BY <1>1
  <2>6. QED BY <1>2, <1>3, <2>3, <2>4, <2>5 DEF Remembers, Range
<1>8. QED BY <1>6, <1>7

(* A fetch on which it stops.                                               *)
LEMMA StoppingForgetsNothing ==
  ASSUME TypeOK, Covered, Remembers, Patience, NEW outcome \in Outcome,
         NEW page \in URL \cup {NoUrl}, NEW found \in SUBSET URL,
         Fetches(outcome, page, found), StopsOn(outcome), NEW u \in seen \ Range(held)
  PROVE  u \in Urls(queue') \/ Answered(u)' \/ RedirectTarget(u)' \/ GivenUp(u)'
<1>1. HasItem /\ running /\ Logged(outcome, page, found)
  BY DEF Fetches
<1>2. /\ Len(log) \in Nat /\ DOMAIN log = 1..Len(log) /\ DOMAIN log' = 1..(Len(log) + 1)
      /\ \A i \in 1..Len(log) : log'[i] = log[i]
      /\ log'[Len(log) + 1].url = NextItem.url /\ log'[Len(log) + 1].outcome = outcome
  BY <1>1, LogIs
<1>3. \A i \in DOMAIN log : i \in DOMAIN log' /\ log'[i] = log[i]
  BY <1>2
<1>4. Len(log) + 1 \in DOMAIN log'
  BY <1>2
<1>5. NextItem.source = "revisit" => NextItem.url # u
  BY <1>1, RevisitIsHeld
(* What the log and the queue say of u, by the way the walk stopped. *)
<1>6. ASSUME NextItem.url = u PROVE u \in Urls(queue') \/ Answered(u)' \/ GivenUp(u)'
  <2>1. CASE outcome = "blocked" /\ Stop("blocked", <<NextItem>>)
    BY <1>1, <1>5, <1>6, <2>1, StopOnItem
  <2>2. CASE outcome # "blocked" /\ Stop("seed_failed", <<NextItem>>)
    <3>1. stopReason' # "unavailable"
      BY <2>2 DEF Stop
    <3>2. QED BY <1>2, <1>4, <1>6, <2>2, <3>1 DEF Answered, GivenUp
  <2>3. CASE Stop("unavailable", Append(streak, NextItem))
    <3>1. Append(streak, NextItem) \in Seq(Item) /\ streak \in Seq(Item) /\ NextItem \in Item
      BY <1>1, NextItemProperties, AppendProperties DEF TypeOK
    <3>2. \E k \in DOMAIN Append(streak, NextItem) : Append(streak, NextItem)[k] = NextItem
      <4>1. /\ Len(streak) \in Nat /\ DOMAIN Append(streak, NextItem) = 1..(Len(streak) + 1)
            /\ Append(streak, NextItem)[Len(streak) + 1] = NextItem
        BY <3>1, AppendProperties, LenProperties
      <4>2. QED BY <4>1
    <3> DEFINE items == Append(streak, NextItem)
    <3> HIDE DEF items
    <3>3. items \in Seq(Item) /\ Stop("unavailable", items) /\ \E k \in DOMAIN items : items[k] = NextItem
      BY <2>3, <3>1, <3>2 DEF items
    <3>4. u \in Urls(queue')
      BY <1>1, <1>5, <1>6, <3>3, StopQueue
    <3>5. QED BY <3>4
  <2>4. QED BY <2>1, <2>2, <2>3 DEF StopsOn
<1>7. ASSUME NextItem.url # u, u \in Urls(queue) PROVE u \in Urls(queue')
  <2>1. u \in Urls(QueueLeft)
    BY <1>1, <1>7, NothingElseTaken
  <2>2. CASE Stop("blocked", <<NextItem>>)
    BY <1>1, <2>1, <2>2, StopOnItem
  <2>3. CASE Stop("seed_failed", <<NextItem>>)
    BY <2>1, <2>3 DEF Stop
  <2>4. CASE Stop("unavailable", Append(streak, NextItem))
    <3>1. Append(streak, NextItem) \in Seq(Item)
      BY <1>1, NextItemProperties, AppendProperties DEF TypeOK
    <3>2. QED BY <1>1, <2>1, <2>4, <3>1, StopQueue
  <2>5. QED BY <2>2, <2>3, <2>4 DEF StopsOn
<1>8. ASSUME NEW i \in DOMAIN log, log[i].page = u PROVE RedirectTarget(u)'
  BY <1>3, <1>8 DEF RedirectTarget
<1>9. ASSUME NEW i \in DOMAIN log, log[i].url = u, log[i].outcome # "blocked"
      PROVE  u \in Urls(queue') \/ Answered(u)' \/ GivenUp(u)'
  <2>1. CASE log[i].outcome # "down"
    BY <1>3, <1>9, <2>1 DEF Answered
  <2>2. CASE log[i].outcome = "down" /\ stopReason' # "unavailable"
    BY <1>3, <1>9, <2>2 DEF GivenUp
  <2>3. CASE log[i].outcome = "down" /\ \E j \in DOMAIN log : j > i /\ log[j].outcome # "down"
    BY <1>3, <1>9, <2>3 DEF GivenUp
  <2>4. ASSUME NEW k \in DOMAIN streak, streak[k].url = u, Stop("unavailable", Append(streak, NextItem))
        PROVE  u \in Urls(queue')
    <3> DEFINE items == Append(streak, NextItem)
    <3>1. streak \in Seq(Item) /\ NextItem \in Item
      BY <1>1, NextItemProperties DEF TypeOK
    <3>2. items \in Seq(Item) /\ k \in DOMAIN items /\ items[k] = streak[k] /\ Stop("unavailable", items)
      <4>1. /\ items \in Seq(Item) /\ Len(streak) \in Nat /\ DOMAIN streak = 1..Len(streak)
            /\ DOMAIN items = 1..(Len(streak) + 1)
            /\ \A m \in 1..Len(streak) : items[m] = streak[m]
        BY <3>1, AppendProperties, LenProperties
      <4>2. QED BY <2>4, <4>1
    <3> HIDE DEF items
    <3>3. streak[k].source # "revisit"
      BY <1>1, <2>4 DEF Remembers
    <3>4. QED BY <1>1, <2>4, <3>2, <3>3, StopQueue
  <2>5. stopReason' = "unavailable" => Stop("unavailable", Append(streak, NextItem))
    BY DEF StopsOn, Stop
  <2>6. log[i].outcome = "down" => (\E j \in DOMAIN log : j > i /\ log[j].outcome # "down")
                                   \/ \E k \in DOMAIN streak : streak[k].url = log[i].url
    BY <1>1 DEF Remembers
  <2>7. QED BY <1>9, <2>1, <2>2, <2>3, <2>4, <2>5, <2>6
<1>10. QED BY <1>1, <1>6, <1>7, <1>8, <1>9, KnownIs

LEMMA NextRemembers ==
  TypeOK /\ Covered /\ Patience /\ Remembers /\ [Next]_vars => Remembers'
<1> SUFFICES ASSUME TypeOK, Covered, Patience, Remembers, [Next]_vars PROVE Remembers'
  OBVIOUS
<1>1. CASE UNCHANGED vars
  BY <1>1 DEF vars, Remembers, NothingForgotten, Answered, RedirectTarget, GivenUp, Urls, Range
<1>2. CASE Finish
  <2>1. /\ running' = FALSE /\ revisits' = <<>> /\ stopReason' = "none"
        /\ UNCHANGED <<seen, held, queue, log>> /\ running
    BY <1>2 DEF Finish, Covered
  <2>2. ASSUME NEW u \in seen \ Range(held)
        PROVE  u \in Urls(queue) \/ Answered(u)' \/ RedirectTarget(u)' \/ GivenUp(u)'
    BY <2>1, KnownIs DEF Answered, RedirectTarget, GivenUp
  <2>3. NothingForgotten'
    BY <2>1, <2>2 DEF NothingForgotten, Urls
  <2>4. Range(revisits') = {}
    BY <2>1 DEF Range
  <2>5. QED BY <2>1, <2>3, <2>4 DEF Remembers, Range
<1>3. CASE CapReached
  <2>1. /\ running /\ HasItem /\ running' = FALSE /\ stopReason' = "max_requests"
        /\ Stop("max_requests", <<NextItem>>) /\ revisits' = RevisitsLeft
        /\ UNCHANGED <<seen, held, log>>
    BY <1>3 DEF CapReached, Stop
  <2>2. ASSUME NEW u \in seen \ Range(held), u \in Urls(queue) PROVE u \in Urls(queue')
    BY <2>1, <2>2, NothingElseTaken, StopOnItem, RevisitIsHeld
  <2>3. ASSUME NEW u \in seen \ Range(held)
        PROVE  u \in Urls(queue') \/ Answered(u)' \/ RedirectTarget(u)' \/ GivenUp(u)'
    BY <2>1, <2>2, KnownIs DEF Answered, RedirectTarget, GivenUp
  <2>4. NothingForgotten'
    BY <2>1, <2>3 DEF NothingForgotten, Urls
  <2>5. Range(revisits') \subseteq Range(held')
    BY <2>1, NextItemProperties DEF Remembers
  <2>6. QED BY <2>1, <2>4, <2>5 DEF Remembers, Range
<1>4. ASSUME NEW outcome \in Outcome, NEW page \in URL \cup {NoUrl},
             NEW found \in SUBSET URL, Fetches(outcome, page, found)
      PROVE  Remembers'
  <2>1. CASE running' = TRUE
    BY <1>4, <2>1, GoingOnRemembers
  <2>2. CASE running' # TRUE
    <3>1. /\ StopsOn(outcome) /\ running' = FALSE /\ revisits' = RevisitsLeft
          /\ UNCHANGED <<seen, held>> /\ HasItem
      BY <1>4, <2>2 DEF Fetches, GoesPast, ReadsPage, StopsOn, Stop
    <3>2. \A u \in seen \ Range(held) :
            u \in Urls(queue') \/ Answered(u)' \/ RedirectTarget(u)' \/ GivenUp(u)'
      BY <1>4, <3>1, StoppingForgetsNothing
    <3>3. NothingForgotten'
      BY <3>1, <3>2 DEF NothingForgotten, Urls
    <3>4. Range(revisits') \subseteq Range(held')
      BY <3>1, NextItemProperties DEF Remembers
    <3>5. QED BY <3>1, <3>3, <3>4 DEF Remembers, Range
  <2>3. QED BY <2>1, <2>2
<1>5. CASE Next
  BY <1>2, <1>3, <1>4, <1>5, StepCases
<1>6. QED BY <1>1, <1>5

(* No stop drops an address: whatever the site answers and wherever the     *)
(* run ends, what it heard of and the index does not hold is answered, was  *)
(* reached through a redirect, failed before the site recovered, or stands  *)
(* in the frontier the next run starts from.                                *)
THEOREM ForgetsNothing == Spec => []NothingForgotten
<1>1. Spec => []TypeOK /\ []Covered /\ []Patience
  BY InitTyped, NextTyped, InitCovered, NextCovered, InitPatience, NextPatience, PTL DEF Spec
<1>2. QED BY <1>1, InitRemembers, NextRemembers, RunningForgetsNothing, PTL DEF Spec

-----------------------------------------------------------------------------
(* The walk in order.                                                       *)

(* What was found waits in the order it was found in, behind nothing found  *)
(* later, and none of it is held; what a page said it is was seen and done; *)
(* and once a revisit was taken, all that waits was found on it or later.   *)
WaitsInOrder ==
  /\ \A i \in DOMAIN log : log[i].page \in (seen \cap done) \cup {NoUrl}
  /\ \A i \in DOMAIN log : log[i].found \subseteq Fetched \cup Urls(queue)
  /\ \A k \in DOMAIN queue : queue[k].source = "link" => queue[k].url \notin Range(held)
  /\ \A i \in DOMAIN log : log[i].source = "revisit" =>
       \A u \in Urls(queue) : \E k \in i..Len(log) : u \in log[k].found
  /\ \A i, j \in DOMAIN log, k \in DOMAIN queue : i < j /\ queue[k].url \in log[j].found =>
       \A u \in log[i].found : u \in Fetched \/ \E m \in DOMAIN queue : m < k /\ queue[m].url = u

Ordered ==
  /\ Range(held) \subseteq seen
  /\ WalkOrder
  /\ running => WaitsInOrder

LEMMA InitOrdered == Init => Ordered
<1> SUFFICES ASSUME NEW list \in SeedLists, NEW indexed \in SUBSET HeldPages,
                    NEW order \in Orderings(indexed \ Range(list)), Started(list, order)
             PROVE  Ordered
  BY DEF Init
<1>1. /\ held = order /\ seen = Range(list) \cup Range(order) /\ log = <<>>
      /\ queue = Items(list, "seed")
  BY DEF Started
<1>2. \A k \in DOMAIN queue : queue[k].source = "seed"
  BY <1>1 DEF Items
<1>3. DOMAIN log = {}
  BY <1>1
<1>4. WalkOrder
  BY <1>3 DEF WalkOrder, BreadthFirst, RevisitsYield, RedirectTargetSettled
<1>5. QED BY <1>1, <1>2, <1>3, <1>4 DEF Ordered, WaitsInOrder

(* What a fetch finds nothing has seen.                                     *)
LEMMA FoundIsNew ==
  ASSUME NEW outcome, NEW page, NEW found, Fetches(outcome, page, found)
  PROVE  found \cap seen = {}
BY DEF Fetches, ReadsPage

LEMMA BreadthStep ==
  ASSUME TypeOK, Walk, Ordered, NEW outcome \in Outcome, NEW page \in URL \cup {NoUrl},
         NEW found \in SUBSET URL, Fetches(outcome, page, found)
  PROVE  BreadthFirst'
<1> DEFINE L == Len(log)
<1>1. HasItem /\ running /\ Logged(outcome, page, found) /\ WaitsInOrder /\ BreadthFirst
  BY DEF Fetches, Ordered, WalkOrder
<1>2. /\ L \in Nat /\ DOMAIN log = 1..L /\ DOMAIN log' = 1..(L + 1)
      /\ \A i \in 1..L : log'[i] = log[i]
      /\ log'[L + 1].url = NextItem.url /\ log'[L + 1].found = found
  BY <1>1, LogIs
<1>3. NextItem.url \in seen \ Fetched /\ Fetched \subseteq seen
  BY <1>1, TakeProperties DEF Walk
<1>4. found \cap seen = {}
  BY FoundIsNew
<1> HIDE DEF L
<1>5. SUFFICES ASSUME NEW i \in 1..(L + 1), NEW j \in 1..(L + 1), NEW m \in 1..(L + 1),
                      i < j, log'[m].url \in log'[j].found, NEW u \in log'[i].found
               PROVE  \E n \in 1..m : log'[n].url = u
  BY <1>2 DEF BreadthFirst
<1>6. i \in DOMAIN log /\ log'[i] = log[i]
  BY <1>2, <1>5
<1>7. log'[m].url \in seen
  <2>1. CASE m = L + 1
    BY <1>2, <1>3, <2>1
  <2>2. CASE m # L + 1
    <3>1. m \in DOMAIN log /\ log'[m] = log[m]
      BY <1>2, <2>2
    <3>2. QED BY <1>3, <3>1 DEF Fetched
  <2>3. QED BY <2>1, <2>2
<1>8. j # L + 1
  BY <1>2, <1>4, <1>5, <1>7
<1>9. j \in DOMAIN log /\ log'[j] = log[j]
  BY <1>2, <1>8
<1>10. CASE m # L + 1
  <2>1. m \in DOMAIN log /\ log'[m] = log[m]
    BY <1>2, <1>10
  <2>2. PICK n \in 1..m : log[n].url = u
    BY <1>1, <1>5, <1>6, <1>9, <2>1 DEF BreadthFirst
  <2>3. n \in 1..L
    BY <1>2, <2>1
  <2>4. QED BY <1>2, <2>2, <2>3
<1>11. CASE m = L + 1
  <2>1. NextItem.url \in log[j].found
    BY <1>2, <1>5, <1>9, <1>11
  <2>2. NextItem.url \in Urls(queue)
    BY <1>1, <1>3, <1>9, <2>1 DEF WaitsInOrder
  <2>3. queue # <<>>
    BY <2>2 DEF Urls
  <2>4. 1 \in DOMAIN queue /\ queue[1] = NextItem /\ \A k \in DOMAIN queue : ~(k < 1)
    BY <1>1, <2>3, QueueTaken
  <2>5. u \in Fetched
    BY <1>1, <1>5, <1>6, <1>9, <2>1, <2>4 DEF WaitsInOrder
  <2>6. PICK n \in 1..L : log[n].url = u
    BY <1>2, <2>5 DEF Fetched
  <2>7. n \in 1..m /\ log'[n] = log[n]
    BY <1>2, <1>11, <2>6
  <2>8. QED BY <2>6, <2>7
<1>12. QED BY <1>10, <1>11

LEMMA RedirectStep ==
  ASSUME TypeOK, Remembers, Ordered, NEW outcome \in Outcome, NEW page \in URL \cup {NoUrl},
         NEW found \in SUBSET URL, Fetches(outcome, page, found)
  PROVE  RedirectTargetSettled'
<1> DEFINE L == Len(log)
<1>1. /\ HasItem /\ running /\ Logged(outcome, page, found) /\ WaitsInOrder /\ RedirectTargetSettled
  BY DEF Fetches, Ordered, WalkOrder
<1>2. /\ L \in Nat /\ DOMAIN log = 1..L /\ DOMAIN log' = 1..(L + 1)
      /\ \A i \in 1..L : log'[i] = log[i]
      /\ log'[L + 1].url = NextItem.url /\ log'[L + 1].found = found
      /\ log'[L + 1].source = NextItem.source
  BY <1>1, LogIs
<1>3. found \cap seen = {}
  BY FoundIsNew
<1>4. NextItem.source = "revisit" => NextItem.url \notin done
  <2>1. queue # <<>> => NextItem = queue[1] /\ 1 \in DOMAIN queue
    BY <1>1, QueueTaken
  <2>2. queue # <<>> => NextItem.source # "revisit"
    BY <1>1, <2>1 DEF Remembers
  <2>3. QED BY <1>1, <2>2, NextItemProperties
<1> HIDE DEF L
<1>5. SUFFICES ASSUME NEW i \in 1..(L + 1), NEW j \in 1..(L + 1), i < j, log'[i].page # NoUrl
               PROVE  /\ log'[i].page \notin log'[j].found
                      /\ log'[i].page = log'[j].url => log'[j].source # "revisit"
  BY <1>2 DEF RedirectTargetSettled
<1>6. i \in DOMAIN log /\ log'[i] = log[i]
  BY <1>2, <1>5
<1>7. log'[i].page \in seen \cap done
  BY <1>1, <1>5, <1>6 DEF WaitsInOrder
<1>8. CASE j = L + 1
  BY <1>2, <1>3, <1>4, <1>7, <1>8
<1>9. CASE j # L + 1
  <2>1. j \in DOMAIN log /\ log'[j] = log[j]
    BY <1>2, <1>9
  <2>2. QED BY <1>1, <1>5, <1>6, <2>1 DEF RedirectTargetSettled
<1>10. QED BY <1>8, <1>9

LEMMA YieldStep ==
  ASSUME TypeOK, Ordered, NEW outcome \in Outcome, NEW page \in URL \cup {NoUrl},
         NEW found \in SUBSET URL, Fetches(outcome, page, found), stopReason' # "max_requests"
  PROVE  RevisitsYield'
<1> DEFINE L == Len(log)
<1>1. /\ HasItem /\ running /\ Logged(outcome, page, found) /\ WaitsInOrder /\ RevisitsYield
      /\ held' = held
  BY DEF Fetches, Ordered, WalkOrder
<1>2. /\ L \in Nat /\ Len(log') = L + 1 /\ DOMAIN log = 1..L /\ DOMAIN log' = 1..(L + 1)
      /\ \A i \in 1..L : log'[i] = log[i]
      /\ log'[L + 1].url = NextItem.url /\ log'[L + 1].source = NextItem.source
  BY <1>1, LogIs
<1>3. NextItem.source # "revisit" => 1 \in DOMAIN queue /\ NextItem = queue[1]
  BY <1>1, NextItemProperties, QueueTaken
<1> HIDE DEF L
<1>4. \A i \in DOMAIN log' : log'[i].source = "link" => log'[i].url \notin Range(held)
  <2> SUFFICES ASSUME NEW i \in DOMAIN log', log'[i].source = "link"
               PROVE  log'[i].url \notin Range(held)
    OBVIOUS
  <2>1. CASE i = L + 1
    BY <1>1, <1>2, <1>3, <2>1 DEF WaitsInOrder
  <2>2. CASE i # L + 1
    <3>1. i \in DOMAIN log /\ log'[i] = log[i]
      BY <1>2, <2>2
    <3>2. QED BY <1>1, <3>1 DEF RevisitsYield
  <2>3. QED BY <2>1, <2>2
<1>5. ASSUME NEW i \in DOMAIN log', log'[i].source = "revisit",
             NEW j \in DOMAIN log', j > i, log'[j].source # "revisit"
      PROVE  \E k \in i..(j - 1) : log'[j].url \in log'[k].found
  <2>1. i \in DOMAIN log /\ log'[i] = log[i]
    BY <1>2, <1>5
  <2>2. CASE j = L + 1
    <3>1. NextItem.source # "revisit" /\ NextItem.url \in Urls(queue)
      BY <1>2, <1>3, <1>5, <2>2 DEF Urls
    <3>2. PICK k \in i..L : NextItem.url \in log[k].found
      BY <1>1, <1>5, <2>1, <3>1 DEF WaitsInOrder, L
    <3>3. k \in 1..L /\ k \in i..(j - 1)
      BY <1>2, <2>1, <2>2
    <3>4. QED BY <1>2, <2>2, <3>2, <3>3
  <2>3. CASE j # L + 1
    <3>1. j \in DOMAIN log /\ log'[j] = log[j]
      BY <1>2, <2>3
    <3>2. PICK k \in i..(j - 1) : log[j].url \in log[k].found
      BY <1>1, <1>5, <2>1, <3>1 DEF RevisitsYield
    <3>3. k \in 1..L
      BY <1>2, <2>1, <3>1
    <3>4. QED BY <1>2, <3>1, <3>2, <3>3
  <2>4. QED BY <2>2, <2>3
<1>6. Range(held)' = Range(held)
  BY <1>1
<1>7. QED BY <1>4, <1>5, <1>6 DEF RevisitsYield

(* When the walk goes on, what waits still waits in order.                  *)
LEMMA WaitingStep ==
  ASSUME TypeOK, Walk, Remembers, Ordered, NEW outcome \in Outcome, NEW page \in URL \cup {NoUrl},
         NEW found \in SUBSET URL, Fetches(outcome, page, found), running' = TRUE
  PROVE  WaitsInOrder'
<1> DEFINE L == Len(log)
<1>1. /\ HasItem /\ running /\ Logged(outcome, page, found) /\ WaitsInOrder
      /\ Range(held) \subseteq seen /\ Range(held') = Range(held)
  BY DEF Fetches, Ordered
<1>2. /\ L \in Nat /\ Len(log') = L + 1 /\ DOMAIN log = 1..L /\ DOMAIN log' = 1..(L + 1)
      /\ \A i \in 1..L : log'[i] = log[i]
      /\ log'[L + 1].source = NextItem.source /\ log'[L + 1].page = page
      /\ log'[L + 1].found = found /\ Fetched' = Fetched \cup {NextItem.url}
  BY <1>1, LogIs
<1>3. Urls(queue) \subseteq seen /\ Fetched \subseteq seen
  BY <1>1 DEF Walk
<1>4. found \cap seen = {}
  BY FoundIsNew
<1>5. /\ \A k \in DOMAIN QueueLeft : k \in Nat /\ k + 1 \in DOMAIN queue /\ QueueLeft[k] = queue[k + 1]
      /\ \A k \in DOMAIN queue :
           /\ k \in Nat
           /\ \/ k = 1 /\ queue[k] = NextItem
              \/ k - 1 \in DOMAIN QueueLeft /\ queue[k] = QueueLeft[k - 1]
  BY <1>1, QueueShifts
<1>6. /\ Len(QueueLeft) \in Nat /\ DOMAIN QueueLeft = 1..Len(QueueLeft)
      /\ \A k \in DOMAIN queue' :
           \/ k \in DOMAIN QueueLeft
           \/ k > Len(QueueLeft) /\ k \in Nat /\ queue'[k].url \in found /\ queue'[k].source = "link"
      /\ \A k \in DOMAIN QueueLeft : k \in DOMAIN queue' /\ queue'[k] = QueueLeft[k]
      /\ Urls(queue') = Urls(QueueLeft) \cup found
  BY QueueGrows
<1>7. Urls(queue) \subseteq Urls(QueueLeft) \cup {NextItem.url} /\ Urls(QueueLeft) \subseteq Urls(queue)
  BY <1>1, NothingElseTaken
<1> HIDE DEF L
<1>8. \A i \in DOMAIN log' : i = L + 1 \/ (i \in DOMAIN log /\ log'[i] = log[i])
  BY <1>2
(* The addresses pages gave. *)
<1>9. \A i \in DOMAIN log' : log'[i].page \in (seen' \cap done') \cup {NoUrl}
  <2>1. page \in (seen' \cap done') \cup {NoUrl} /\ seen \subseteq seen' /\ done \subseteq done'
    BY DEF Fetches, GoesPast, ReadsPage, StopsOn, Stop
  <2>2. \A i \in DOMAIN log : log[i].page \in (seen \cap done) \cup {NoUrl}
    BY <1>1 DEF WaitsInOrder
  <2>3. QED BY <1>2, <1>8, <2>1, <2>2
(* What was found waits or was fetched. *)
<1>10. \A i \in DOMAIN log' : log'[i].found \subseteq Fetched' \cup Urls(queue')
  <2>1. \A i \in DOMAIN log : log[i].found \subseteq Fetched \cup Urls(queue)
    BY <1>1 DEF WaitsInOrder
  <2>2. Fetched \cup Urls(queue) \subseteq Fetched' \cup Urls(queue') /\ found \subseteq Urls(queue')
    BY <1>2, <1>6, <1>7
  <2>3. QED BY <1>2, <1>8, <2>1, <2>2
(* No link leads to a held page. *)
<1>11. \A k \in DOMAIN queue' : queue'[k].source = "link" => queue'[k].url \notin Range(held)
  <2>1. \A k \in DOMAIN queue : queue[k].source = "link" => queue[k].url \notin Range(held)
    BY <1>1 DEF WaitsInOrder
  <2>2. \A k \in DOMAIN QueueLeft : queue'[k].source = "link" => queue'[k].url \notin Range(held)
    BY <1>5, <1>6, <2>1
  <2>3. \A u \in found : u \notin Range(held)
    BY <1>1, <1>4
  <2>4. QED BY <1>6, <2>2, <2>3
(* After a revisit all that waits was found on it or later. *)
<1>12. ASSUME NEW i \in DOMAIN log', log'[i].source = "revisit", NEW u \in Urls(queue')
       PROVE  \E k \in i..(L + 1) : u \in log'[k].found
  <2>1. i \in 1..(L + 1) /\ L + 1 \in i..(L + 1)
    BY <1>2
  <2>2. CASE u \in found
    BY <1>2, <2>1, <2>2
  <2>3. CASE u \in Urls(QueueLeft)
    <3>1. u \in Urls(queue) /\ queue # <<>>
      BY <1>7, <2>3 DEF Urls
    <3>2. i # L + 1
      <4>1. 1 \in DOMAIN queue /\ NextItem = queue[1]
        BY <1>1, <3>1, QueueTaken
      <4>2. NextItem.source # "revisit"
        BY <1>1, <4>1 DEF Remembers
      <4>3. QED BY <1>2, <1>12, <4>2
    <3>3. i \in DOMAIN log /\ log[i].source = "revisit"
      BY <1>8, <1>12, <3>2
    <3>4. PICK k \in i..L : u \in log[k].found
      BY <1>1, <3>1, <3>3 DEF WaitsInOrder, L
    <3>5. k \in 1..L /\ k \in i..(L + 1)
      BY <1>2, <3>3
    <3>6. QED BY <1>2, <3>4, <3>5
  <2>4. QED BY <1>6, <2>2, <2>3
(* And what was found first waits first. *)
<1>13. ASSUME NEW i \in DOMAIN log', NEW j \in DOMAIN log', NEW k \in DOMAIN queue', i < j,
              queue'[k].url \in log'[j].found, NEW u \in log'[i].found
       PROVE  u \in Fetched' \/ \E m \in DOMAIN queue' : m < k /\ queue'[m].url = u
  <2>1. i \in DOMAIN log /\ log'[i] = log[i]
    BY <1>2, <1>13
  <2>2. CASE j = L + 1
    <3>1. queue'[k].url \in found
      BY <1>2, <1>13, <2>2
    <3>2. k \notin DOMAIN QueueLeft
      <4>1. SUFFICES ASSUME k \in DOMAIN QueueLeft PROVE FALSE
        OBVIOUS
      <4>2. queue'[k].url \in Urls(QueueLeft)
        BY <1>6, <4>1 DEF Urls
      <4>3. QED BY <1>3, <1>4, <1>7, <3>1, <4>2
    <3>3. k > Len(QueueLeft) /\ k \in Nat
      BY <1>6, <3>2
    <3>4. u \in Fetched \/ u = NextItem.url \/ u \in Urls(QueueLeft)
      BY <1>1, <1>7, <1>13, <2>1 DEF WaitsInOrder
    <3>5. ASSUME u \in Urls(QueueLeft) PROVE \E m \in DOMAIN queue' : m < k /\ queue'[m].url = u
      <4>1. PICK m \in DOMAIN QueueLeft : QueueLeft[m].url = u
        BY <3>5 DEF Urls
      <4>2. m < k /\ m \in DOMAIN queue' /\ queue'[m].url = u
        BY <1>6, <3>3, <4>1
      <4>3. QED BY <4>2
    <3>6. QED BY <1>2, <3>4, <3>5
  <2>3. CASE j # L + 1
    <3>1. j \in DOMAIN log /\ log'[j] = log[j]
      BY <1>8, <2>3
    <3>2. queue'[k].url \in seen
      BY <1>1, <1>3, <1>13, <3>1 DEF WaitsInOrder
    <3>3. k \in DOMAIN QueueLeft
      BY <1>4, <1>6, <3>2
    <3>4. k \in Nat /\ k + 1 \in DOMAIN queue /\ queue'[k] = queue[k + 1]
      BY <1>5, <1>6, <3>3
    <3>5. u \in Fetched \/ \E m \in DOMAIN queue : m < k + 1 /\ queue[m].url = u
      BY <1>1, <1>13, <2>1, <3>1, <3>4 DEF WaitsInOrder
    <3>6. ASSUME NEW m \in DOMAIN queue, m < k + 1, queue[m].url = u
          PROVE  u = NextItem.url \/ \E n \in DOMAIN queue' : n < k /\ queue'[n].url = u
      <4>1. m \in Nat /\ (queue[m] = NextItem
                         \/ (m - 1 \in DOMAIN QueueLeft /\ queue[m] = QueueLeft[m - 1]))
        BY <1>5
      <4>2. m - 1 < k
        BY <3>4, <3>6, <4>1
      <4>3. QED BY <1>6, <3>6, <4>1, <4>2
    <3>7. QED BY <1>2, <3>5, <3>6
  <2>4. QED BY <2>2, <2>3
<1>14. Urls(queue)' = Urls(queue') /\ Range(held)' = Range(held)
  BY <1>1 DEF Urls, Range
<1>15. QED BY <1>2, <1>9, <1>10, <1>11, <1>12, <1>13, <1>14 DEF WaitsInOrder

LEMMA NextOrdered ==
  TypeOK /\ Walk /\ Covered /\ Remembers /\ Ordered /\ [Next]_vars => Ordered'
<1> SUFFICES ASSUME TypeOK, Walk, Covered, Remembers, Ordered, [Next]_vars PROVE Ordered'
  OBVIOUS
<1>1. CASE UNCHANGED vars
  <2>1. WaitsInOrder' = WaitsInOrder
    BY <1>1 DEF vars, WaitsInOrder, Fetched, Urls, Range
  <2>2. WalkOrder' = WalkOrder
    BY <1>1 DEF vars, WalkOrder, BreadthFirst, RevisitsYield, RedirectTargetSettled, Urls, Range
  <2>3. QED BY <1>1, <2>1, <2>2 DEF vars, Ordered, Range
<1>2. CASE Finish
  <2>1. running' = FALSE /\ UNCHANGED <<seen, held, queue, log, stopReason>>
    BY <1>2 DEF Finish
  <2>2. WalkOrder' = WalkOrder
    BY <2>1 DEF WalkOrder, BreadthFirst, RevisitsYield, RedirectTargetSettled, Urls, Range
  <2>3. QED BY <2>1, <2>2 DEF Ordered, Range
<1>3. CASE CapReached
  <2>1. /\ running /\ HasItem /\ running' = FALSE /\ Stop("max_requests", <<NextItem>>)
        /\ UNCHANGED <<seen, held, log>>
    BY <1>3 DEF CapReached, Stop
  <2>2. Urls(queue') \subseteq Urls(queue)
    <3>1. NextItem.source # "revisit" => NextItem.url \in Urls(queue)
      <4>1. NextItem.source # "revisit" => 1 \in DOMAIN queue /\ NextItem = queue[1]
        BY <2>1, NextItemProperties, QueueTaken
      <4>2. QED BY <4>1 DEF Urls
    <3>2. QED BY <2>1, <3>1, NothingElseTaken, StopOnItem
  <2>3. WaitsInOrder /\ WalkOrder
    BY <2>1 DEF Ordered
  <2>4. \A i \in DOMAIN log : log[i].source = "revisit" =>
          \A u \in Urls(queue') : \E k \in i..Len(log) : u \in log[k].found
    BY <2>2, <2>3 DEF WaitsInOrder
  <2>5. RevisitsYield'
    BY <2>1, <2>3, <2>4 DEF WalkOrder, RevisitsYield, Range, Urls
  <2>6. BreadthFirst' /\ RedirectTargetSettled'
    BY <2>1, <2>3 DEF WalkOrder, BreadthFirst, RedirectTargetSettled
  <2>7. QED BY <2>1, <2>5, <2>6 DEF Ordered, WalkOrder, Range
<1>4. ASSUME NEW outcome \in Outcome, NEW page \in URL \cup {NoUrl},
             NEW found \in SUBSET URL, Fetches(outcome, page, found)
      PROVE  Ordered'
  <2>1. stopReason' # "max_requests"
    BY <1>4 DEF Fetches, GoesPast, ReadsPage, StopsOn, Stop, Covered
  <2>2. WalkOrder'
    BY <1>4, <2>1, BreadthStep, RedirectStep, YieldStep DEF WalkOrder
  <2>3. running' => WaitsInOrder'
    <3>1. running' \in {TRUE, FALSE}
      BY <1>4 DEF Fetches, GoesPast, ReadsPage, StopsOn, Stop
    <3>2. QED BY <1>4, <3>1, WaitingStep
  <2>4. Range(held)' \subseteq seen'
    <3>1. held' = held /\ seen \subseteq seen'
      BY <1>4 DEF Fetches, GoesPast, ReadsPage, StopsOn
    <3>2. QED BY <3>1 DEF Ordered, Range
  <2>5. QED BY <2>2, <2>3, <2>4 DEF Ordered
<1>5. CASE Next
  BY <1>2, <1>3, <1>4, <1>5, StepCases
<1>6. QED BY <1>1, <1>5

(* The order of a walk, for any site: links are fetched in the order they   *)
(* were found in, held pages only when nothing discovered is left, and an   *)
(* address a page gave for itself is neither found again nor re-read.       *)
THEOREM WalksInOrder == Spec => []WalkOrder
<1>1. Spec => []TypeOK /\ []Walk /\ []Covered /\ []Patience
  BY InitTyped, NextTyped, InitWalk, NextWalk, InitCovered, NextCovered, InitPatience, NextPatience,
     PTL DEF Spec
<1>2. Spec => []Remembers
  BY <1>1, InitRemembers, NextRemembers, PTL DEF Spec
<1>3. Ordered => WalkOrder
  BY DEF Ordered
<1>4. QED BY <1>1, <1>2, <1>3, InitOrdered, NextOrdered, PTL DEF Spec

-----------------------------------------------------------------------------
(* What the caller may rely on.                                             *)

(* The books the walk keeps: what was read, the addresses the pages gave,   *)
(* and all that has an entry.                                               *)
Read == {p.requested : p \in pages}
Addresses == {p.url : p \in pages}
Told == Read \cup notFound \cup errors

(* One entry per address, of an address that was fetched; the seeds are     *)
(* apart from what is held, and what is held is entered in its order.       *)
Books ==
  /\ Told \subseteq Fetched
  /\ Read \cap (notFound \cup errors) = {} /\ notFound \cap errors = {}
  /\ \A p, q \in pages : p.requested = q.requested => p = q
  /\ seeds # <<>> /\ Range(seeds) \cap Range(held) = {} /\ IsInjective(held)
  /\ \A i, j \in DOMAIN held : j < i /\ held[i] \in Told => held[j] \in Told \cup Addresses

(* While the walk runs, every fetch has its entry, and what is done was     *)
(* entered or is an address a page gave; the first seed waits in front, or  *)
(* was read; and what is still to re-read is the end of what is held, with  *)
(* all before it accounted for.                                             *)
Keeping ==
  /\ Fetched = Told /\ done \subseteq Told \cup Addresses
  /\ Range(seeds) \subseteq Told \cup Urls(queue)
  /\ Urls(queue) \cap Range(held) = {}
  /\ \/ Told = {} /\ Urls(queue) = Range(seeds) /\ queue # <<>> /\ queue[1].url = firstSeed
     \/ firstSeed \in Read
  /\ \A k \in DOMAIN streak :
       streak[k].url \in errors /\ (streak[k].source # "revisit" => streak[k].url \notin Range(held))
  /\ \E n \in 0..Len(held) :
       /\ Len(revisits) = Len(held) - n
       /\ \A i \in 1..Len(revisits) : revisits[i] = held[n + i]
       /\ \A i \in 1..n : held[i] \in Told \cup Addresses

(* What the end of a run leaves in the books.                               *)
Sound ==
  /\ Urls(queue) \cap (Read \cup notFound \cup Range(held)) = {}
  /\ errors \cap Urls(queue) # {} => stopReason = "unavailable"
  /\ stopReason # "seed_failed" => Range(seeds) \subseteq Told \cup Urls(queue)
  /\ stopReason = "none" => Urls(queue) = {} /\ Range(held) \subseteq Told \cup Addresses
  /\ stopReason = "seed_failed" =>
       Read = {} /\ Told = {firstSeed} /\ Urls(queue) = Range(seeds) \ {firstSeed}
  /\ Read = {} /\ stopReason # "seed_failed" =>
       Told = {} /\ Urls(queue) = Range(seeds) /\ stopReason \in {"blocked", "max_requests"}
  /\ Read # {} => firstSeed \in Read

(* What a fetch enters.                                                     *)
LEMMA Entries ==
  ASSUME TypeOK, NEW outcome, NEW page, NEW found, Fetches(outcome, page, found)
  PROVE  \/ /\ outcome = "blocked" /\ StopsOn(outcome) /\ Stop("blocked", <<NextItem>>)
            /\ pages' = pages /\ notFound' = notFound /\ errors' = errors
            /\ Read' = Read /\ Addresses' = Addresses /\ Told' = Told
         \/ /\ ReadsPage(page, found) /\ notFound' = notFound /\ errors' = errors
            /\ Read' = Read \cup {NextItem.url} /\ Addresses' = Addresses \cup {page}
            /\ Told' = Told \cup {NextItem.url}
         \/ /\ ~ReadsPage(page, found) /\ outcome # "blocked" /\ pages' = pages
            /\ Read' = Read /\ Addresses' = Addresses
            /\ Told' = Told \cup {NextItem.url}
            /\ \/ notFound' = notFound /\ errors' = errors \cup {NextItem.url}
               \/ errors' = errors /\ notFound' = notFound \cup {NextItem.url}
<1>1. CASE ReadsPage(page, found)
  <2>1. /\ notFound' = notFound /\ errors' = errors
        /\ pages' = pages \cup {[requested |-> NextItem.url, url |-> page, source |-> NextItem.source]}
    BY <1>1 DEF ReadsPage
  <2>2. Read' = Read \cup {NextItem.url} /\ Addresses' = Addresses \cup {page}
    <3> DEFINE entry == [requested |-> NextItem.url, url |-> page, source |-> NextItem.source]
    <3>1. pages' = pages \cup {entry} /\ entry.requested = NextItem.url /\ entry.url = page
      BY <2>1
    <3> HIDE DEF entry
    <3>2. QED BY <3>1 DEF Read, Addresses
  <2>3. Told' = Told \cup {NextItem.url}
    BY <2>1, <2>2 DEF Told
  <2>4. QED BY <1>1, <2>1, <2>2, <2>3
<1>2. CASE ~ReadsPage(page, found) /\ outcome = "blocked"
  <2>1. StopsOn(outcome) /\ Stop("blocked", <<NextItem>>)
        /\ pages' = pages /\ notFound' = notFound /\ errors' = errors
    <3>1. ~GoesPast(outcome)
      BY <1>2 DEF GoesPast
    <3>2. StopsOn(outcome)
      BY <1>2, <3>1 DEF Fetches
    <3>3. Stop("blocked", <<NextItem>>) /\ notFound' = notFound /\ errors' = errors
      BY <1>2, <3>2 DEF StopsOn
    <3>4. pages' = pages
      BY <3>2 DEF StopsOn
    <3>5. QED BY <3>2, <3>3, <3>4
  <2>2. QED BY <1>2, <2>1 DEF Read, Addresses, Told
<1>3. CASE ~ReadsPage(page, found) /\ outcome # "blocked"
  <2>1. /\ pages' = pages
        /\ \/ notFound' = notFound /\ errors' = errors \cup {NextItem.url}
           \/ errors' = errors /\ notFound' = notFound \cup {NextItem.url}
    <3>1. CASE GoesPast(outcome)
      <4>1. pages' = pages
        BY <3>1 DEF GoesPast
      <4>2. outcome = "gone" => notFound' = notFound \cup {NextItem.url} /\ errors' = errors
        BY <3>1 DEF GoesPast
      <4>3. outcome # "gone" => notFound' = notFound /\ errors' = errors \cup {NextItem.url}
        BY <3>1 DEF GoesPast
      <4>4. QED BY <4>1, <4>2, <4>3
    <3>2. CASE StopsOn(outcome)
      <4>1. pages' = pages
        BY <3>2 DEF StopsOn
      <4>2. \/ notFound' = notFound /\ errors' = errors \cup {NextItem.url}
            \/ errors' = errors /\ notFound' = notFound \cup {NextItem.url}
        BY <1>3, <3>2 DEF StopsOn
      <4>3. QED BY <4>1, <4>2
    <3>3. QED BY <1>3, <3>1, <3>2 DEF Fetches
  <2>2. Read' = Read /\ Addresses' = Addresses
    BY <2>1 DEF Read, Addresses
  <2>3. Told' = Told \cup {NextItem.url}
    BY <2>1, <2>2 DEF Told
  <2>4. QED BY <1>3, <2>1, <2>2, <2>3
<1>4. QED BY <1>1, <1>2, <1>3

(* The provider names at least the page a crawl starts from.                *)
SeedsGiven == \A list \in SeedLists : list # <<>>

LEMMA InitAccounts ==
  ASSUME SeedsGiven, Init
  PROVE  Books /\ Keeping
<1>1. PICK list \in SeedLists, indexed \in SUBSET HeldPages :
        \E order \in Orderings(indexed \ Range(list)) : Started(list, order)
  BY DEF Init
<1>2. PICK order \in Orderings(indexed \ Range(list)) : Started(list, order)
  BY <1>1
<1>3. /\ seeds = list /\ held = order /\ revisits = order /\ queue = Items(list, "seed")
      /\ done = {} /\ streak = <<>> /\ pages = {} /\ notFound = {} /\ errors = {} /\ log = <<>>
  BY <1>2 DEF Started
<1>4. list # <<>> /\ list \in Seq(URL)
  BY CrawlAssumption DEF SeedsGiven
<1>5. 1 \in DOMAIN list /\ list[1] \in URL
  BY <1>4, LenProperties, EmptySeq
<1>6. /\ order \in Seq(URL) /\ Len(order) \in Nat /\ IsInjective(order)
      /\ Range(order) \cap Range(list) = {}
  <2> DEFINE S == indexed \ Range(list)
  <2>1. S \in SUBSET URL
    BY CrawlAssumption
  <2>2. order \in Orderings(S)
    OBVIOUS
  <2>3. S \cap Range(list) = {}
    OBVIOUS
  <2> HIDE DEF S
  <2>4. /\ order \in Seq(URL) /\ Len(order) \in Nat
        /\ \A i, j \in DOMAIN order : order[i] = order[j] => i = j
        /\ \A u : (\E i \in DOMAIN order : order[i] = u) <=> u \in S
    BY <2>1, <2>2, SubsetFinite, OrderingIsSeq, SeqMonotonic, LenProperties
  <2>5. QED BY <2>3, <2>4 DEF IsInjective, Range
<1>7. Read = {} /\ Addresses = {} /\ Told = {} /\ Fetched = {}
  BY <1>3 DEF Read, Addresses, Told, Fetched
<1>8. /\ DOMAIN queue = DOMAIN list /\ \A k \in DOMAIN list : queue[k].url = list[k]
  BY <1>3 DEF Items
<1>9. Urls(queue) = Range(list) /\ queue[1].url = firstSeed
  <2>1. Urls(queue) = Range(list)
    BY <1>8 DEF Urls, Range
  <2>2. firstSeed = list[1]
    BY <1>3, <1>4 DEF firstSeed
  <2>3. QED BY <1>5, <1>8, <2>1, <2>2
<1>10. queue # <<>>
  <2>1. DOMAIN queue # {}
    BY <1>5, <1>8
  <2>2. QED BY <2>1
<1>11. Books
  <2>1. \A p, q \in pages : p.requested = q.requested => p = q
    BY <1>3
  <2>2. QED BY <1>3, <1>4, <1>6, <1>7, <2>1 DEF Books
<1>12. \E n \in 0..Len(held) :
         /\ Len(revisits) = Len(held) - n
         /\ \A i \in 1..Len(revisits) : revisits[i] = held[n + i]
         /\ \A i \in 1..n : held[i] \in Told \cup Addresses
  <2>1. Len(held) \in Nat /\ revisits = held
    BY <1>3, <1>6
  <2>2. 0 \in 0..Len(held) /\ Len(revisits) = Len(held) - 0
        /\ \A i \in 1..Len(revisits) : revisits[i] = held[0 + i]
    BY <2>1
  <2>3. QED BY <2>2
<1>13. DOMAIN streak = {}
  BY <1>3
<1>14. Keeping
  BY <1>3, <1>6, <1>7, <1>9, <1>10, <1>12, <1>13 DEF Keeping
<1>15. QED BY <1>11, <1>14

(* An item from the queue is not held; the first comes from the seeds.      *)
LEMMA QueueItem ==
  ASSUME TypeOK, Keeping, HasItem, queue # <<>>
  PROVE  /\ NextItem.url \in Urls(queue) \ Range(held)
         /\ Read = {} => NextItem.url = firstSeed
<1>1. 1 \in DOMAIN queue /\ NextItem = queue[1]
  BY QueueTaken
<1>2. NextItem.url \in Urls(queue)
  BY <1>1 DEF Urls
<1>3. QED BY <1>1, <1>2 DEF Keeping

(* What is re-read comes in the order held.                                 *)
LEMMA RevisitInOrder ==
  ASSUME TypeOK, Books, Keeping, HasItem, NEW i \in DOMAIN held, NEW j \in DOMAIN held,
         j < i, held[i] = NextItem.url
  PROVE  held[j] \in Told \cup Addresses
<1>1. NextItem.url \in Range(held)
  BY DEF Range
<1>2. queue = <<>>
  BY <1>1, QueueItem
<1>3. PICK n \in 0..Len(held) :
        /\ Len(revisits) = Len(held) - n
        /\ \A k \in 1..Len(revisits) : revisits[k] = held[n + k]
        /\ \A k \in 1..n : held[k] \in Told \cup Addresses
  BY DEF Keeping
<1>4. Len(held) \in Nat /\ DOMAIN held = 1..Len(held)
  BY LenProperties DEF TypeOK
<1>5. /\ Len(revisits) \in Nat /\ FirstOpen \in 1..Len(revisits)
      /\ NextItem.url = revisits[FirstOpen]
      /\ \A k \in 1..Len(revisits) : k < FirstOpen => revisits[k] \in done
  BY <1>2, RevisitTaken
<1>6. n + FirstOpen \in DOMAIN held /\ held[n + FirstOpen] = held[i]
  <2>1. n + FirstOpen \in 1..Len(held)
    BY <1>3, <1>4, <1>5
  <2>2. held[n + FirstOpen] = revisits[FirstOpen]
    BY <1>3, <1>5
  <2>3. QED BY <1>4, <1>5, <2>1, <2>2
<1>7. i = n + FirstOpen
  BY <1>6 DEF Books, IsInjective
<1>8. CASE j \in 1..n
  BY <1>3, <1>8
<1>9. CASE j \notin 1..n
  <2>1. j - n \in 1..Len(revisits) /\ j - n < FirstOpen /\ n + (j - n) = j
    BY <1>3, <1>4, <1>5, <1>7, <1>9
  <2>2. held[j] \in done
    BY <1>3, <1>5, <2>1
  <2>3. QED BY <2>2 DEF Keeping
<1>10. QED BY <1>8, <1>9

(* And what is left to re-read is the end of what is held.                  *)
LEMMA RevisitsAreLast ==
  ASSUME TypeOK, Keeping, HasItem
  PROVE  \E n \in 0..Len(held) :
           /\ Len(RevisitsLeft) = Len(held) - n
           /\ \A i \in 1..Len(RevisitsLeft) : RevisitsLeft[i] = held[n + i]
           /\ \A i \in 1..n : held[i] \in Told \cup Addresses \cup {NextItem.url}
<1>1. PICK n \in 0..Len(held) :
        /\ Len(revisits) = Len(held) - n
        /\ \A k \in 1..Len(revisits) : revisits[k] = held[n + k]
        /\ \A k \in 1..n : held[k] \in Told \cup Addresses
  BY DEF Keeping
<1>2. Len(held) \in Nat /\ DOMAIN held = 1..Len(held)
  BY LenProperties DEF TypeOK
<1>3. CASE queue # <<>>
  <2>1. RevisitsLeft = revisits
    BY <1>3, QueueTaken
  <2>2. QED BY <1>1, <2>1
<1>4. CASE queue = <<>>
  <2>1. /\ Len(revisits) \in Nat /\ FirstOpen \in 1..Len(revisits)
        /\ NextItem.url = revisits[FirstOpen]
        /\ \A k \in 1..Len(revisits) : k < FirstOpen => revisits[k] \in done
        /\ DOMAIN RevisitsLeft = 1..(Len(revisits) - FirstOpen)
        /\ \A k \in 1..(Len(revisits) - FirstOpen) : RevisitsLeft[k] = revisits[FirstOpen + k]
    BY <1>4, RevisitTaken
  <2>2. RevisitsLeft \in Seq(URL)
    BY NextItemProperties
  <2>3. Len(RevisitsLeft) = Len(revisits) - FirstOpen
    BY <2>1, <2>2, LenProperties
  <2> DEFINE m == n + FirstOpen
  <2>4. m \in 0..Len(held) /\ Len(RevisitsLeft) = Len(held) - m
    BY <1>1, <1>2, <2>1, <2>3
  <2>5. \A k \in 1..Len(RevisitsLeft) : RevisitsLeft[k] = held[m + k]
    <3> TAKE k \in 1..Len(RevisitsLeft)
    <3>1. FirstOpen + k \in 1..Len(revisits) /\ n + (FirstOpen + k) = m + k
      BY <1>1, <1>2, <2>1, <2>3
    <3>2. QED BY <1>1, <2>1, <2>3, <3>1
  <2>6. \A k \in 1..m : held[k] \in Told \cup Addresses \cup {NextItem.url}
    <3> TAKE k \in 1..m
    <3>1. CASE k \in 1..n
      BY <1>1, <3>1
    <3>2. CASE k \notin 1..n
      <4>1. k - n \in 1..Len(revisits) /\ n + (k - n) = k /\ (k - n < FirstOpen \/ k - n = FirstOpen)
        BY <1>1, <1>2, <2>1, <3>2
      <4>2. held[k] = revisits[k - n]
        BY <1>1, <4>1
      <4>3. k - n < FirstOpen => held[k] \in done
        BY <2>1, <4>1, <4>2
      <4>4. QED BY <2>1, <4>1, <4>2, <4>3 DEF Keeping
    <3>3. QED BY <3>1, <3>2
  <2> HIDE DEF m
  <2>7. QED BY <2>4, <2>5, <2>6
<1>5. QED BY <1>3, <1>4

(* A fetch keeps the books.                                                 *)
LEMMA BooksStep ==
  ASSUME TypeOK, Walk, Books, Keeping, NEW outcome \in Outcome, NEW page \in URL \cup {NoUrl},
         NEW found \in SUBSET URL, Fetches(outcome, page, found)
  PROVE  Books'
<1>1. /\ HasItem /\ running /\ Logged(outcome, page, found) /\ held' = held /\ seeds' = seeds
  BY DEF Fetches
<1>2. Fetched' = Fetched \cup {NextItem.url}
  BY <1>1, LogIs
<1>3. NextItem.url \notin Fetched /\ Told \subseteq Fetched
  BY <1>1, TakeProperties DEF Books
<1>4. /\ Told' \subseteq Told \cup {NextItem.url} /\ Told \subseteq Told'
      /\ Addresses \subseteq Addresses'
  BY Entries
<1>5. Told' \subseteq Fetched'
  BY <1>2, <1>3, <1>4
<1>6. Read' \cap (notFound' \cup errors') = {} /\ notFound' \cap errors' = {}
  <2>1. /\ NextItem.url \notin Read /\ NextItem.url \notin notFound /\ NextItem.url \notin errors
    BY <1>3 DEF Told
  <2>2. Read \cap (notFound \cup errors) = {} /\ notFound \cap errors = {}
    BY DEF Books
  <2>3. \/ Read' = Read /\ notFound' = notFound /\ errors' = errors
        \/ Read' = Read \cup {NextItem.url} /\ notFound' = notFound /\ errors' = errors
        \/ Read' = Read /\ notFound' = notFound \cup {NextItem.url} /\ errors' = errors
        \/ Read' = Read /\ notFound' = notFound /\ errors' = errors \cup {NextItem.url}
    BY Entries
  <2>4. QED BY <2>1, <2>2, <2>3
<1>7. \A p, q \in pages' : p.requested = q.requested => p = q
  <2>1. \A p, q \in pages : p.requested = q.requested => p = q
    BY DEF Books
  <2>2. CASE pages' = pages
    BY <2>1, <2>2
  <2>3. CASE ReadsPage(page, found)
    <3> DEFINE entry == [requested |-> NextItem.url, url |-> page, source |-> NextItem.source]
    <3>1. pages' = pages \cup {entry} /\ entry.requested = NextItem.url
      BY <2>3 DEF ReadsPage
    <3> HIDE DEF entry
    <3>2. \A p \in pages : p.requested # NextItem.url
      BY <1>3 DEF Told, Read
    <3>3. QED BY <2>1, <3>1, <3>2
  <2>4. QED BY <2>2, <2>3, Entries
<1>8. \A i, j \in DOMAIN held : j < i /\ held[i] \in Told' => held[j] \in Told' \cup Addresses'
  <2> SUFFICES ASSUME NEW i \in DOMAIN held, NEW j \in DOMAIN held, j < i, held[i] \in Told'
               PROVE  held[j] \in Told' \cup Addresses'
    OBVIOUS
  <2>1. held[j] \in Told \cup Addresses
    <3>1. CASE held[i] \in Told
      BY <3>1 DEF Books
    <3>2. CASE held[i] = NextItem.url
      BY <1>1, <3>2, RevisitInOrder
    <3>3. QED BY <1>4, <3>1, <3>2
  <2>2. QED BY <1>4, <2>1
<1>9. /\ seeds' # <<>> /\ Range(seeds)' \cap Range(held)' = {} /\ IsInjective(held')
  BY <1>1 DEF Books, Range
<1>10. DOMAIN held' = DOMAIN held /\ \A i : held'[i] = held[i]
  BY <1>1
<1>11. QED BY <1>5, <1>6, <1>7, <1>8, <1>9, <1>10 DEF Books

(* And while it goes on, all else.                                          *)
LEMMA KeepingStep ==
  ASSUME TypeOK, Walk, Ordered, Books, Keeping, NEW outcome \in Outcome,
         NEW page \in URL \cup {NoUrl}, NEW found \in SUBSET URL,
         Fetches(outcome, page, found), running' = TRUE
  PROVE  Keeping'
<1>1. /\ HasItem /\ running /\ Logged(outcome, page, found) /\ held' = held /\ seeds' = seeds
      /\ revisits' = RevisitsLeft
  BY DEF Fetches
<1>2. Fetched' = Fetched \cup {NextItem.url}
  BY <1>1, LogIs
<1>3. ReadsPage(page, found) \/ GoesPast(outcome)
  BY DEF Fetches, StopsOn, Stop
<1>4. /\ Told' = Told \cup {NextItem.url} /\ Addresses \subseteq Addresses' /\ Read \subseteq Read'
      /\ ReadsPage(page, found) => NextItem.url \in Read' /\ page \in Addresses'
  <2>1. outcome = "blocked" => ~StopsOn(outcome)
    BY DEF StopsOn, Stop
  <2>2. QED BY <2>1, Entries
<1>5. Fetched' = Told'
  BY <1>2, <1>4 DEF Keeping
<1>6. done' \subseteq Told' \cup Addresses'
  <2>1. CASE ReadsPage(page, found)
    <3>1. done' = done \cup {NextItem.url, page}
      BY <2>1 DEF ReadsPage
    <3>2. QED BY <1>4, <2>1, <3>1 DEF Keeping
  <2>2. CASE GoesPast(outcome)
    <3>1. done' = done \cup {NextItem.url}
      BY <2>2 DEF GoesPast
    <3>2. QED BY <1>4, <3>1 DEF Keeping
  <2>3. QED BY <1>3, <2>1, <2>2
<1>7. Urls(queue') = Urls(QueueLeft) \cup found
  BY QueueGrows
<1>8. Urls(queue) \subseteq Urls(QueueLeft) \cup {NextItem.url} /\ Urls(QueueLeft) \subseteq Urls(queue)
  BY <1>1, NothingElseTaken
<1>9. Range(seeds) \subseteq Told' \cup Urls(queue')
  BY <1>4, <1>7, <1>8 DEF Keeping
<1>10. Urls(queue') \cap Range(held) = {}
  <2>1. found \cap seen = {} /\ Range(held) \subseteq seen
    BY FoundIsNew DEF Ordered
  <2>2. Urls(queue) \cap Range(held) = {}
    BY DEF Keeping
  <2>3. QED BY <1>7, <1>8, <2>1, <2>2
<1>11. firstSeed \in Read'
  <2>1. CASE firstSeed \in Read
    BY <1>4, <2>1
  <2>2. CASE firstSeed \notin Read
    <3>1. queue # <<>> /\ queue[1].url = firstSeed
      BY <2>2 DEF Keeping
    <3>2. NextItem.url = firstSeed
      BY <1>1, <3>1, QueueTaken
    <3>3. ReadsPage(page, found)
      BY <1>3, <3>2 DEF GoesPast
    <3>4. QED BY <1>4, <3>2, <3>3
  <2>3. QED BY <2>1, <2>2
<1>12. firstSeed' = firstSeed
  BY <1>1 DEF firstSeed
<1>13. \A k \in DOMAIN streak' :
         /\ streak'[k].url \in errors'
         /\ streak'[k].source # "revisit" => streak'[k].url \notin Range(held)
  <2>1. CASE streak' = <<>>
    BY <2>1
  <2>2. CASE streak' # <<>>
    <3>1. GoesPast(outcome) /\ outcome = "down" /\ streak' = Append(streak, NextItem)
      BY <1>3, <2>2 DEF GoesPast, ReadsPage
    <3>2. errors' = errors \cup {NextItem.url}
      BY <3>1 DEF GoesPast
    <3>3. streak \in Seq(Item) /\ NextItem \in Item
      BY <1>1, NextItemProperties DEF TypeOK
    <3>4. /\ Len(streak) \in Nat /\ DOMAIN streak = 1..Len(streak)
          /\ DOMAIN streak' = 1..(Len(streak) + 1)
          /\ \A k \in 1..Len(streak) : streak'[k] = streak[k]
          /\ streak'[Len(streak) + 1] = NextItem
      BY <3>1, <3>3, AppendProperties, LenProperties
    <3>5. NextItem.source # "revisit" => NextItem.url \notin Range(held)
      BY <1>1, NextItemProperties, QueueItem
    <3>6. \A k \in DOMAIN streak :
            /\ streak[k].url \in errors
            /\ streak[k].source # "revisit" => streak[k].url \notin Range(held)
      BY DEF Keeping
    <3> TAKE k \in DOMAIN streak'
    <3>7. CASE k = Len(streak) + 1
      BY <3>2, <3>4, <3>5, <3>7
    <3>8. CASE k # Len(streak) + 1
      <4>1. k \in DOMAIN streak /\ streak'[k] = streak[k]
        BY <3>4, <3>8
      <4>2. QED BY <3>2, <3>6, <4>1
    <3>9. QED BY <3>7, <3>8
  <2>3. QED BY <2>1, <2>2
<1>14. \E n \in 0..Len(held) :
         /\ Len(RevisitsLeft) = Len(held) - n
         /\ \A i \in 1..Len(RevisitsLeft) : RevisitsLeft[i] = held[n + i]
         /\ \A i \in 1..n : held[i] \in Told' \cup Addresses'
  <2>1. Told \cup Addresses \cup {NextItem.url} \subseteq Told' \cup Addresses'
    BY <1>4
  <2>2. PICK n \in 0..Len(held) :
          /\ Len(RevisitsLeft) = Len(held) - n
          /\ \A i \in 1..Len(RevisitsLeft) : RevisitsLeft[i] = held[n + i]
          /\ \A i \in 1..n : held[i] \in Told \cup Addresses \cup {NextItem.url}
    BY <1>1, RevisitsAreLast
  <2>3. QED BY <2>1, <2>2
<1>15. /\ Range(seeds)' = Range(seeds) /\ Range(held)' = Range(held) /\ Urls(queue)' = Urls(queue')
       /\ Len(held)' = Len(held)
  BY <1>1 DEF Range, Urls
<1>16. \E n \in 0..Len(held') :
         /\ Len(revisits') = Len(held') - n
         /\ \A i \in 1..Len(revisits') : revisits'[i] = held'[n + i]
         /\ \A i \in 1..n : held'[i] \in Told' \cup Addresses'
  BY <1>1, <1>14
<1>17. QED BY <1>5, <1>6, <1>9, <1>10, <1>11, <1>12, <1>13, <1>15, <1>16 DEF Keeping

Accounts ==
  /\ Books
  /\ running => Keeping
  /\ ~running => Sound

(* Only the item in hand is put back: the queue names what it named before. *)
LEMMA PutBack ==
  ASSUME TypeOK, Remembers, running, HasItem, NEW reason, Stop(reason, <<NextItem>>),
         reason # "seed_failed"
  PROVE  Urls(queue') = Urls(queue)
<1>1. CASE queue # <<>>
  <2>1. 1 \in DOMAIN queue /\ NextItem = queue[1]
    BY <1>1, QueueTaken
  <2>2. NextItem.source # "revisit" /\ NextItem.url \in Urls(queue)
    BY <2>1 DEF Remembers, Urls
  <2>3. Urls(queue') = Urls(QueueLeft) \cup {NextItem.url}
    BY <2>2, StopOnItem
  <2>4. QED BY <2>2, <2>3, NothingElseTaken
<1>2. CASE queue = <<>>
  <2>1. NextItem.source = "revisit" /\ QueueLeft = queue
    BY <1>2, NextItemProperties
  <2>2. QED BY <2>1, StopOnItem
<1>3. QED BY <1>1, <1>2

(* A stop before anything is entered for the item in hand.                  *)
LEMMA SoundAsBefore ==
  ASSUME TypeOK, Walk, Books, Keeping, running, Urls(queue') = Urls(queue),
         Read' = Read, Told' = Told, UNCHANGED <<seeds, held, notFound, errors>>,
         stopReason' \in {"blocked", "max_requests"}
  PROVE  Sound'
<1>1. Urls(queue) \cap Told = {} /\ Urls(queue) \cap Range(held) = {}
  BY DEF Walk, Keeping
<1>2. Urls(queue)' = Urls(queue) /\ Range(held)' = Range(held) /\ Range(seeds)' = Range(seeds)
      /\ firstSeed' = firstSeed
  BY DEF Urls, Range, firstSeed
<1>3. Urls(queue) \cap (Read \cup notFound \cup Range(held)) = {} /\ errors \cap Urls(queue) = {}
  BY <1>1 DEF Told
<1>4. Range(seeds) \subseteq Told \cup Urls(queue)
  BY DEF Keeping
<1>5. Read = {} => Told = {} /\ Urls(queue) = Range(seeds)
  BY DEF Keeping
<1>6. Read # {} => firstSeed \in Read
  BY DEF Keeping, Told
<1>7. QED BY <1>2, <1>3, <1>4, <1>5, <1>6 DEF Sound

(* A fetch on which the walk stops.                                         *)
LEMMA SoundStep ==
  ASSUME TypeOK, Walk, Covered, Remembers, Books, Keeping, NEW outcome \in Outcome,
         NEW page \in URL \cup {NoUrl}, NEW found \in SUBSET URL,
         Fetches(outcome, page, found), StopsOn(outcome)
  PROVE  Sound'
<1>1. /\ HasItem /\ running /\ held' = held /\ seeds' = seeds
  BY DEF Fetches
<1>2. /\ NextItem.url \in seen \ Fetched
      /\ Urls(QueueLeft) \subseteq seen \ (Fetched \cup {NextItem.url})
  BY <1>1, TakeProperties
<1>3. Urls(queue) \subseteq Urls(QueueLeft) \cup {NextItem.url} /\ Urls(QueueLeft) \subseteq Urls(queue)
  BY <1>1, NothingElseTaken
<1>4. Fetched = Told
  BY DEF Keeping
<1>5. /\ Urls(queue)' = Urls(queue') /\ Range(held)' = Range(held) /\ Range(seeds)' = Range(seeds)
      /\ firstSeed' = firstSeed
  BY <1>1 DEF Urls, Range, firstSeed
<1>6. Read # {} => firstSeed \in Read
  BY DEF Keeping, Told
<1>7. pages' = pages /\ Read' = Read
  BY DEF StopsOn, Read
<1>8. CASE Stop("blocked", <<NextItem>>)
  <2>1. outcome = "blocked" /\ stopReason' = "blocked"
    BY <1>8 DEF StopsOn, Stop
  <2>2. Read' = Read /\ Told' = Told /\ notFound' = notFound /\ errors' = errors
    BY <1>7, <2>1 DEF StopsOn, Told
  <2>3. Urls(queue') = Urls(queue)
    BY <1>1, <1>8, PutBack
  <2>4. QED BY <1>1, <2>1, <2>2, <2>3, SoundAsBefore
<1>9. CASE Stop("seed_failed", <<NextItem>>)
  <2>1. queue' = QueueLeft /\ stopReason' = "seed_failed"
    BY <1>9 DEF Stop
  <2>2. /\ outcome # "blocked" /\ NextItem.url = firstSeed
        /\ \/ notFound' = notFound /\ errors' = errors \cup {NextItem.url}
           \/ errors' = errors /\ notFound' = notFound \cup {NextItem.url}
    BY <2>1 DEF StopsOn, Stop
  <2>3. firstSeed \notin Read
    BY <1>2, <1>4, <2>2 DEF Told
  <2>4. Told = {} /\ Urls(queue) = Range(seeds) /\ Read = {}
    BY <2>3 DEF Keeping, Told
  <2>5. Told' = {firstSeed}
    BY <1>7, <2>2, <2>4 DEF Told
  <2>6. firstSeed \in Urls(queue)
    <3>1. queue # <<>> /\ queue[1].url = firstSeed
      BY <2>3 DEF Keeping
    <3>2. QED BY <1>1, <3>1, QueueTaken, QueueItem, <2>2
  <2>7. Urls(queue') = Range(seeds) \ {firstSeed}
    BY <1>2, <1>3, <2>1, <2>2, <2>4, <2>6
  <2>8. Range(seeds) \cap Range(held) = {}
    BY DEF Books
  <2>9. notFound' \subseteq {firstSeed} /\ errors' \subseteq {firstSeed} /\ Read' = {}
    BY <1>7, <2>4, <2>5 DEF Told
  <2>10. /\ Urls(queue') \cap (Read' \cup notFound' \cup Range(held)) = {}
         /\ errors' \cap Urls(queue') = {}
    BY <2>7, <2>8, <2>9
  <2>11. QED BY <1>5, <2>1, <2>5, <2>7, <2>9, <2>10 DEF Sound
<1>10. CASE Stop("unavailable", Append(streak, NextItem))
  <2>1. stopReason' = "unavailable"
    BY <1>10 DEF Stop
  <2>2. /\ NextItem.url # firstSeed
        /\ notFound' = notFound /\ errors' = errors \cup {NextItem.url}
    BY <2>1 DEF StopsOn, Stop
  <2>3. Told' = Told \cup {NextItem.url}
    BY <1>7, <2>2 DEF Told
  <2>4. firstSeed \in Read
    <3>1. SUFFICES ASSUME firstSeed \notin Read PROVE FALSE
      OBVIOUS
    <3>2. queue # <<>> /\ queue[1].url = firstSeed
      BY <3>1 DEF Keeping
    <3>3. QED BY <1>1, <2>2, <3>2, QueueTaken
  <2>5. streak \in Seq(Item) /\ NextItem \in Item
    BY <1>1, NextItemProperties DEF TypeOK
  <2> DEFINE items == Append(streak, NextItem)
  <2>6. /\ items \in Seq(Item)
        /\ \A k \in DOMAIN items : items[k] = NextItem \/ (k \in DOMAIN streak /\ items[k] = streak[k])
    <3>1. /\ items \in Seq(Item) /\ Len(streak) \in Nat /\ DOMAIN streak = 1..Len(streak)
          /\ DOMAIN items = 1..(Len(streak) + 1)
          /\ \A k \in 1..Len(streak) : items[k] = streak[k]
          /\ items[Len(streak) + 1] = NextItem
      BY <2>5, AppendProperties, LenProperties
    <3> HIDE DEF items
    <3>2. QED BY <3>1
  <2>7. Stop("unavailable", items)
    BY <1>10
  <2> HIDE DEF items
  <2>8. \A u : u \in Urls(queue') <=>
          u \in Urls(QueueLeft)
            \/ \E k \in DOMAIN items : items[k].source # "revisit" /\ items[k].url = u
    BY <1>1, <2>6, <2>7, StopQueue
  <2>9. \A k \in DOMAIN streak :
          /\ streak[k].url \in errors
          /\ streak[k].source # "revisit" => streak[k].url \notin Range(held)
    BY <1>1 DEF Keeping
  <2>10. NextItem.source # "revisit" => NextItem.url \notin Range(held)
    BY <1>1, NextItemProperties, QueueItem
  <2>11. /\ Read \cap (notFound \cup errors) = {} /\ notFound \cap errors = {}
         /\ NextItem.url \notin Read /\ NextItem.url \notin notFound
    BY <1>2, <1>4 DEF Books, Told
  <2>12. ASSUME NEW u \in Urls(queue')
         PROVE  u \notin Read /\ u \notin notFound /\ u \notin Range(held)
    <3>1. CASE u \in Urls(QueueLeft)
      <4>1. u \notin Told
        BY <1>2, <1>4, <3>1
      <4>2. u \notin Range(held)
        BY <1>3, <3>1 DEF Keeping
      <4>3. QED BY <4>1, <4>2 DEF Told
    <3>2. CASE \E k \in DOMAIN items : items[k].source # "revisit" /\ items[k].url = u
      BY <2>6, <2>9, <2>10, <2>11, <3>2
    <3>3. QED BY <2>8, <3>1, <3>2
  <2>13. Range(seeds) \subseteq Told' \cup Urls(queue')
    BY <1>3, <2>3, <2>8 DEF Keeping
  <2>14. Urls(queue') \cap (Read' \cup notFound' \cup Range(held)) = {} /\ firstSeed \in Read'
    BY <1>7, <2>2, <2>4, <2>12
  <2>15. QED BY <1>5, <2>1, <2>13, <2>14 DEF Sound
<1>11. QED BY <1>8, <1>9, <1>10 DEF StopsOn

LEMMA NextAccounts ==
  TypeOK /\ Walk /\ Covered /\ Remembers /\ Ordered /\ Accounts /\ [Next]_vars => Accounts'
<1> SUFFICES ASSUME TypeOK, Walk, Covered, Remembers, Ordered, Accounts, [Next]_vars
             PROVE  Accounts'
  OBVIOUS
<1>1. CASE UNCHANGED vars
  <2>1. Books' = Books
    BY <1>1 DEF vars, Books, Told, Read, Addresses, Fetched, Range, IsInjective
  <2>2. Keeping' = Keeping
    BY <1>1 DEF vars, Keeping, Told, Read, Addresses, Fetched, Range, Urls, firstSeed
  <2>3. Sound' = Sound
    BY <1>1 DEF vars, Sound, Told, Read, Addresses, Range, Urls, firstSeed
  <2>4. QED BY <1>1, <2>1, <2>2, <2>3 DEF vars, Accounts
<1>2. CASE Finish
  <2>1. /\ running /\ ~HasItem /\ running' = FALSE
        /\ UNCHANGED <<seeds, held, queue, pages, notFound, errors, stopReason, log>>
    BY <1>2 DEF Finish
  <2>2. Keeping /\ Books /\ stopReason = "none"
    BY <2>1 DEF Accounts, Covered
  <2>3. Books'
    BY <2>1, <2>2 DEF Books, Told, Read, Addresses, Fetched, Range, IsInjective
  <2>4. queue = <<>> /\ \A i \in DOMAIN revisits : revisits[i] \in done
    BY <2>1 DEF HasItem, OpenRevisits
  <2>5. Urls(queue) = {}
    BY <2>4 DEF Urls
  <2>6. Range(held) \subseteq Told \cup Addresses
    <3>1. PICK n \in 0..Len(held) :
            /\ Len(revisits) = Len(held) - n
            /\ \A i \in 1..Len(revisits) : revisits[i] = held[n + i]
            /\ \A i \in 1..n : held[i] \in Told \cup Addresses
      BY <2>2 DEF Keeping
    <3>2. Len(held) \in Nat /\ DOMAIN held = 1..Len(held) /\ DOMAIN revisits = 1..Len(revisits)
      BY LenProperties DEF TypeOK
    <3>3. \A i \in DOMAIN held : held[i] \in Told \cup Addresses
      <4> TAKE i \in DOMAIN held
      <4>1. CASE i \in 1..n
        BY <3>1, <4>1
      <4>2. CASE i \notin 1..n
        <5>1. i - n \in 1..Len(revisits) /\ n + (i - n) = i
          BY <3>1, <3>2, <4>2
        <5>2. held[i] \in done
          BY <2>4, <3>1, <3>2, <5>1
        <5>3. QED BY <2>2, <5>2 DEF Keeping
      <4>3. QED BY <4>1, <4>2
    <3>4. QED BY <3>3 DEF Range
  <2>7. firstSeed \in Read /\ Range(seeds) \subseteq Told
    BY <2>2, <2>4, <2>5 DEF Keeping
  <2>8. Sound
    BY <2>2, <2>5, <2>6, <2>7 DEF Sound
  <2>9. Sound'
    <3>1. Sound' = Sound
      BY <2>1 DEF Sound, Told, Read, Addresses, Range, Urls, firstSeed
    <3>2. QED BY <2>8, <3>1
  <2>10. QED BY <2>1, <2>3, <2>9 DEF Accounts
<1>3. CASE CapReached
  <2>1. /\ running /\ HasItem /\ running' = FALSE /\ Stop("max_requests", <<NextItem>>)
        /\ stopReason' = "max_requests"
        /\ UNCHANGED <<seeds, held, pages, notFound, errors, log>>
    BY <1>3 DEF CapReached, Stop
  <2>2. Keeping /\ Books
    BY <2>1 DEF Accounts
  <2>3. Books'
    BY <2>1, <2>2 DEF Books, Told, Read, Addresses, Fetched, Range, IsInjective
  <2>4. Read' = Read /\ Told' = Told
    BY <2>1 DEF Told, Read
  <2>5. Urls(queue') = Urls(queue)
    BY <2>1, PutBack
  <2>6. Sound'
    BY <2>1, <2>2, <2>4, <2>5, SoundAsBefore
  <2>7. QED BY <2>1, <2>3, <2>6 DEF Accounts
<1>4. ASSUME NEW outcome \in Outcome, NEW page \in URL \cup {NoUrl},
             NEW found \in SUBSET URL, Fetches(outcome, page, found)
      PROVE  Accounts'
  <2>1. running /\ Keeping /\ Books
    BY <1>4 DEF Fetches, Accounts
  <2>2. Books'
    BY <1>4, <2>1, BooksStep
  <2>3. (running' = FALSE /\ StopsOn(outcome)) \/ running' = TRUE
    BY <1>4 DEF Fetches, GoesPast, ReadsPage, StopsOn, Stop
  <2>4. CASE running' = TRUE
    BY <1>4, <2>1, <2>2, <2>4, KeepingStep DEF Accounts
  <2>5. CASE running' = FALSE /\ StopsOn(outcome)
    BY <1>4, <2>1, <2>2, <2>5, SoundStep DEF Accounts
  <2>6. QED BY <2>3, <2>4, <2>5
<1>5. CASE Next
  BY <1>2, <1>3, <1>4, <1>5, StepCases
<1>6. QED BY <1>1, <1>5

(* What the books say is what the caller is promised.                       *)
LEMMA BooksKeepContract == TypeOK /\ Accounts => KeepsContract
<1> SUFFICES ASSUME TypeOK, Books, Sound
             PROVE  Contract!IsResult(Result, firstSeed, Range(seeds), Range(held), NoUrl, HeldOrder)
  BY DEF Accounts, KeepsContract
<1> DEFINE r == Result
           ReadSet == {u \in DOMAIN r.read : r.read[u] # NoUrl}
           Targets == {r.read[u] : u \in ReadSet}
(* The fields of the result. *)
<1>1. r.gone = notFound /\ r.failed = errors /\ r.stop = stopReason /\ r.waiting = Range(Frontier)
  BY DEF Result
<1>2. Range(Frontier) = Urls(queue)
  BY DEF Range, Frontier, Urls
<1>3. /\ DOMAIN r.read = URL
      /\ \A u \in URL : r.read[u] = IF \E p \in pages : p.requested = u
                                    THEN (CHOOSE p \in pages : p.requested = u).url ELSE NoUrl
  BY DEF Result
<1>4. \A p \in pages : p.requested \in URL /\ p.url \in URL
  BY DEF TypeOK
<1>5. \A p \in pages : r.read[p.requested] = p.url
  <2> TAKE p \in pages
  <2> DEFINE q == CHOOSE o \in pages : o.requested = p.requested
  <2>1. q \in pages /\ q.requested = p.requested
    OBVIOUS
  <2>2. q = p
    BY <2>1 DEF Books
  <2>3. r.read[p.requested] = q.url
    BY <1>3, <1>4
  <2>4. QED BY <2>2, <2>3
<1>6. \A u \in URL : u \notin Read => r.read[u] = NoUrl
  BY <1>3 DEF Read
<1>7. NoUrl \notin URL
  BY CrawlAssumption
<1> HIDE DEF r
<1>8. \A u : u \in ReadSet <=> u \in Read
  BY <1>3, <1>4, <1>5, <1>6, <1>7 DEF Read
<1>9. ReadSet = Read
  BY <1>8
<1> HIDE DEF ReadSet
<1>10. Targets = Addresses
  BY <1>5, <1>9 DEF Read, Addresses
<1> HIDE DEF Targets
(* What they owe the caller. *)
<1>11. Range(seeds) \cap Range(held) = {} /\ Range(held) \ Range(seeds) = Range(held)
  BY DEF Books
<1>12. \A u, v \in Range(held) : u \in Told /\ <<v, u>> \in HeldOrder => v \in Told \cup Addresses
  <2> SUFFICES ASSUME NEW u \in Range(held), NEW v \in Range(held), u \in Told, <<v, u>> \in HeldOrder
               PROVE  v \in Told \cup Addresses
    OBVIOUS
  <2>1. PICK i \in DOMAIN held, j \in DOMAIN held : i < j /\ <<v, u>> = <<held[i], held[j]>>
    BY DEF HeldOrder
  <2>2. v = held[i] /\ u = held[j] /\ i < j
    BY <2>1
  <2>3. QED BY <2>2 DEF Books
<1>13. /\ Read \cap (notFound \cup errors) = {} /\ notFound \cap errors = {}
  BY DEF Books
<1>14. QED BY <1>1, <1>2, <1>9, <1>10, <1>11, <1>12, <1>13 DEF Sound, Told, Contract!IsResult, ReadSet, Targets, r

(* A crawl whose provider names at least the page it starts from ends, for  *)
(* any site, index and bounds, with a result its caller may rely on: each   *)
(* address it asked for is in one place of the books, the frontier holds    *)
(* none that was answered, no seed is lost, what is held was re-read in its *)
(* order, and a run that could not read its first page says so and read     *)
(* nothing.                                                                 *)
THEOREM ContractIsKept ==
  ASSUME SeedsGiven
  PROVE  Spec => []KeepsContract
<1>1. Spec => []TypeOK /\ []Walk /\ []Covered /\ []Patience
  BY InitTyped, NextTyped, InitWalk, NextWalk, InitCovered, NextCovered, InitPatience, NextPatience,
     PTL DEF Spec
<1>2. Spec => []Remembers
  BY <1>1, InitRemembers, NextRemembers, PTL DEF Spec
<1>3. Spec => []Ordered
  BY <1>1, <1>2, InitOrdered, NextOrdered, PTL DEF Spec
<1>4. Init => Accounts
  <2>1. Init => running = TRUE
    BY DEF Init, Started
  <2>2. QED BY <2>1, InitAccounts DEF Accounts
<1>5. QED BY <1>1, <1>2, <1>3, <1>4, NextAccounts, BooksKeepContract, PTL DEF Spec

(* All a run hands on: nothing forgotten, read in order, and the contract.  *)
THEOREM ResultAlwaysHolds ==
  ASSUME SeedsGiven
  PROVE  Spec => []ResultHolds
BY ForgetsNothing, WalksInOrder, ContractIsKept, PTL DEF ResultHolds
=============================================================================
