---------------------------- MODULE SiteCrawler ----------------------------
(***************************************************************************)
(* warcraft_content/site_crawler.py: the breadth-first walk of one site    *)
(* that builds a page index.  The provider injects the fetch, the page     *)
(* reader and the link filter; this module owns the walk, so what a site   *)
(* answers is chosen by nondeterminism and everything the walk decides is  *)
(* modelled.  A loop iteration of crawl() is one action: the walk is one   *)
(* thread and shares nothing while it runs.                                *)
(***************************************************************************)
EXTENDS Integers, Sequences, FiniteSets, Functions

CONSTANTS
  URL,               \* the addresses of the site
  NoUrl,             \* stands for Python's None
  SeedLists,         \* the duplicate-free seed lists a provider starts from
  HeldPages,         \* the addresses an earlier run may have indexed
  RedirectTargets,   \* the addresses a redirect may land on
  FollowSets,        \* the sets of links should_expand may accept on a page
  MaxRequests,       \* the request cap
  UnavailableAfter   \* UNAVAILABLE_AFTER

ASSUME CrawlAssumption ==
  /\ IsFiniteSet(URL)
  /\ NoUrl \notin URL
  /\ \A s \in SeedLists : s \in Seq(URL) /\ IsInjective(s)
  /\ HeldPages \subseteq URL
  /\ RedirectTargets \subseteq URL
  /\ FollowSets \subseteq SUBSET URL
  /\ MaxRequests \in Nat
  /\ UnavailableAfter \in Nat \ {0}

VARIABLES
  seeds,        \* the seeds as passed, without duplicates
  held,         \* the revisits as passed, without the seeds
  queue,        \* discovered addresses still to fetch, with how they were found
  revisits,     \* indexed addresses still to re-read, in the given order
  seen,         \* queued, fetched or indexed
  done,         \* fetched, or served as another address's redirect target
  streak,       \* items fetched since the last success, all 5xx or transport failures
  requests,     \* requests made, cached pages not counted
  pages,        \* what was read: requested address, the page's own address, source
  notFound,     \* addresses that answered 404 or 410
  errors,       \* addresses with any other failure
  stopReason,   \* result.stop_reason
  running,      \* the loop has not ended
  log           \* history: every fetch with its outcome and what it discovered

vars == <<seeds, held, queue, revisits, seen, done, streak, requests,
          pages, notFound, errors, stopReason, running, log>>

Source == {"seed", "link", "revisit"}
Item == [url : URL, source : Source]
Outcome == {"page", "notpage", "gone", "blocked", "down", "other"}
StopReason == {"none", "blocked", "seed_failed", "unavailable", "max_requests"}
Fetch == [url : URL, source : Source, outcome : Outcome, page : URL \cup {NoUrl},
          found : SUBSET URL]

(* Every duplicate-free listing of the finite set S. *)
Orderings(S) == Bijection(1..Cardinality(S), S)

Items(urls, source) == [i \in DOMAIN urls |-> [url |-> urls[i], source |-> source]]

(* The seed that anchors the crawl. *)
firstSeed == IF seeds = <<>> THEN NoUrl ELSE seeds[1]

Urls(items) == {items[i].url : i \in DOMAIN items}

(* The state crawl() builds from its arguments before the loop. *)
Started(list, order) ==
  /\ seeds = list
  /\ held = order
  /\ queue = Items(list, "seed")
  /\ revisits = order
  /\ seen = Range(list) \cup Range(order)
  /\ done = {}
  /\ streak = <<>>
  /\ requests = 0
  /\ pages = {}
  /\ notFound = {}
  /\ errors = {}
  /\ stopReason = "none"
  /\ running = TRUE
  /\ log = <<>>

Init ==
  \E list \in SeedLists, indexed \in SUBSET HeldPages :
    \E order \in Orderings(indexed \ Range(list)) : Started(list, order)

-----------------------------------------------------------------------------
(* _next_url: the next discovered address, else the next revisit nothing    *)
(* has fetched yet; the revisits it passes over are gone.                   *)

OpenRevisits == {i \in DOMAIN revisits : revisits[i] \notin done}

FirstOpen == CHOOSE i \in OpenRevisits : \A j \in OpenRevisits : i <= j

\* Mutant: the revisits are never walked.
HasItemQueueOnly == queue # <<>>

HasItem == queue # <<>> \/ OpenRevisits # {}

NextItem ==
  IF queue # <<>> THEN Head(queue)
  ELSE [url |-> revisits[FirstOpen], source |-> "revisit"]

QueueLeft == IF queue # <<>> THEN Tail(queue) ELSE <<>>

RevisitsLeft ==
  IF queue # <<>> THEN revisits ELSE SubSeq(revisits, FirstOpen + 1, Len(revisits))

-----------------------------------------------------------------------------
(* _stop: the items a run stopped on go back to the front of the queue, in  *)
(* their order, except revisits, which the next run revisits anyway.        *)

KeptItems(items) == {it \in Range(items) : it.source # "revisit"}

InOrderOf(part, whole) ==
  \A a, b \in DOMAIN part : a < b =>
    \E i, j \in DOMAIN whole : i < j /\ whole[i] = part[a] /\ whole[j] = part[b]

\* Mutant: the items are not put back.
StopDropping(reason, items) == stopReason' = reason /\ running' = FALSE /\ queue' = QueueLeft

Stop(reason, items) ==
  /\ stopReason' = reason
  /\ running' = FALSE
  /\ IF reason = "seed_failed"
     THEN queue' = QueueLeft
     ELSE \E kept \in Orderings(KeptItems(items)) :
            InOrderOf(kept, items) /\ queue' = kept \o QueueLeft

\* Mutant: revisits that are passed over are not popped.
FinishStuck ==
  /\ running /\ ~HasItem /\ revisits = <<>>
  /\ running' = FALSE
  /\ UNCHANGED <<seeds, held, queue, revisits, seen, done, streak, requests, pages,
                 notFound, errors, stopReason, log>>

(* The loop found nothing left to fetch: a complete run. *)
Finish ==
  /\ running /\ ~HasItem
  /\ running' = FALSE
  /\ revisits' = <<>>
  /\ UNCHANGED <<seeds, held, queue, seen, done, streak, requests, pages,
                 notFound, errors, stopReason, log>>

(* The request cap is reached with an item in hand, cached or not. *)
CapReached ==
  /\ running /\ HasItem
  /\ requests >= MaxRequests
  /\ Stop("max_requests", <<NextItem>>)
  /\ revisits' = RevisitsLeft
  /\ UNCHANGED <<seeds, held, seen, done, streak, requests, pages,
                 notFound, errors, log>>

-----------------------------------------------------------------------------
(* What every fetch does: count the request, take the item, mark it done.   *)

\* Mutant: the cap is off by one.
FetchingOneMore(cost) ==
  /\ running /\ HasItem
  /\ requests <= MaxRequests
  /\ requests' = requests + cost
  /\ revisits' = RevisitsLeft
  /\ UNCHANGED <<seeds, held>>

Fetching(cost) ==
  /\ running /\ HasItem
  /\ requests < MaxRequests
  /\ requests' = requests + cost
  /\ revisits' = RevisitsLeft
  /\ UNCHANGED <<seeds, held>>

Logged(outcome, page, found) ==
  log' = Append(log, [url |-> NextItem.url, source |-> NextItem.source,
                      outcome |-> outcome, page |-> page, found |-> found])

GoOn == running' = TRUE /\ UNCHANGED stopReason

(* A challenge, a 403 or a 429.  A challenge may come with a 5xx, which     *)
(* grows the streak before the run stops.                                   *)
FetchBlocked ==
  /\ Fetching(1)
  /\ done' = done \cup {NextItem.url}
  /\ streak' \in {<<>>, Append(streak, NextItem)}
  /\ Stop("blocked", <<NextItem>>)
  /\ Logged("blocked", NoUrl, {})
  /\ UNCHANGED <<seen, pages, notFound, errors>>

(* A 5xx or a transport failure. *)
FetchDown ==
  /\ Fetching(1)
  /\ done' = done \cup {NextItem.url}
  /\ streak' = Append(streak, NextItem)
  /\ errors' = errors \cup {NextItem.url}
  /\ IF NextItem.url = firstSeed THEN Stop("seed_failed", <<NextItem>>)
     ELSE IF Len(streak') >= UnavailableAfter THEN Stop("unavailable", streak')
     ELSE GoOn /\ queue' = QueueLeft
  /\ Logged("down", NoUrl, {})
  /\ UNCHANGED <<seen, pages, notFound>>

(* Any other answer with no page in it: gone, an odd status, or a body that *)
(* is not one of the site's pages (which the page cache may also hold).     *)
FetchNoPage(outcome, cost) ==
  /\ outcome # "notpage" => cost = 1
  /\ Fetching(cost)
  /\ done' = done \cup {NextItem.url}
  /\ streak' = <<>>
  /\ notFound' = IF outcome = "gone" THEN notFound \cup {NextItem.url} ELSE notFound
  /\ errors' = IF outcome = "gone" THEN errors ELSE errors \cup {NextItem.url}
  /\ IF NextItem.url = firstSeed THEN Stop("seed_failed", <<NextItem>>)
     ELSE GoOn /\ queue' = QueueLeft
  /\ Logged(outcome, NoUrl, {})
  /\ UNCHANGED <<seen, pages>>

(* The first seed reads as a page with no links at all. *)
FetchBareSeed(page, cost) ==
  /\ Fetching(cost)
  /\ NextItem.url = firstSeed
  /\ done' = done \cup {NextItem.url}
  /\ streak' = <<>>
  /\ errors' = errors \cup {NextItem.url}
  /\ Stop("seed_failed", <<NextItem>>)
  /\ Logged("page", page, {})
  /\ UNCHANGED <<seen, pages, notFound>>

Discovered(follow, page) == follow \ (seen \cup {page})

Enqueue(order) == QueueLeft \o Items(order, "link")

(* A page is read.  Its own address differs from the requested one after a  *)
(* redirect; the links worth following that nothing has seen are queued.    *)
FetchPage(page, follow, cost) ==
  LET found == Discovered(follow, page) IN
  /\ Fetching(cost)
  /\ done' = done \cup {NextItem.url, page}
  /\ streak' = <<>>
  /\ pages' = pages \cup {[requested |-> NextItem.url, url |-> page,
                           source |-> NextItem.source]}
  /\ seen' = seen \cup {page} \cup found
  /\ \E order \in Orderings(found) : queue' = Enqueue(order)
  /\ GoOn
  /\ Logged("page", page, found)
  /\ UNCHANGED <<notFound, errors>>

Next ==
  \/ Finish
  \/ CapReached
  \/ FetchBlocked
  \/ FetchDown
  \/ \E outcome \in {"gone", "other", "notpage"}, cost \in {0, 1} : FetchNoPage(outcome, cost)
  \/ \E cost \in {0, 1}, target \in RedirectTargets \cup {NoUrl} :
       LET page == IF target = NoUrl THEN NextItem.url ELSE target IN
       \/ FetchBareSeed(page, cost)
       \/ \E follow \in FollowSets : FetchPage(page, follow, cost)

Spec == Init /\ [][Next]_vars

(* The walk is a plain loop: nothing keeps it from taking its next step.    *)
FairSpec == Spec /\ WF_vars(Next)

(* result.frontier of a run that has ended. *)
Frontier == [i \in DOMAIN queue |-> queue[i].url]
-----------------------------------------------------------------------------
(* Properties.  The log tells what was fetched, in which order, and what    *)
(* each page read led to.                                                   *)

TypeOK ==
  /\ seeds \in Seq(URL)
  /\ held \in Seq(URL)
  /\ queue \in Seq(Item)
  /\ revisits \in Seq(URL)
  /\ seen \subseteq URL
  /\ done \subseteq URL
  /\ streak \in Seq(Item)
  /\ requests \in Nat
  /\ pages \subseteq [requested : URL, url : URL, source : Source]
  /\ notFound \subseteq URL
  /\ errors \subseteq URL
  /\ stopReason \in StopReason
  /\ running \in BOOLEAN
  /\ log \in Seq(Fetch)

Fetched == {log[i].url : i \in DOMAIN log}

(* No address is requested twice in a run, whether it is a seed, a link met *)
(* on many pages, a page that is both linked and indexed, or one put back.  *)
FetchedOnce == \A i, j \in DOMAIN log : log[i].url = log[j].url => i = j

(* The politeness rules, over the whole run: the request cap holds, nothing *)
(* is fetched after a block, and never after UnavailableAfter failures in a *)
(* row, wherever in the run they fall.                                      *)
Polite ==
  /\ requests <= MaxRequests
  /\ \A i \in DOMAIN log : log[i].outcome = "blocked" => i = Len(log)
  /\ \A i \in DOMAIN log :
       (\A j \in DOMAIN log : i <= j /\ j < i + UnavailableAfter => log[j].outcome = "down")
         => Len(log) <= i + UnavailableAfter - 1

(* What a run owes the site: no page twice, and the politeness rules.       *)
Courteous == FetchedOnce /\ Polite

Answered(u) == \E i \in DOMAIN log : log[i].url = u /\ log[i].outcome \notin {"blocked", "down"}

RedirectTarget(u) == \E i \in DOMAIN log : log[i].page = u

(* A 5xx is only forgotten when the site answered afterwards, or when the   *)
(* run did not stop on it.                                                  *)
GivenUp(u) ==
  \E i \in DOMAIN log :
    /\ log[i].url = u /\ log[i].outcome = "down"
    /\ \/ stopReason # "unavailable"
       \/ \E j \in DOMAIN log : j > i /\ log[j].outcome # "down"

(* Every address the run ever heard of and the index does not hold is       *)
(* answered, a redirect target, given up after a 5xx the site recovered     *)
(* from, or still in the queue, which is the frontier the next run starts   *)
(* from: no stop drops a discovered address.                                *)
NothingForgotten ==
  \A u \in seen \ Range(held) : u \in Urls(queue) \/ Answered(u) \/ RedirectTarget(u) \/ GivenUp(u)

(* Pages the index holds are never discovered, and are re-read only when    *)
(* every address discovered so far has been fetched: what is fetched or     *)
(* waits after a revisit was found on that revisited page or later.         *)
RevisitsYield ==
  /\ \A i \in DOMAIN log : log[i].source = "link" => log[i].url \notin Range(held)
  /\ \A i \in DOMAIN log : log[i].source = "revisit" =>
       /\ \A j \in DOMAIN log : j > i /\ log[j].source # "revisit" =>
            \E k \in i..(j - 1) : log[j].url \in log[k].found
       /\ stopReason = "max_requests" =>
            \A u \in Urls(queue) : \E k \in i..Len(log) : u \in log[k].found

(* Once a fetched page has said it is the address u, u is neither           *)
(* rediscovered through a link nor re-read as a revisit.                    *)
RedirectTargetSettled ==
  \A i, j \in DOMAIN log : i < j /\ log[i].page # NoUrl =>
    /\ log[i].page \notin log[j].found
    /\ log[i].page = log[j].url => log[j].source # "revisit"

(* Discovery is breadth first: of two links found on different pages, the   *)
(* one found first is fetched first.                                        *)
BreadthFirst ==
  \A i, j, m \in DOMAIN log : i < j /\ log[m].url \in log[j].found =>
    \A u \in log[i].found : \E n \in 1..m : log[n].url = u

(* The whole walk in order: new addresses breadth first, then what is held, *)
(* and nothing again that a page has already answered for.                  *)
WalkOrder == BreadthFirst /\ RevisitsYield /\ RedirectTargetSettled

(* A run that has ended leaves a result its caller may rely on as           *)
(* CrawlContract says; IndexRefresh merges results of that kind.            *)
Result ==
  [read |-> [u \in URL |-> IF \E p \in pages : p.requested = u
                          THEN (CHOOSE p \in pages : p.requested = u).url ELSE NoUrl],
   gone |-> notFound, failed |-> errors, waiting |-> Range(Frontier), stop |-> stopReason]

Contract == INSTANCE CrawlContract

HeldOrder ==
  UNION {{<<held[i], held[j]>> : j \in {k \in DOMAIN held : i < k}} : i \in DOMAIN held}

KeepsContract ==
  ~running => Contract!IsResult(Result, firstSeed, Range(seeds), Range(held), NoUrl, HeldOrder)

(* What a run hands to the next one: nothing it heard of is forgotten, what *)
(* it read it read in order, and the caller may rely on the whole.          *)
ResultHolds == NothingForgotten /\ WalkOrder /\ KeepsContract

(* Every run ends: the site has finitely many addresses and none is fetched *)
(* twice, so the walk cannot go round in circles.                           *)
Terminates == <>~running

(* The walk implements the promise of PoliteCrawl. *)
Ending == IF running THEN "no" ELSE IF stopReason = "none" THEN "complete" ELSE "partial"

Promise == INSTANCE PoliteCrawl WITH
  Budget <- MaxRequests,
  known <- seen,
  fetched <- Fetched,
  settled <- {log[i].page : i \in DOMAIN log} \cap seen,
  spent <- requests,
  ending <- Ending

ImplementsPromise == Promise!Spec
=============================================================================
