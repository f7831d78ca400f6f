--------------------------- MODULE CrawlContract ---------------------------
(***************************************************************************)
(* What the caller of site_crawler.crawl() may rely on: the relation       *)
(* between the arguments of a crawl and its result.  SiteCrawler is        *)
(* checked to end with a result of this kind, IndexRefresh merges any      *)
(* result of this kind.                                                    *)
(***************************************************************************)
EXTENDS Naturals

(* A result.  read maps a requested address to the address its page says it *)
(* is; gone, failed and waiting (the frontier) are sets of addresses.       *)
Results(URL, NoUrl) ==
  [read : [URL -> URL \cup {NoUrl}], gone : SUBSET URL, failed : SUBSET URL,
   waiting : SUBSET URL,
   stop : {"none", "blocked", "seed_failed", "unavailable", "max_requests"}]

(* The result is one of a crawl whose seeds are the set seeds, first the     *)
(* first of them, and whose revisits are held; <<u, v>> \in before says that *)
(* u stands before v in the revisits.                                        *)
IsResult(r, first, seeds, held, NoUrl, before) ==
  LET ReadSet == {u \in DOMAIN r.read : r.read[u] # NoUrl}
      Targets == {r.read[u] : u \in ReadSet}
      Fetched == ReadSet \cup r.gone \cup r.failed
      Revisited == held \ seeds
      \* the addresses a 5xx sent back to the frontier of an unavailable run
      Retried == r.failed \cap r.waiting
  IN
  /\ ReadSet \cap (r.gone \cup r.failed) = {} /\ r.gone \cap r.failed = {}
  /\ r.waiting \cap (ReadSet \cup r.gone \cup Revisited) = {}
  /\ Retried # {} => r.stop = "unavailable"
  \* no address the caller passed is dropped
  /\ r.stop # "seed_failed" => seeds \subseteq Fetched \cup r.waiting
  /\ r.stop = "none" => r.waiting = {} /\ held \subseteq Fetched \cup Targets
  \* without its first page a crawl goes nowhere
  /\ r.stop = "seed_failed" =>
       ReadSet = {} /\ Fetched = {first} /\ r.waiting = seeds \ {first}
  /\ ReadSet = {} /\ r.stop # "seed_failed" =>
       Fetched = {} /\ r.waiting = seeds /\ r.stop \in {"blocked", "max_requests"}
  /\ ReadSet # {} => first \in ReadSet
  \* revisits are taken in order
  /\ \A u, v \in Revisited :
       u \in Fetched /\ <<v, u>> \in before => v \in Fetched \cup Targets
=============================================================================
