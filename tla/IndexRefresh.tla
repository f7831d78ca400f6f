---------------------------- MODULE IndexRefresh ----------------------------
(***************************************************************************)
(* icy-veins index-refresh (provider.py, site_index.py): load the site     *)
(* index, crawl from its frontier, merge what was read, save.  Several     *)
(* processes may run it; nothing locks the index, only the write is        *)
(* atomic.  The crawl is any result SiteCrawler's contract allows.         *)
(* A page's slug and its address name each other (guide_ref_parts and      *)
(* guide_url), so a row is keyed by address.                               *)
(***************************************************************************)
EXTENDS Integers, FiniteSets

CONSTANTS
  URL,      \* the pages of the site
  NoUrl,    \* stands for None
  Menu,     \* SITE_MENU_SEED_URL
  Moves,    \* the redirects the site may serve: pairs <<old, new>>
  Refresher,     \* processes running index-refresh
  LastDay,  \* bound on the calendar
  Bundled   \* the index shipped with the package

Day == 0..LastDay
Row == [status : {"ok", "redirect"}, to : URL \cup {NoUrl}, first : Day, last : Day]
Absent == [status |-> "absent", to |-> NoUrl, first |-> 0, last |-> 0]
Index == [rows : [URL -> Row \cup {Absent}], frontier : SUBSET URL, refreshed : Day]

(* The calendar begins when the package is built.                           *)
ASSUME IndexAssumption ==
  /\ Menu \in URL /\ NoUrl \notin URL
  /\ Moves \subseteq URL \X URL
  /\ LastDay \in Nat
  /\ Bundled \in Index /\ \A u \in URL : Bundled.rows[u].last = 0

Contract == INSTANCE CrawlContract

VARIABLES
  day,       \* datetime.now(UTC).date()
  disk,      \* what load_site_index() returns
  stage,        \* where each process is in index_refresh()
  previous,  \* the index each process loaded
  result     \* the result of each process's crawl

indexing == <<day, disk, stage, previous, result>>

Held(index) == {u \in URL : index.rows[u].status = "ok"}

Reads == {f \in [URL -> URL \cup {NoUrl}] :
            \A u \in URL : f[u] \in {NoUrl, u} \/ <<u, f[u]>> \in Moves}

ReadSet(r) == {u \in URL : r.read[u] # NoUrl}

(* merge_crawl: upsert every page read under its own slug, then a redirect  *)
(* row under each old slug, then drop the 404s; all other rows stay.        *)
Upsert(row, status, to) ==
  [status |-> status, to |-> to,
   first |-> IF row.status = "absent" THEN day ELSE row.first, last |-> day]

MergedRow(old, r, u) ==
  IF u \in r.gone THEN Absent
  ELSE IF u \in ReadSet(r) /\ r.read[u] # u THEN Upsert(old.rows[u], "redirect", r.read[u])
  ELSE IF \E v \in ReadSet(r) : r.read[v] = u THEN Upsert(old.rows[u], "ok", NoUrl)
  ELSE old.rows[u]

\* Mutant: only a capped run leaves a frontier.
MergeDropsFrontier(old, r) ==
  [rows |-> [u \in URL |-> MergedRow(old, r, u)],
   frontier |-> IF r.stop = "max_requests" THEN r.waiting ELSE {},
   refreshed |-> IF r.stop \in {"blocked", "unavailable"} THEN old.refreshed ELSE day]

Merge(old, r) ==
  [rows |-> [u \in URL |-> MergedRow(old, r, u)],
   frontier |-> r.waiting,
   refreshed |-> IF r.stop \in {"blocked", "unavailable"} THEN old.refreshed ELSE day]

ReadAnything(r) == ReadSet(r) # {} \/ r.gone # {}

NoResult == [read |-> [u \in URL |-> NoUrl], gone |-> {}, failed |-> {},
             waiting |-> {}, stop |-> "none"]

IndexInit ==
  /\ day = 0
  /\ disk = Bundled
  /\ stage = [p \in Refresher |-> "idle"]
  /\ previous = [p \in Refresher |-> Bundled]
  /\ result = [p \in Refresher |-> NoResult]

(* load_site_index() at the top of index_refresh(). *)
Load(p) ==
  /\ stage[p] = "idle"
  /\ stage' = [stage EXCEPT ![p] = "loaded"]
  /\ previous' = [previous EXCEPT ![p] = disk]
  /\ UNCHANGED <<day, disk, result>>

(* The crawl as the code calls it: the menu page, then the frontier, then   *)
(* the ok rows by the day they were last seen.  seed_failed raises: the run *)
(* ends and nothing is merged.                                              *)
SeedsOf(index) == {Menu} \cup index.frontier

\* Mutant: the indexed pages are not passed as revisits.
IsCrawlOfNew(index, r) ==
  Contract!IsResult(r, Menu, SeedsOf(index), {}, NoUrl, {})

IsCrawlOf(index, r) ==
  LET lastSeenBefore == {p \in URL \X URL : index.rows[p[1]].last < index.rows[p[2]].last}
  IN Contract!IsResult(r, Menu, SeedsOf(index), Held(index) \ SeedsOf(index),
                       NoUrl, lastSeenBefore)

Crawl(p) ==
  /\ stage[p] = "loaded"
  /\ \E read \in Reads :
     \E gone \in SUBSET {u \in URL : read[u] = NoUrl} :
     \E failed \in SUBSET ({u \in URL : read[u] = NoUrl} \ gone),
        waiting \in SUBSET ({u \in URL : read[u] = NoUrl} \ gone),
        stop \in {"none", "blocked", "seed_failed", "unavailable", "max_requests"} :
       LET r == [read |-> read, gone |-> gone, failed |-> failed, waiting |-> waiting,
                 stop |-> stop] IN
       /\ IsCrawlOf(previous[p], r)
       /\ stage' = [stage EXCEPT ![p] = IF r.stop = "seed_failed" THEN "idle" ELSE "crawled"]
       /\ result' = [result EXCEPT ![p] = IF r.stop = "seed_failed" THEN NoResult ELSE r]
  /\ UNCHANGED <<day, disk, previous>>

(* The merge and the atomic write; a run that read nothing writes nothing.  *)
Save(p) ==
  /\ stage[p] = "crawled"
  /\ IF ReadAnything(result[p])
     THEN disk' = Merge(previous[p], result[p])
     ELSE UNCHANGED disk
  /\ stage' = [stage EXCEPT ![p] = "idle"]
  /\ result' = [result EXCEPT ![p] = NoResult]
  /\ UNCHANGED <<day, previous>>

(* The process is killed, the sitemap cannot be read, or the write fails:   *)
(* the temporary file is not the index, so the index stays as it was.       *)
Die(p) ==
  /\ stage[p] # "idle"
  /\ stage' = [stage EXCEPT ![p] = "idle"]
  /\ result' = [result EXCEPT ![p] = NoResult]
  /\ UNCHANGED <<day, disk, previous>>

Midnight ==
  /\ day < LastDay
  /\ day' = day + 1
  /\ UNCHANGED <<disk, stage, previous, result>>

IndexNext == Midnight \/ \E p \in Refresher : Load(p) \/ Crawl(p) \/ Save(p) \/ Die(p)

IndexSpec == IndexInit /\ [][IndexNext]_indexing

-----------------------------------------------------------------------------
(* Properties.                                                              *)

Present(index, u) == index.rows[u].status # "absent"

FetchedIn(r) == ReadSet(r) \cup r.gone \cup r.failed

RowsStay ==
  \A u \in URL : Present(disk, u) /\ ~Present(disk', u) =>
    \E p \in Refresher : stage[p] = "crawled" /\ u \in result[p].gone

(* A page leaves the index only through a 404 of the run that saves: "Every *)
(* run merges into the previous index and never replaces it" (docs/icy-     *)
(* veins/README.md).                                                        *)
RowsKept == [][RowsStay]_indexing

Saves(p) ==
  stage[p] = "crawled" /\ stage'[p] = "idle" /\ (ReadAnything(result[p]) => disk' = Merge(previous[p], result[p]))

(* Across runs no page that was ever found is lost: no row goes but by a    *)
(* 404; what waited is fetched by the run that saves or waits on; and what  *)
(* a run leaves waiting is in the index afterwards even when the run writes *)
(* nothing.                                                                 *)
NoPageLost ==
  [][/\ RowsStay
     /\ \A p \in Refresher : Saves(p) =>
          /\ disk.frontier \subseteq disk'.frontier \cup FetchedIn(result[p])
          /\ result[p].waiting \subseteq disk'.frontier \cup {Menu}]_indexing

(* The dates a search reports stay honest: a row that stays keeps its       *)
(* first_seen and its last_seen never goes back; the age of the index moves *)
(* only with a run that was neither blocked nor found the site down, and    *)
(* never past a menu page it claims to have re-read; and after a complete   *)
(* run every ok page was read that day, is gone, or failed in that run.     *)
AgesHold ==
  [][/\ \A u \in URL : Present(disk, u) /\ Present(disk', u) =>
          disk'.rows[u].first = disk.rows[u].first /\ disk'.rows[u].last >= disk.rows[u].last
     /\ disk'.refreshed # disk.refreshed =>
          /\ disk'.refreshed = day
          /\ \E p \in Refresher : stage[p] = "crawled" /\ result[p].stop \in {"none", "max_requests"}
                                 /\ disk'.rows[Menu].last = day
     /\ \A p \in Refresher : disk' # disk /\ Saves(p) /\ result[p].stop = "none" =>
          \A u \in URL : disk'.rows[u].status = "ok" => disk'.rows[u].last = day \/ u \in result[p].failed]_indexing
=============================================================================
