---------------------------- MODULE KillSampling ----------------------------
(****************************************************************************)
(* warcraftlogs_cli/boss_kills.py: the sampled kill cohort that boss-kills, *)
(* top-kills, spec-kill-samples, boss-spec-usage, ability-usage-summary,    *)
(* comp-samples and kill-time-distribution start from.  It pages through a  *)
(* listing that puts the most recently updated report first and moves while *)
(* it is read, partly from cache; scans the reports for kills, folds logs   *)
(* of one pull (PullClusters), filters by spec and reads more per kill.     *)
(****************************************************************************)
EXTENDS PullClusters, SequencesExt

CONSTANTS
  Report, Listed,   \* the zone's reports, and the listing at first
  KillsOf,          \* the kills each report logs that match the filters
  PlaysSpec,        \* the rosters with a player of --spec-name
  PageSize, Pages,  \* --reports-per-page, --report-pages
  MaxChanges        \* bound: how often the listing changes

ASSUME SampleAssumption ==
  /\ Listed \in Seq(Report) /\ DOMAIN KillsOf = Report /\ PlaysSpec \subseteq Roster
  /\ {PageSize, Pages} \subseteq Nat \ {0} /\ MaxChanges \in Nat

VARIABLES
  listing,   \* the zone's reports, the latest update first
  changes,   \* how often it has changed
  touched,   \* when each report was last updated
  withdrawn, \* when a report was last made private
  kept,      \* the cached pages, each with when it was read
  sample     \* the command

folded == <<timed, pullOf, possible>>
world == <<listing, changes, touched, withdrawn>>

Kind == {"kills", "specs", "comps", "ability"}
Working == {"pages", "scan", "fold", "enrich"}

SampleInit ==
  /\ Init
  /\ listing = Listed /\ changes = 0 /\ touched = [r \in Report |-> 0] /\ withdrawn = 0
  /\ kept = {}
  /\ sample = [stage |-> "idle", kind |-> "kills", read |-> <<>>,
               more |-> TRUE, rows |-> <<>>, scanned |-> 0, left |-> <<>>, taken |-> <<>>,
               cohort |-> {}, enriched |-> {}, masters |-> {}]

-----------------------------------------------------------------------------
(* The listing and its cached pages.                                        *)

Changes ==
  /\ sample.stage \in {"idle", "pages"} /\ changes < MaxChanges
  /\ changes' = changes + 1
  /\ UNCHANGED <<folded, kept, sample>>

Without(r) == SelectSeq(listing, LAMBDA other : other # r)

(* A report is published or grows. *)
Update(r) ==
  /\ Changes
  /\ listing' = <<r>> \o Without(r) /\ touched' = [touched EXCEPT ![r] = changes']
  /\ UNCHANGED withdrawn

(* A report is deleted or made private. *)
Withdraw(r) ==
  /\ Changes /\ listing # Without(r)
  /\ listing' = Without(r) /\ withdrawn' = changes'
  /\ UNCHANGED touched

UpTo(p) == IF p * PageSize < Len(listing) THEN p * PageSize ELSE Len(listing)
Page(p) ==
  [page |-> p, at |-> changes, more |-> UpTo(p) < Len(listing),
   rows |-> SubSeq(listing, (p - 1) * PageSize + 1, UpTo(p))]

Kept(p) == {e \in kept : e.page = p}

(* An earlier command has read the page. *)
ReadElsewhere(p) ==
  /\ sample.stage = "idle" /\ Kept(p) = {} /\ kept' = kept \cup {Page(p)}
  /\ UNCHANGED <<folded, world, sample>>

(* All pages are kept equally long. *)
Expire(e) ==
  /\ sample.stage \in {"idle", "pages"} /\ \A f \in kept : e.at <= f.at
  /\ kept' = kept \ {e}
  /\ UNCHANGED <<folded, world, sample>>

-----------------------------------------------------------------------------
(* The cohort.                                                              *)

Begin ==
  /\ sample.stage = "idle"
  /\ sample' = [sample EXCEPT !.stage = "pages"]
  /\ UNCHANGED <<folded, world, kept>>

\* Mutant: a report that moved down between two pages is sampled again.
Gathered(rows, new) == rows \o new

(* report_rows.setdefault: the first occurrence of a report stays. *)
Merged(rows, new) == rows \o SelectSeq(new, LAMBDA r : ~Contains(rows, r))

(* _fetch_zone_report_rows, with WarcraftLogsClient.reports' cache. *)
FetchPage ==
  LET p == Len(sample.read) + 1
      got == IF Kept(p) # {} THEN Kept(p) ELSE {Page(p)}
  IN /\ sample.stage = "pages"
     /\ kept' = kept \cup got
     /\ \E e \in got :
          sample' = [sample EXCEPT !.read = Append(@, e.at), !.rows = Merged(@, e.rows),
                      !.more = e.more, !.stage = IF e.more /\ p < Pages THEN "pages" ELSE "scan"]
     /\ UNCHANGED <<folded, world>>

(* _matching_kill_fights, one report after the other. *)
ScanReport ==
  /\ sample.stage = "scan" /\ sample.scanned < Len(sample.rows)
  /\ LET r == sample.rows[sample.scanned + 1]
     IN sample' = [sample EXCEPT !.scanned = @ + 1,
                                 !.left = @ \o [i \in DOMAIN KillsOf[r] |-> <<r, i>>]]
  /\ UNCHANGED <<folded, world, kept>>

AllScanned ==
  /\ sample.stage = "scan" /\ sample.scanned = Len(sample.rows)
  /\ sample' = [sample EXCEPT !.stage = "fold"]
  /\ UNCHANGED <<folded, world, kept>>

KillOf(c) == KillsOf[c[1]][c[2]]

(* deduplicate_pulls, with the rosters it needs. *)
FoldKill(n) ==
  LET kill == KillOf(sample.left[n])
  IN /\ sample.stage = "fold"
     /\ \A m \in DOMAIN sample.left : InOrder(kill, KillOf(sample.left[m]))
     /\ FoldByGuild(kill) \/ FoldByRoster(kill) \/ KeepApart(kill)
     /\ sample' = [sample EXCEPT
          !.taken = Append(@, sample.left[n]),
          !.left = RemoveAt(@, n)]
     /\ UNCHANGED <<world, kept>>

(* matching_spec_players, in the log that represents the pull. *)
ShowsSpec(p) == timed[p].roster \in PlaysSpec

(* Up to here the commands, with --spec-name or not, are the same. *)
FilterKills(kind, bySpec) ==
  /\ sample.stage = "fold" /\ sample.left = <<>>
  /\ LET cohort == {p \in Pulls : bySpec => ShowsSpec(p)}
     IN sample' = [sample EXCEPT !.cohort = cohort, !.kind = kind,
                     !.stage = IF kind = "kills" \/ cohort = {} THEN "done" ELSE "enrich"]
  /\ UNCHANGED <<folded, world, kept>>

(* The player details, or the report's actors once and the kill's casts.    *)
EnrichKill(p) ==
  LET r == sample.taken[p][1]
  IN /\ sample.stage = "enrich" /\ p \in sample.cohort \ sample.enriched
     /\ sample' = [sample EXCEPT
          !.enriched = @ \cup {p},
          !.masters = IF sample.kind = "ability" THEN @ \cup {r} ELSE @,
          !.stage = IF sample.enriched \cup {p} = sample.cohort THEN "done" ELSE @]
     /\ UNCHANGED <<folded, world, kept>>

(* Any read that fails ends the command. *)
SampleFails ==
  /\ sample.stage \in Working
  /\ sample' = [sample EXCEPT !.stage = "failed"]
  /\ UNCHANGED <<folded, world, kept>>

SampleNext ==
  \/ \E r \in Report : Update(r) \/ Withdraw(r)
  \/ \E p \in 1..Pages : ReadElsewhere(p)
  \/ \E e \in kept : Expire(e)
  \/ \E kind \in Kind, bySpec \in BOOLEAN : FilterKills(kind, bySpec)
  \/ Begin \/ FetchPage \/ ScanReport \/ AllScanned \/ SampleFails
  \/ \E n \in DOMAIN sample.left : FoldKill(n)
  \/ \E p \in sample.cohort : EnrichKill(p)

-----------------------------------------------------------------------------
(* Properties.                                                              *)

Rows == ToSet(sample.rows)
Above(r, s) == \E i, j \in DOMAIN listing : i < j /\ listing[i] = r /\ listing[j] = s

(* "The listing shifts while live reports move up between page fetches":    *)
(* what is sampled has no holes.  While nothing is withdrawn, and no page   *)
(* is replayed that is older than the page before it, a report that has not *)
(* been updated is sampled before any that are listed below it.             *)
NoHoles ==
  LET read == sample.read
      steady == {r \in Report : touched[r] <= read[1]}
      rising == \A i, j \in DOMAIN read : i < j => read[i] <= read[j]
  IN sample.stage = "scan" /\ rising /\ withdrawn <= read[1] =>
       /\ \A r, s \in steady : Above(r, s) /\ s \in Rows => r \in Rows
       /\ ~sample.more => \A r \in steady : Contains(listing, r) => r \in Rows

(* Every kill of every sampled report is cited by one pull, once, and a     *)
(* kill is never "cited as its own duplicate"; with --spec-name a kill is   *)
(* left out only if no log of it names a player of the spec, or the one     *)
(* that represents it names nobody.                                         *)
WholeCohort ==
  sample.stage \in {"enrich", "done"} =>
    /\ \A r \in Rows : \A i \in DOMAIN KillsOf[r] :
         Contains(sample.taken, <<r, i>>)
    /\ \A m, n \in DOMAIN sample.taken : sample.taken[m] = sample.taken[n] => m = n
    /\ \A p \in Pulls \ sample.cohort :
         \/ timed[p].roster = Unknown
         \/ \A i \in Members(p) : timed[i].roster \notin PlaysSpec

(* What a sample counts: each pull once, without holes, and every kill.     *)
SamplesHold == CountedOnce /\ NoHoles /\ WholeCohort
=============================================================================
