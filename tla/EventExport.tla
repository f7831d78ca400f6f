---------------------------- MODULE EventExport ----------------------------
(***************************************************************************)
(* warcraftlogs_cli/event_export.py: collect_events follows the provider's *)
(* continuation timestamps page by page within bounds, and says whether    *)
(* what it holds is complete and where a later export continues.  The      *)
(* reader of the exports resumes as docs/warcraftlogs/SCOPING.md tells:    *)
(* start at continuation.start_time and skip skip_events rows, or restart. *)
(* Warcraft Logs is external: a page holds the events from its start up to *)
(* its next cursor, of whichever revision the page (perhaps a cached one)  *)
(* was taken from.                                                         *)
(***************************************************************************)
EXTENDS Integers, Sequences, FiniteSets

CONSTANTS
  Stream,         \* revision -> the times of its events, in order
  NoRevision,     \* the revision of a page that names none
  LastMoment,     \* no event is later
  MaxPages,       \* max_pages
  EventBounds,    \* the values of max_events an export is run with
  MaxExports      \* bound on the exports of one investigation

Revision == DOMAIN Stream

ASSUME ExportAssumption ==
  /\ NoRevision \notin Revision
  /\ \A v \in Revision :
       /\ Stream[v] \in Seq(0..LastMoment)
       /\ \A i, j \in DOMAIN Stream[v] : i < j => Stream[v][i] <= Stream[v][j]
  /\ LastMoment \in Nat
  /\ MaxPages \in Nat \ {0}
  /\ EventBounds \subseteq Nat \ {0}
  /\ MaxExports \in Nat \ {0}

VARIABLES
  phase,         \* "collecting", "ended", or "failed" (a ProviderError)
  maxEvents,     \* max_events of this export
  start,         \* page_options.start_time
  events,        \* state.events
  revisions,     \* state.revisions, as a set
  warned,        \* state.warnings is not empty
  pages,         \* state.pages
  nextTime,      \* state.next_time, or Nothing
  reason,        \* state.reason, "none" for a complete export
  continuation,  \* state.continuation
  skip,          \* the rows the reader drops from this export
  kept,          \* the rows the reader kept from the earlier exports
  exports,       \* exports run
  trail          \* history: the revisions and partial errors behind kept

exporting == <<phase, maxEvents, start, events, revisions, warned, pages, nextTime, reason,
               continuation, skip, kept, exports, trail>>

Nothing == -1
Moment == 0..LastMoment
Event == UNION {{v} \X DOMAIN Stream[v] : v \in Revision}
Reason == {"none", "max_pages", "revision_changed", "missing_event_data", "max_events",
           "partial_graphql_errors"}

Continue(from, rows) == [start |-> from, skip |-> rows, restart |-> FALSE]
Restart(from) == [start |-> from, skip |-> 0, restart |-> TRUE]
NoContinuation == [start |-> Nothing, skip |-> 0, restart |-> FALSE]

(* The events of revision v in [from, to), as <<revision, index>>.          *)
Slice(v, from, to) ==
  LET before == Cardinality({i \in DOMAIN Stream[v] : Stream[v][i] < from})
      upto == Cardinality({i \in DOMAIN Stream[v] : Stream[v][i] < to})
  IN [k \in 1..(upto - before) |-> <<v, before + k>>]

Whole(v) == Slice(v, 0, LastMoment + 1)

BeginExport(from, rows, bound) ==
  /\ phase' = "collecting" /\ start' = from /\ skip' = rows /\ maxEvents' = bound
  /\ events' = <<>> /\ revisions' = {} /\ warned' = FALSE /\ pages' = 0
  /\ nextTime' = Nothing /\ reason' = "max_pages" /\ continuation' = NoContinuation

ExportInit ==
  /\ phase = "collecting" /\ start = 0 /\ skip = 0 /\ maxEvents \in EventBounds
  /\ events = <<>> /\ revisions = {} /\ warned = FALSE /\ pages = 0
  /\ nextTime = Nothing /\ reason = "max_pages" /\ continuation = NoContinuation
  /\ kept = <<>> /\ exports = 1 /\ trail = [revisions |-> {}, warned |-> FALSE]

Remaining == maxEvents - Len(events)

Take(rows, n) == SubSeq(rows, 1, IF Len(rows) < n THEN Len(rows) ELSE n)

(* for _ in range(max_pages): request one page; accept() stops the loop or *)
(* the next page starts at the cursor.  The loop also ends when its pages  *)
(* are used up, with the default reason.                                   *)
Requested(revision, warns) ==
  /\ phase = "collecting"
  /\ pages' = pages + 1
  /\ revisions' = revisions \cup {revision}
  /\ warned' = (warned \/ warns)
  /\ UNCHANGED <<maxEvents, skip, kept, exports, trail>>

(* A page of another revision than the first: nothing of it is merged.  Its *)
(* own warnings are not read, those of the client are.                      *)
RevisionChanged(revision, warns) ==
  /\ Requested(revision, warns)
  /\ Cardinality(revisions') > 1
  /\ reason' = "revision_changed"
  /\ continuation' = Restart(start)
  /\ phase' = "ended"
  /\ UNCHANGED <<start, events, nextTime>>

MissingData(revision, warns) ==
  /\ Requested(revision, warns)
  /\ Cardinality(revisions') = 1
  /\ reason' = "missing_event_data"
  /\ continuation' = Continue(start, 0)
  /\ phase' = "ended"
  /\ UNCHANGED <<start, events, nextTime>>

(* _validate_cursor: no cursor, or one that does not advance, raises.       *)
BadCursor(revision, warns) ==
  /\ Requested(revision, warns)
  /\ Cardinality(revisions') = 1
  /\ phase' = "failed"
  /\ UNCHANGED <<start, events, nextTime, reason, continuation>>

\* Mutant: the page stopped by the bound is taken as done.
OversizedSkipless(rows, revision, warns) ==
  /\ Requested(revision, warns)
  /\ Cardinality(revisions') = 1
  /\ Len(rows) > Remaining
  /\ events' = events \o Take(rows, Remaining)
  /\ reason' = "max_events"
  /\ continuation' = Continue(start, 0)
  /\ phase' = "ended"
  /\ UNCHANGED start

Oversized(rows, revision, warns) ==
  /\ Requested(revision, warns)
  /\ Cardinality(revisions') = 1
  /\ Len(rows) > Remaining
  /\ events' = events \o Take(rows, Remaining)
  /\ reason' = "max_events"
  /\ continuation' = Continue(start, Remaining)
  /\ phase' = "ended"
  /\ UNCHANGED start

LastPage(rows, revision, warns) ==
  /\ Requested(revision, warns)
  /\ Cardinality(revisions') = 1
  /\ Len(rows) <= Remaining
  /\ events' = events \o rows
  /\ nextTime' = Nothing
  /\ reason' = IF warned' THEN "partial_graphql_errors" ELSE "none"
  /\ continuation' = NoContinuation
  /\ phase' = "ended"
  /\ UNCHANGED start

MorePages(rows, cursor, revision, warns) ==
  /\ Requested(revision, warns)
  /\ Cardinality(revisions') = 1
  /\ Len(rows) <= Remaining
  /\ events' = events \o rows
  /\ nextTime' = cursor
  /\ start' = cursor
  /\ continuation' = Continue(cursor, 0)
  /\ IF Len(events') >= maxEvents THEN reason' = "max_events" /\ phase' = "ended"
     ELSE /\ UNCHANGED reason
          /\ phase' = IF pages' = MaxPages THEN "ended" ELSE "collecting"

(* One page: its revision, whether it carries partial errors (then rows may *)
(* be missing from it), and its cursor.                                     *)
Page ==
  \E v \in Revision, named \in BOOLEAN, warns \in BOOLEAN :
    LET revision == IF named THEN v ELSE NoRevision
        Answer(from, to) == {Slice(v, from, to)} \cup IF warns THEN {<<>>} ELSE {}
    IN
    \/ RevisionChanged(revision, warns)
    \/ MissingData(revision, warns)
    \/ BadCursor(revision, warns)
    \/ \E rows \in Answer(start, LastMoment + 1) :
         \/ Oversized(rows, revision, warns) /\ nextTime' = Nothing
         \/ LastPage(rows, revision, warns)
    \/ \E cursor \in {t \in Moment : t > start} : \E rows \in Answer(start, cursor) :
         \/ Oversized(rows, revision, warns) /\ nextTime' = cursor
         \/ MorePages(rows, cursor, revision, warns)

(* The reader of an incomplete export runs the next one: from the           *)
(* continuation, keeping its rows, with a bound that covers the rows to     *)
(* skip; or from the beginning.                                             *)
Useful == SubSeq(events, skip + 1, Len(events))

(* Rows to skip that this export did not reach are skipped by the next.     *)
SkipNext ==
  continuation.skip + IF Len(events) < skip THEN skip - Len(events) ELSE 0

Resume(bound) ==
  /\ phase = "ended" /\ exports < MaxExports
  /\ continuation # NoContinuation /\ ~continuation.restart
  /\ bound >= SkipNext
  /\ exports' = exports + 1
  /\ kept' = kept \o Useful
  /\ trail' = [revisions |-> trail.revisions \cup revisions, warned |-> trail.warned \/ warned]
  /\ BeginExport(continuation.start, SkipNext, bound)

StartOver(bound) ==
  /\ phase \in {"ended", "failed"} /\ exports < MaxExports
  /\ reason # "none"
  /\ exports' = exports + 1
  /\ kept' = <<>>
  /\ trail' = [revisions |-> {}, warned |-> FALSE]
  /\ BeginExport(0, 0, bound)

ExportNext == Page \/ \E bound \in EventBounds : Resume(bound) \/ StartOver(bound)

ExportSpec == ExportInit /\ [][ExportNext]_exporting

-----------------------------------------------------------------------------
(* Properties.                                                              *)

(* The one revision every page of the investigation named, if that is so,   *)
(* and no page came with partial errors.                                    *)
CleanRevision(v) == revisions \cup trail.revisions = {v} /\ ~warned /\ ~trail.warned

Rest(v) ==
  IF continuation = NoContinuation THEN <<>>
  ELSE LET slice == Slice(v, continuation.start, LastMoment + 1)
       IN SubSeq(slice, SkipNext + 1, Len(slice))

(* "A shortened upstream page exposes its original start and a skip count   *)
(* for lossless replay" (collect_events): however the exports were cut by   *)
(* page and event bounds, the rows the reader kept, the useful rows of this *)
(* export and the rows from its continuation on are the whole slice, each   *)
(* row once.                                                                *)
LosslessReplay ==
  \A v \in Revision :
    phase = "ended" /\ CleanRevision(v) /\ ~continuation.restart =>
      kept \o Useful \o Rest(v) = Whole(v)

(* A complete export resumed or run from the start has the whole slice when *)
(* one revision was seen, and is never claimed after partial errors or two  *)
(* revisions.                                                               *)
CompleteIsWhole ==
  phase = "ended" /\ reason = "none" =>
    /\ ~warned /\ Cardinality(revisions) = 1
    /\ \A v \in Revision : CleanRevision(v) => kept \o Useful = Whole(v)

(* "Revision changes stop collection before merging the new revision": the  *)
(* rows of an export whose pages all name their revision are of one.        *)
OneRevision ==
  NoRevision \notin revisions =>
    \A i, j \in DOMAIN events : events[i][1] = events[j][1]

(* What is put together is one revision's, and whole when it says so.       *)
WholeEvidence == CompleteIsWhole /\ OneRevision

(* The bounds hold, and an export that is incomplete for another reason     *)
(* than partial errors always says where to go on.                          *)
BoundedAndExplained ==
  /\ pages <= MaxPages /\ Len(events) <= maxEvents
  /\ phase = "ended" /\ reason \notin {"none", "partial_graphql_errors"} =>
       continuation.start \in Moment /\ continuation.skip <= maxEvents
  /\ phase = "ended" /\ pages < MaxPages => reason # "max_pages"

(* All three: an investigation that is cut into exports loses no row, keeps *)
(* to its bounds and calls whole only what is.                              *)
ExportsHold == LosslessReplay /\ WholeEvidence /\ BoundedAndExplained
=============================================================================
