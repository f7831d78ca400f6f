----------------------------- MODULE MergedPage -----------------------------
(***************************************************************************)
(* warcraft_cli/provider_contract.py, merged_search_page: the rows of all  *)
(* providers become one page of at most limit rows.  The providers' lists  *)
(* are interleaved without reordering any of them, rows that fit the query *)
(* fill the page first, half of it at most for each provider, rows over    *)
(* that share fill what is left, and rows of a kind the query did not ask  *)
(* for (off-intent) come last.  A page is a set of positions of the        *)
(* interleaved list, because the code sorts the chosen rows by position.   *)
(***************************************************************************)
EXTENDS Integers, Sequences, FiniteSets

CONSTANTS
  Lister,    \* the providers that returned a list
  NameOrder,   \* their names' alphabetical order
  Entity,      \* those whose first row can anchor a page
  Profile,     \* those whose rows are off-intent unless the query asks for a profile
  Scores,      \* the wrapper scores a row can have
  MaxRows,     \* bound: rows of each provider
  Limits       \* the page sizes asked for

ASSUME MergedPageAssumption ==
  /\ IsFiniteSet(Lister)
  /\ NameOrder \in [Lister -> Nat]
  /\ \A p, q \in Lister : NameOrder[p] = NameOrder[q] => p = q
  /\ Entity \cap Profile = {} /\ Entity \cup Profile \subseteq Lister
  /\ \A p, q \in Entity : p = q  \* the policy names one provider of the entity family
  /\ Scores \subseteq Int
  /\ MaxRows \in Nat
  /\ Limits \subseteq Nat \ {0}

VARIABLES
  limit,       \* the size of the page
  lists,       \* the rows each provider returned, in its own order
  queue,       \* what is left of each list
  ordered,     \* the interleaved rows
  filled,      \* how many of them have been considered for the page
  capped,      \* positions taken within the providers' shares
  deferred,    \* positions of rows over their provider's share
  page,        \* the positions on the page
  turn

paging == <<limit, lists, queue, ordered, filled, capped, deferred, page, turn>>

(* The rows of every provider, from their scores: only the first row of an  *)
(* entity provider can be named by the query, and a profile provider's rows *)
(* are off-intent all or none.                                              *)
ListsOf(scores, named, exact, profileQuery) ==
  [p \in Lister |->
     [i \in DOMAIN scores[p] |->
        [by |-> p, score |-> scores[p][i],
         anchor |-> named /\ p \in Entity /\ i = 1,
         off |-> p \in Profile /\ ~profileQuery,
         exact |-> exact /\ p \in Profile /\ i = 1]]]

PageInit ==
  /\ limit \in Limits
  /\ \E scores \in [Lister -> UNION {[1..n -> Scores] : n \in 0..MaxRows}],
        named, exact, profileQuery \in BOOLEAN :
       lists = ListsOf(scores, named, exact, profileQuery)
  /\ queue = lists
  /\ ordered = <<>>
  /\ filled = 0
  /\ capped = {} /\ deferred = {} /\ page = {}
  /\ turn = "interleaving"

-----------------------------------------------------------------------------
(* interleave_provider_rows.                                                *)

Before(r, s) ==
  \/ r.anchor /\ ~s.anchor
  \/ r.anchor = s.anchor /\ ~r.off /\ s.off
  \/ r.anchor = s.anchor /\ r.off = s.off /\ r.score > s.score
  \/ /\ r.anchor = s.anchor /\ r.off = s.off /\ r.score = s.score
     /\ NameOrder[r.by] < NameOrder[s.by]

(* The best of the providers' next rows goes next. *)
Interleave(p) ==
  /\ turn = "interleaving"
  /\ queue[p] # <<>>
  /\ \A q \in Lister \ {p} : queue[q] # <<>> => Before(Head(queue[p]), Head(queue[q]))
  /\ ordered' = Append(ordered, Head(queue[p]))
  /\ queue' = [queue EXCEPT ![p] = Tail(@)]
  /\ UNCHANGED <<limit, lists, filled, capped, deferred, page, turn>>

Interleaved ==
  /\ turn = "interleaving"
  /\ \A p \in Lister : queue[p] = <<>>
  /\ turn' = "filling"
  /\ UNCHANGED <<limit, lists, queue, ordered, filled, capped, deferred, page>>

-----------------------------------------------------------------------------
(* The shares of the page.                                                  *)

Cap == (limit + 1) \div 2
OffCap == IF limit = 1 THEN 1 ELSE limit \div 2

OffIntent == {i \in DOMAIN ordered : ordered[i].off}
OnIntent == DOMAIN ordered \ OffIntent
Anchored == \E i \in DOMAIN ordered : ordered[i].anchor

(* _reserves_profile_slot: a bare name that is exactly a character's name   *)
(* keeps one slot for it, unless an entity answers to the name.             *)
Reserves ==
  /\ limit >= 3 /\ ~Anchored
  /\ \E i \in OffIntent : ordered[i].exact /\ \A j \in OffIntent : i <= j

Room == IF Reserves THEN limit - 1 ELSE limit

RowsOf(p, positions) == {i \in positions : ordered[i].by = p}

HasShare(i) ==
  /\ Cardinality(capped) < Room
  /\ Cardinality(RowsOf(ordered[i].by, capped)) < Cap

(* _capped_rows, one row at a time. *)
Consider(i) == turn = "filling" /\ i = filled + 1 /\ i \in DOMAIN ordered /\ filled' = i

PassOver(i) ==
  /\ Consider(i) /\ i \in OffIntent
  /\ UNCHANGED <<limit, lists, queue, ordered, capped, deferred, page, turn>>

TakeRow(i) ==
  /\ Consider(i) /\ i \in OnIntent /\ HasShare(i)
  /\ capped' = capped \cup {i}
  /\ UNCHANGED <<limit, lists, queue, ordered, deferred, page, turn>>

Defer(i) ==
  /\ Consider(i) /\ i \in OnIntent /\ ~HasShare(i)
  /\ deferred' = deferred \cup {i}
  /\ UNCHANGED <<limit, lists, queue, ordered, capped, page, turn>>

\* Mutant: the last n are taken.
LastOf(n, positions) ==
  {i \in positions : Cardinality({j \in positions : j > i}) < n}

(* The first n positions of a set. *)
FirstOf(n, positions) ==
  {i \in positions : Cardinality({j \in positions : j < i}) < n}

Promoted == FirstOf(Room - Cardinality(capped), deferred)

(* Off-intent rows take what is left, up to their own cap. *)
OffPage ==
  LET left == limit - Cardinality(capped \cup Promoted) IN
  FirstOf(IF OffCap < left THEN OffCap ELSE left, OffIntent)

Compose ==
  /\ turn = "filling" /\ filled = Len(ordered)
  /\ page' = capped \cup Promoted \cup OffPage
  /\ turn' = "done"
  /\ UNCHANGED <<limit, lists, queue, ordered, filled, capped, deferred>>

PageNext ==
  \/ \E p \in Lister : Interleave(p)
  \/ Interleaved
  \/ \E i \in DOMAIN ordered : PassOver(i) \/ TakeRow(i) \/ Defer(i)
  \/ Compose

PageSpec == PageInit /\ [][PageNext]_paging

-----------------------------------------------------------------------------
(* Properties.                                                              *)

Done == turn = "done"
LeftOff == OnIntent \ page
OffRows == page \cap OffIntent

(* Which row of its provider's the row at position i is.                    *)
Place(i) == Cardinality({j \in RowsOf(ordered[i].by, DOMAIN ordered) : j <= i})

(* A provider's own order is its ranking: whatever scores, shares and the   *)
(* reserved slot do, every row is merged at its place in its provider's     *)
(* list, and what the page shows of a provider is the beginning of it.      *)
BeginsEachList ==
  Done => \A p \in Lister :
    /\ Cardinality(RowsOf(p, DOMAIN ordered)) = Len(lists[p])
    /\ \A i \in RowsOf(p, DOMAIN ordered) : ordered[i] = lists[p][Place(i)]
    /\ \A i \in RowsOf(p, page), j \in RowsOf(p, DOMAIN ordered) : j < i => j \in page

(* No provider crowds another out: one that has more rows on the page than  *)
(* its share took only slots that every other provider had left.            *)
NoneCrowdsOut ==
  Done => \A p, q \in Lister :
    /\ Cardinality(page) <= limit
    /\ p # q /\ Cardinality(RowsOf(p, page)) > Cap =>
         RowsOf(q, OnIntent) \subseteq page \/ Cardinality(RowsOf(q, page)) >= Cap

(* A row that fits the query is only left off a full page, and only one row *)
(* that does not can take a place before it: a profile named exactly like   *)
(* the query, on a page that no entity anchors.                             *)
AskedForFirst ==
  Done /\ LeftOff # {} =>
    /\ Cardinality(page) = limit
    /\ Cardinality(OffRows) <= 1
    /\ \A i \in OffRows : ordered[i].exact /\ ~Anchored

(* The row that the query names leads the page, and rows that do not fit    *)
(* the query come after all that do.                                        *)
NamedFirst ==
  Done =>
    /\ \A i \in page : ordered[i].anchor => i = 1
    /\ Anchored => 1 \in page
    /\ \A i \in OffRows, j \in page \ OffRows : j < i

(* The page leads with what was asked for.                                  *)
BestFirst == AskedForFirst /\ NamedFirst

(* What a page owes its reader and the providers. *)
PageHolds == BeginsEachList /\ NoneCrowdsOut /\ BestFirst

(* merged_search_page's docstring: off-intent rows take "at most a strict   *)
(* minority of the page".  A page of one row is the exception the contract  *)
(* document makes ("at least one").                                         *)
OffIntentMinority == Done /\ limit > 1 => 2 * Cardinality(OffRows) < limit
=============================================================================
