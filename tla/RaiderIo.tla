----------------------------- MODULE RaiderIo -------------------------------
(****************************************************************************)
(* Samples of Raider.IO's leaderboards (raiderio_cli/analytics.py, raids.py *)
(* and client.py): the Mythic+ runs of a season and the guilds of a raid,   *)
(* read page by page, partly from cache, while runs enter the boards, a     *)
(* season ends and the service fails and recovers.                          *)
(****************************************************************************)
EXTENDS Integers, Sequences, FiniteSets, SequencesExt

CONSTANTS
  Season, Raid,   \* the boards there are: one for each season, and a raid's
  Entry, Start,   \* what is ranked: runs or guilds; the boards at first
  LevelOf,        \* the level of a run, or None
  PlayersOf,      \* the players of a run, None for one without a full name
  Asks,           \* what commands ask for
  RunsPerPage, MaxPages, \* _RAIDERIO_RUNS_PAGE_SIZE, _RAIDERIO_RUNS_MAX_PAGES
  RunsTTL,        \* how long a page is cached, in changes of the site
  PlayerLimit,    \* --player-limit
  LastMoment, MaxSamples, \* bounds
  None            \* no value, a season that is not named

ASSUME LeaderboardAssumption ==
  /\ Raid \notin Season /\ None \notin Season \cup {Raid} /\ DOMAIN Start = Season \cup {Raid}
  /\ \A b \in DOMAIN Start : Start[b] \in Seq(Entry) /\ IsInjective(Start[b])
  /\ \A q \in Asks : q.first \in Nat /\ (q.kind # "raid" => q.board # Raid)
  /\ {RunsPerPage, MaxPages} \subseteq Nat \ {0} /\ {RunsTTL, LastMoment, MaxSamples, PlayerLimit} \subseteq Nat

Board == Season \cup {Raid}

VARIABLES
  moment,   \* how often the site has changed
  current,  \* its season
  boards,   \* board -> what it ranks, the best first
  entered,  \* history: when each entry came to a board
  down,     \* whether it answers
  saved,    \* the cached pages
  sampling  \* the command

site == <<moment, current, boards, entered, down>>
sampled == <<moment, current, boards, entered, down, saved, sampling>>

NoSampling ==
  [at |-> "idle", ask |-> None, offset |-> 0, season |-> None, rows |-> <<>>, repeats |-> 0, read |-> <<>>,
   code |-> "-", refused |-> "-", count |-> 0]

BoardsInit ==
  /\ moment = 0 /\ current \in Season /\ boards = Start /\ down = FALSE
  /\ entered = [e \in Entry |-> 0]
  /\ saved = {} /\ sampling = NoSampling

-----------------------------------------------------------------------------
(* The site.                                                               *)

Changed == moment < LastMoment /\ moment' = moment + 1 /\ UNCHANGED <<saved, sampling>>

Ranked == UNION {ToSet(boards[b]) : b \in Board}

Enters(e, b) ==
  /\ Changed /\ e \notin Ranked /\ UNCHANGED <<current, down>>
  /\ \E i \in 1..(Len(boards[b]) + 1) : boards' = [boards EXCEPT ![b] = InsertAt(@, i, e)]
  /\ entered' = [entered EXCEPT ![e] = moment']

SeasonEnds == Changed /\ current' \in Season \ {current} /\ UNCHANGED <<boards, entered, down>>
Fails == Changed /\ down' = ~down /\ UNCHANGED <<current, boards, entered>>

(* A page of a board, and the season it says it is of, if it does. *)
Served(key) == IF key.board = None THEN current ELSE key.board
Answers(key) ==
  LET b == Served(key)
      rows == SubSeq(boards[b], key.page * RunsPerPage + 1, Min({(key.page + 1) * RunsPerPage, Len(boards[b])}))
  IN  {[key |-> key, board |-> b, says |-> says, rows |-> rows, at |-> moment] : says \in {b, None}}

-----------------------------------------------------------------------------
(* One sample at a time.                                                   *)

OfRaid(q) == q.kind = "raid"
PagesOf(q) ==
  LET needed == Max({1, (q.limit + RunsPerPage - 1) \div RunsPerPage})
  IN  IF OfRaid(q) THEN needed ELSE IF q.pages # None THEN q.pages ELSE Min({MaxPages, needed})

Ask ==
  /\ sampling.at \in {"idle", "told", "failed"} /\ sampling.count < MaxSamples
  /\ \E q \in Asks :
       sampling' = [NoSampling EXCEPT !.at = "reading", !.ask = q, !.season = q.board, !.count = sampling.count + 1]
  /\ UNCHANGED <<site, saved>>

\* Mutant: every page is asked for with the season of the command line.
NeverPinned(s) == s.ask.board

(* Once a response identifies the season, later pages ask for it. *)
Pinned(s) == s.season

Key(s) == [board |-> Pinned(s), page |-> s.ask.first + s.offset]
Live(key) == {p \in saved : p.key = key /\ moment - p.at < RunsTTL}
Save(p) == saved' = {o \in saved : o.key # p.key} \cup {p}

Ends(code) ==
  sampling' = [sampling EXCEPT !.at = "failed", !.code = code, !.refused = IF down THEN "down" ELSE @]

(* Of a page's rows the first that are new, up to --limit. *)
Taken(s, rows) ==
  LET New(i) == rows[i] \notin ToSet(s.rows)
      news == [n \in 0..Len(rows) |-> Cardinality({i \in 1..n : New(i)})]
      room == s.ask.limit - Len(s.rows)
      last == IF ~OfRaid(s.ask) /\ news[Len(rows)] >= room
              THEN CHOOSE n \in DOMAIN news : news[n] = room /\ (n = 0 \/ news[n - 1] < room) ELSE Len(rows)
  IN  SubSeq(rows, 1, last)

Reads(p, hit) ==
  LET s == sampling
      seen == Taken(s, p.rows)
      new == SelectSeq(seen, LAMBDA e : e \notin ToSet(s.rows))
      rows == s.rows \o new
      season == IF p.says # None /\ ~OfRaid(s.ask) THEN p.says ELSE s.season
      enough == \/ Len(rows) >= s.ask.limit \/ s.offset + 1 = PagesOf(s.ask)
                \/ p.rows = <<>> \/ (OfRaid(s.ask) /\ Len(p.rows) < RunsPerPage)
  IN  IF s.season # None /\ season # s.season THEN Ends("invalid_response")
      ELSE sampling' = [s EXCEPT !.at = IF enough THEN "told" ELSE "reading", !.offset = @ + 1, !.season = season,
                                 !.rows = IF enough THEN SubSeq(rows, 1, Min({s.ask.limit, Len(rows)})) ELSE rows,
                                 !.repeats = @ + Len(seen) - Len(new),
                                 !.read = Append(@, [at |-> p.at, board |-> p.board, hit |-> hit, rows |-> Len(p.rows)])]

(* _runs_page: a failure of the first page may be the season's fault. *)
Refused(key) ==
  \E error \in IF down THEN {"500", "other"} ELSE IF OfRaid(sampling.ask) THEN {"400"} ELSE {"500"} :
    IF OfRaid(sampling.ask) THEN Ends(IF error = "400" THEN "invalid_query" ELSE "upstream_error")
    ELSE IF error # "500" \/ key.board = None \/ key.page # sampling.ask.first THEN Ends("upstream_error")
    ELSE sampling' = [sampling EXCEPT !.at = "blaming", !.refused = IF down THEN "down" ELSE "up"]

ReadPage ==
  /\ sampling.at = "reading"
  /\ LET key == Key(sampling)
     IN  \/ /\ sampling.offset > 0 /\ sampling.season = None
            /\ Ends("invalid_response") /\ UNCHANGED saved
         \/ /\ sampling.offset > 0 => sampling.season # None
            /\ \/ \E p \in Live(key) : Reads(p, TRUE) /\ UNCHANGED saved
               \/ Live(key) = {} /\ (down \/ Served(key) \notin Board) /\ Refused(key) /\ UNCHANGED saved
               \/ Live(key) = {} /\ ~down /\ Served(key) \in Board /\ \E p \in Answers(key) : Reads(p, FALSE) /\ Save(p)
  /\ UNCHANGED site

(* "If the current season answers now (not from the cache), the season was the problem". *)
BlameTheSeason ==
  /\ sampling.at = "blaming" /\ UNCHANGED site
  /\ \/ down /\ Ends("upstream_error") /\ UNCHANGED saved
     \/ ~down /\ Ends("invalid_query") /\ \E p \in Answers([board |-> None, page |-> 0]) : Save(p)

BoardsNext ==
  \/ \E e \in Entry, b \in Board : Enters(e, b)
  \/ SeasonEnds \/ Fails \/ Ask \/ ReadPage \/ BlameTheSeason

BoardsSpec == BoardsInit /\ [][BoardsNext]_sampled

-----------------------------------------------------------------------------
(* What is made of a sample: filters and players.                          *)

(* _metric_meets_bounds: a run without a level meets no bound. *)
Fits(e, ask) ==
  /\ ask.above = None \/ (LevelOf[e] # None /\ LevelOf[e] >= ask.above)
  /\ ask.with = {} \/ \E i \in DOMAIN PlayersOf[e] : PlayersOf[e][i] \in ask.with

Filtered(s) == SelectSeq(s.rows, LAMBDA e : Fits(e, s.ask))

(* player_snapshots. *)
Appears(p, rows) ==
  LET In(i) == Cardinality({j \in DOMAIN PlayersOf[rows[i]] : PlayersOf[rows[i]][j] = p})
  IN  FoldSet(LAMBDA i, n : n + In(i), 0, DOMAIN rows)
TopLevel(p, rows) ==
  Max({-1} \cup {LevelOf[rows[i]] : i \in {i \in DOMAIN rows : LevelOf[rows[i]] # None /\ Contains(PlayersOf[rows[i]], p)}})
Snapshots(rows) == UNION {ToSet(PlayersOf[rows[i]]) : i \in DOMAIN rows} \ {None}
Better(p, q, rows) ==
  \/ Appears(p, rows) > Appears(q, rows)
  \/ Appears(p, rows) = Appears(q, rows) /\ TopLevel(p, rows) > TopLevel(q, rows)
Shown(rows) == {shown \in SUBSET Snapshots(rows) :
                  /\ Cardinality(shown) = Min({PlayerLimit, Cardinality(Snapshots(rows))})
                  /\ \A p \in shown, q \in Snapshots(rows) \ shown : ~Better(q, p, rows)}

-----------------------------------------------------------------------------
Told == sampling.at = "told"
Failed(code) == sampling.at = "failed" /\ sampling.code = code

(* All of a sample is of one season, the one it names, though pages may be *)
(* from a cache of before the season ended.                                *)
OneSeason ==
  Told /\ ~OfRaid(sampling.ask) =>
    \E s \in Season : sampling.season \in {s, None} /\ \A i \in DOMAIN sampling.read : sampling.read[i].board = s

(* Each entry is sampled once.  A sample from the first page on whose pages *)
(* were read in their order has no holes: what was ranked when it began is  *)
(* in it before anything that is ranked below.                              *)
NoneTwiceNoneMissed ==
  Told =>
    /\ IsInjective(sampling.rows)
    /\ LET read == sampling.read
           b == read[1].board
       IN  sampling.ask.first = 0 /\ (\A i, j \in DOMAIN read : i < j => read[i].at <= read[j].at) =>
             \A i, j \in DOMAIN boards[b] :
               i < j /\ entered[boards[b][i]] <= read[1].at /\ Contains(sampling.rows, boards[b][j])
                 => Contains(sampling.rows, boards[b][i])

(* "a short sample says why it is short" *)
ShortSaysWhy ==
  Told /\ ~OfRaid(sampling.ask) /\ Len(sampling.rows) < sampling.ask.limit =>
    \/ sampling.repeats > 0 \/ PagesOf(sampling.ask) * RunsPerPage < sampling.ask.limit
    \/ \E i \in DOMAIN sampling.read : sampling.read[i].rows < RunsPerPage

(* A season is called unknown only if it is, or if the service failed for  *)
(* it and answered a request later, and never once a page of it was read;  *)
(* a failure is called an outage only if there was one.                    *)
BlameHolds ==
  /\ Failed("invalid_query") => /\ sampling.read = <<>>
                                /\ sampling.ask.board \in Board => sampling.refused = "down"
  /\ Failed("upstream_error") => sampling.refused = "down"

(* A player's appearances are the runs he was in, and nobody who was in    *)
(* more of them is left out for one who was in fewer.                      *)
PlayersCountRuns ==
  Told /\ ~OfRaid(sampling.ask) =>
    LET rows == Filtered(sampling)
        RunsOf(p) == Cardinality({e \in ToSet(rows) : Contains(PlayersOf[e], p)})
    IN  \A shown \in Shown(rows) :
          /\ \A p \in shown : Appears(p, rows) = RunsOf(p) /\ RunsOf(p) > 0
          /\ \A p \in shown, q \in Snapshots(rows) \ shown : RunsOf(q) <= RunsOf(p)

(* What a sample of a leaderboard claims: one season, each run once, why  *)
(* it is short, whom a failure blames and how often a player runs         *)
(* (analytics.py: sample_leaderboard_runs, _runs_page).                   *)
BoardsHold == OneSeason /\ NoneTwiceNoneMissed /\ ShortSaysWhy /\ BlameHolds /\ PlayersCountRuns

-----------------------------------------------------------------------------
(****************************************************************************)
(* search and resolve of Raider.IO (raiderio_cli/candidates.py and          *)
(* provider.py): a query that begins with a region is looked up under every *)
(* split of its words into a realm and a name, and searched for only if     *)
(* none exists.  Characters and guilds come and go and the service fails    *)
(* between two of its requests.  A word is a model value.                   *)
(****************************************************************************)
CONSTANTS
  Regions,            \* STRUCTURED_REGIONS, by their own words
  RegionOf, HintOf,   \* what a word names: a region (an alias, too), a kind, or Unnamed
  Entity,             \* [kind, region, realm, name]; a search row may have no realm
  FirstThere,         \* those there are at first
  Lookups,            \* what is looked up: [query, kind, limit]
  MaxRealmTokens,     \* MAX_REALM_TOKENS
  LastEvent,          \* bound on what happens to the service
  Unnamed

ASSUME LookupAssumption ==
  /\ \A e \in Entity : e.kind \in {"character", "guild"} /\ {e.realm, e.name} \subseteq Seq(DOMAIN RegionOf)
  /\ \A l \in Lookups : l.query \in Seq(DOMAIN RegionOf) /\ l.kind \in {"all", "character", "guild"} /\ l.limit \in Nat
  /\ FirstThere \subseteq Entity /\ IsFiniteSet(Entity) /\ MaxRealmTokens \in Nat \ {0}
  /\ HintOf \in [DOMAIN RegionOf -> {"character", "guild", Unnamed}] /\ Unnamed \notin {"character", "guild"}

VARIABLES there, answering, events, lookup

service == <<there, answering, events>>
looked == <<there, answering, events, lookup>>

NoLookup ==
  [at |-> "idle", asked |-> Unnamed, words |-> <<>>, hint |-> Unnamed, splits |-> <<>>, kinds |-> <<>>,
   found |-> {}, there |-> {}, verdict |-> Unnamed, ranked |-> <<>>, shown |-> <<>>]

LookupInit == there = FirstThere /\ answering = TRUE /\ events = 0 /\ lookup = NoLookup

-----------------------------------------------------------------------------
(* Reading a query.                                                        *)

(* _normalize_search_query: only the first word can be a hint of a kind.   *)
Hint(q) == IF q = <<>> THEN Unnamed ELSE HintOf[q[1]]
Words(q) == IF Hint(q) # Unnamed /\ Len(q) > 1 THEN Tail(q) ELSE q

(* normalize_structured_query: the shortest realm first. *)
Splits(words) ==
  IF Len(words) < 3 \/ RegionOf[words[1]] \notin Regions THEN <<>>
  ELSE [n \in 1..Min({MaxRealmTokens, Len(words) - 2}) |->
          [region |-> RegionOf[words[1]], realm |-> SubSeq(words, 2, n + 1), name |-> SubSeq(words, n + 2, Len(words))]]

(* An explicit kind wins over the hint. *)
Kinds(l) ==
  IF l.asked.kind # "all" THEN <<l.asked.kind>> ELSE IF l.hint # Unnamed THEN <<l.hint>> ELSE <<"character", "guild">>

-----------------------------------------------------------------------------
(* _entity_match_score.                                                    *)

Holds(part, all) == \E i \in 1..(Len(all) - Len(part) + 1) : SubSeq(all, i, i + Len(part) - 1) = part
SearchWeights == [base |-> 0, exact |-> 50, contains |-> 25, all |-> 20, region |-> 8, realm |-> 10, hint |-> 15]
ProbeWeights == [base |-> 12, exact |-> 45, contains |-> 20, all |-> 25, region |-> 12, realm |-> 12, hint |-> 20]

Score(e, words, hint, w) ==
  LET If(test, points) == IF test THEN points ELSE 0
      regional == {i \in DOMAIN words : e.region # Unnamed /\ RegionOf[words[i]] = e.region}
      rest == {words[i] : i \in DOMAIN words \ regional}
  IN  w.base + If(words = e.name, w.exact) + If(words # e.name /\ Holds(words, e.name), w.contains)
      + If(rest # {} /\ rest \subseteq ToSet(e.name) \cup ToSet(e.realm), w.all) + If(regional # {}, w.region)
      + If(e.realm # <<>> /\ Holds(e.realm, words), w.realm) + If(hint = e.kind, w.hint)

Row(e, l, w) == [entity |-> e, score |-> Score(e, l.words, l.hint, w)]

(* dedupe_search_candidates: the best of several rows of one entity. *)
Deduped(rows) == {r \in rows : \A o \in rows : o.entity = r.entity => o.score <= r.score}

(* sorted_search_candidates; between rows alike in score and kind, either. *)
Before(a, b) == a.score > b.score \/ (a.score = b.score /\ a.entity.kind = "character" /\ b.entity.kind = "guild")
Rankings(rows) == {s \in SetToSeqs(rows) : \A i, j \in DOMAIN s : i < j => ~Before(s[j], s[i])}

Openable(row) == row.entity.region # Unnamed /\ row.entity.realm # <<>>

(* resolve_confidence. *)
Confidence(ranked) ==
  IF ranked = <<>> THEN "none"
  ELSE LET best == ranked[1].score
           second == IF Len(ranked) > 1 THEN ranked[2].score ELSE 0
       IN  IF Openable(ranked[1]) /\ best >= 45 /\ (Len(ranked) = 1 \/ best - second >= 15) THEN "high"
           ELSE IF best >= 30 THEN "medium" ELSE "low"

ShownRows(ranked, l) == SubSeq(ranked, 1, Min({l.asked.limit, Len(ranked)}))

\* Mutant: the confidence is judged on the rows that are shown.
JudgedOnShown(ranked, l) == Confidence(ShownRows(ranked, l))

(* "Confidence is judged on every ranked row: --limit 1 would otherwise   *)
(* hide the rivals." And a single plain word is answered only by what it  *)
(* names (resolve_data).                                                  *)
Judged(ranked, l) ==
  IF Confidence(ranked) = "high" /\ Len(l.words) = 1 /\ ranked[1].entity.name # l.words THEN "medium" ELSE Confidence(ranked)

-----------------------------------------------------------------------------
Happens == events < LastEvent /\ events' = events + 1

Comes(e) ==
  Happens /\ e \notin there /\ there' = there \cup {e} /\ UNCHANGED <<answering, lookup>>
Goes(e) ==
  Happens /\ e \in there /\ there' = there \ {e} /\ UNCHANGED answering
  /\ lookup' = [lookup EXCEPT !.there = @ \ {e}]
Falters == Happens /\ answering' = ~answering /\ UNCHANGED <<there, lookup>>

LookUp ==
  /\ lookup.at = "idle" /\ UNCHANGED service
  /\ \E a \in Lookups :
       LET l == [NoLookup EXCEPT !.asked = a, !.words = Words(a.query), !.hint = Hint(a.query), !.there = there]
           splits == Splits(l.words)
       IN  lookup' = [l EXCEPT !.at = IF l.words = <<>> THEN "failed" ELSE IF splits = <<>> THEN "searching" ELSE "probing",
                               !.splits = splits, !.kinds = Kinds(l)]

(* The answer of ranked_candidates, and what resolve makes of it. *)
Answer(l, rows) ==
  LET kept == IF l.asked.kind = "all" THEN rows ELSE {r \in rows : r.entity.kind = l.asked.kind}
  IN  \E ranked \in Rankings(Deduped(kept)) :
        lookup' = [l EXCEPT !.at = "told", !.found = kept, !.ranked = ranked, !.verdict = Judged(ranked, l),
                            !.shown = ShownRows(ranked, l)]

(* One request of _probe_one_split: "no such character/guild on that realm" is an answer, too. *)
Probe ==
  /\ lookup.at = "probing" /\ UNCHANGED service
  /\ IF ~answering THEN lookup' = [lookup EXCEPT !.at = "failed"]
     ELSE LET l == lookup
              split == l.splits[1]
              hits == {e \in there : /\ e.kind = l.kinds[1]
                                     /\ [region |-> e.region, realm |-> e.realm, name |-> e.name] = split}
              found == l.found \cup {Row(e, l, ProbeWeights) : e \in hits}
          IN  IF Len(l.kinds) > 1 THEN lookup' = [l EXCEPT !.kinds = Tail(@), !.found = found]
              ELSE IF found # {} THEN Answer(l, found)
              ELSE lookup' = [l EXCEPT !.at = IF Len(l.splits) = 1 THEN "searching" ELSE "probing",
                                       !.splits = Tail(@), !.kinds = Kinds(l)]

(* The site's search returns some of what shares a word with the query. *)
Search ==
  /\ lookup.at = "searching" /\ UNCHANGED service
  /\ IF ~answering THEN lookup' = [lookup EXCEPT !.at = "failed"]
     ELSE LET l == lookup
              Alike(e) == ToSet(e.name) \cap ToSet(l.words) # {} /\ Contains(Kinds(l), e.kind)
          IN  \E rows \in SUBSET {e \in there : Alike(e)} : Answer(l, {Row(e, l, SearchWeights) : e \in rows})

LookupNext == (\E e \in Entity : Comes(e) \/ Goes(e)) \/ Falters \/ LookUp \/ Probe \/ Search
LookupSpec == LookupInit /\ [][LookupNext]_looked

-----------------------------------------------------------------------------
Looked == lookup.at = "told"

(* resolve is sure only of a row that a command opens and that leads every  *)
(* other row found by 15 points, shown or not; a character and a guild of   *)
(* one name are never told apart by their order.                            *)
SureOfALead ==
  Looked /\ lookup.verdict = "high" =>
    LET top == lookup.ranked[1]
    IN  Openable(top) /\ \A r \in lookup.found : r.entity # top.entity => top.score - r.score >= 15

(* What was there all along under a split of the query is found, unless a   *)
(* shorter realm was: a longer realm is probed after every shorter one.     *)
FirstSplitFound ==
  Looked => LET splits == Splits(lookup.words)
                IsSplit(e, i) == /\ e.kind \in ToSet(Kinds(lookup))
                                 /\ [region |-> e.region, realm |-> e.realm, name |-> e.name] = splits[i]
            IN  \A i \in DOMAIN splits, e \in lookup.there :
                  IsSplit(e, i) => \E r \in lookup.found : \E j \in 1..i : IsSplit(r.entity, j)

(* "--kind guild never answers with a character, even when nothing of that *)
(* kind exists"; a word that only hints at a kind is kept to as well.      *)
KindIsKept ==
  Looked => \A i \in DOMAIN lookup.ranked : Contains(Kinds(lookup), lookup.ranked[i].entity.kind)

(* A lookup opens a row only when that row leads, finds what exists under *)
(* some split, and keeps to the kind asked for (candidates.py:            *)
(* resolve_confidence, probe_structured_candidates).                      *)
LookupHolds == SureOfALead /\ FirstSplitFound /\ KindIsKept
=============================================================================
