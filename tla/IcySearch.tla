------------------------------ MODULE IcySearch ------------------------------
(****************************************************************************)
(* search and resolve of Icy Veins (icy_veins_cli/search.py): the guides of *)
(* the sitemap are ranked, and, once the sitemap has stopped being updated, *)
(* the pages the site menu links and the site index lists beside them.  A   *)
(* slug, a title and a query are sequences of words, a word is a string, a  *)
(* date is a number and 0 is none.                                          *)
(****************************************************************************)
EXTENDS Integers, Sequences, FiniteSets

LOCAL INSTANCE FiniteSetsExt
LOCAL INSTANCE SequencesExt

CONSTANTS
  Sitemaps,      \* what the sitemap may list: sets of [slug, lastmod]
  Menus,         \* what the menu may link: sets of [slug, menu]
  SiteIndexes,   \* what the index may hold: sets of [slug, status, to, title, published, parent]
  FamilyOf,      \* classify_guide_slug, of every slug
  FamilyRules,   \* SPECIALIZED_FAMILY_RULES: [family, score, all, any, phrases]
  ScopeHints,    \* UNSUPPORTED_QUERY_HINTS: [all, any]
  Classes,       \* the classes, as words
  OneClassSpecs, \* the spec words only one class has
  SingularOf,    \* a word without its plural ending
  Begins,        \* the words a word begins with, itself one of them
  Alphabet,      \* of slugs
  IcyQueries,    \* sequences of spellings
  TodayIs, SitemapStaleAfter, PageStaleAfter

StripTerms == {"icy", "veins", "guide", "guides"}           \* QUERY_STRIP_TERMS
StopWords == {"a", "an", "and", "for", "how", "in", "of", "on", "the", "to"}
NeutralSlugTerms == {"guide", "guides", "pve", "pvp", "healing", "tank", "dps"}
Specialized ==                                            \* SPECIALIZED_QUERY_TERMS
  {"easy", "mode", "leveling", "pvp", "build", "builds", "talent", "talents", "rotation", "cooldown", "cooldowns", "abilities",
   "stats", "gems", "enchants", "consumables", "gear", "bis", "resources", "mythic", "plus", "macros", "addons", "ui",
   "simulation", "simulations", "sim", "raid", "remix", "torghast", "expansion", "midnight"}
IntroFamilies == {"spec_guide", "class_hub", "role_guide"}
EncounterFamilies == {"raid_encounter", "raid_guide", "dungeon_guide"}
EncounterNeutral ==
  {"lfr", "normal", "heroic", "mythic", "plus", "strategy", "strategies", "tips", "mechanics", "route", "routes"}
PlaceSuffixes == {<<"zone", "guide">>, <<"dungeon", "guide">>, <<"heroic", "dungeon", "guide">>, <<"delve", "guide">>}

ASSUME IcyAssumption ==
  /\ \A s \in Sitemaps : s # {} /\ \A r \in s : r.lastmod \in Nat
  /\ \A s \in Sitemaps \cup Menus : \A r \in s : FamilyOf[r.slug] # "none"
  /\ \A m \in Menus : m # {} /\ \A r, o \in m : r.slug = o.slug => r = o
  /\ \A x \in SiteIndexes : \A r, o \in x : r.slug = o.slug => r = o
  /\ \A q \in IcyQueries : Len(q) > 0 /\ q[1] # <<>>
  /\ TodayIs \in Nat /\ SitemapStaleAfter \in Nat /\ PageStaleAfter \in Nat

VARIABLE icy

NoSearch ==
  [at |-> "idle", for |-> <<>>, sitemap |-> {}, menu |-> {}, index |-> {}, rows |-> {}, ranked |-> <<>>, verdict |-> "none",
   told |-> {}, gap |-> {}]
IcyInit == icy = NoSearch

-----------------------------------------------------------------------------
(* Words. *)
InTitle(part, text) == \E i \in 1..(Len(text) - Len(part) + 1) :
  \A k \in DOMAIN part : IF k = Len(part) THEN part[k] \in Begins[text[i + k - 1]] ELSE part[k] = text[i + k - 1]
BeginsWith(part, text) == Len(part) <= Len(text) /\ SubSeq(text, 1, Len(part)) = part
EndsWith(part, text) == Len(part) < Len(text) /\ SubSeq(text, Len(text) - Len(part) + 1, Len(text)) = part
Singulars(words) == words \cup {SingularOf[w] : w \in words}

(* normalize_search_query: the raw query stays when nothing else would. *)
BareQuery(q) == LET kept == SelectSeq(q, LAMBDA w : w \notin StripTerms) IN IF kept = <<>> THEN q ELSE kept
TermsOf(q) == ToSet(q) \ StopWords

(* SPEC_GUIDE_SLUG_RE: the words before the class a slug names, none when it begins with one. *)
SpecOf(slug) ==
  LET at == {i \in 2..Len(slug) : \E c \in Classes : BeginsWith(c, SubSeq(slug, i, Len(slug))) /\ i + Len(c) <= Len(slug)}
  IN  IF at = {} \/ (\E c \in Classes : BeginsWith(c, slug) /\ Len(c) < Len(slug)) THEN <<>> ELSE SubSeq(slug, 1, Min(at) - 1)

-----------------------------------------------------------------------------
(* The rows. *)
Frozen(sitemap) == LET newest == Max({r.lastmod : r \in sitemap}) IN newest # 0 /\ TodayIs - newest > SitemapStaleAfter

RowOf(slug, source) ==
  [slug |-> slug, name |-> slug, menu |-> <<>>, title |-> <<>>, family |-> FamilyOf[slug], lastmod |-> 0, published |-> 0,
   parent |-> <<>>, source |-> source]
SitemapRows(sitemap) == {[RowOf(r.slug, "sitemap") EXCEPT !.lastmod = r.lastmod] : r \in sitemap}
MenuRows(menu, rows) ==
  {[RowOf(r.slug, "menu") EXCEPT !.menu = r.menu] : r \in {r \in menu : \A o \in rows : o.slug # r.slug}}

(* _indexed_family: the boss pages of a raid are titled like the raid. *)
IndexedFamily(entry) ==
  IF FamilyOf[entry.slug] = "raid_guide" /\ entry.parent # <<>> /\ FamilyOf[entry.parent] = "raid_guide"
  THEN "raid_encounter" ELSE FamilyOf[entry.slug]

(* A listed page learns its headline, a page nobody listed is added. *)
JoinedRows(rows, index) ==
  LET ok == {e \in index : e.status = "ok" /\ IndexedFamily(e) # "none"}
      From(e, r) == [r EXCEPT !.family = IndexedFamily(e), !.published = e.published, !.parent = e.parent]
  IN  {r \in rows : \A e \in ok : e.slug # r.slug}
      \cup {[From(e, r) EXCEPT !.title = e.title] : <<e, r>> \in {<<e, r>> \in ok \X rows : e.slug = r.slug}}
      \cup {[From(e, RowOf(e.slug, "index")) EXCEPT !.name = IF e.title = <<>> THEN e.slug ELSE e.title]
              : e \in {e \in ok : \A r \in rows : r.slug # e.slug}}

(* Mutant: a renamed page is looked for among the listed pages only. *)
RenamedOfListed(rows, index) ==
  {r \in JoinedRows(rows, index) : ~\E e \in index : e.slug = r.slug /\ e.status = "redirect" /\ \E o \in rows : o.slug = e.to}

(* _add_site_index_rows: the old slug of a page that is there under its new one is dropped. *)
WithIndex(rows, index) ==
  LET all == JoinedRows(rows, index)
  IN  {r \in all : ~\E e \in index : e.slug = r.slug /\ e.status = "redirect" /\ \E o \in all : o.slug = e.to}

-----------------------------------------------------------------------------
(* The points of a row. *)

(* The title as it is matched: a "mythic season" is also a "mythic plus season". *)
TextOf(row) ==
  LET text == row.name \o row.menu \o row.title \o row.slug
      plus == FlattenSeq([i \in DOMAIN text |-> IF text[i] = "season" /\ i > 1 /\ text[i - 1] = "mythic"
                                                THEN <<"plus", "season">> ELSE <<text[i]>>])
  IN  IF plus = text THEN text ELSE plus \o text

(* _encounter_name: what the query names without its difficulty and strategy, nothing unless the page begins so. *)
EncounterName(row, q) ==
  LET named == SelectSeq(q, LAMBDA w : w \notin EncounterNeutral)
      Bared(s) == IF s # <<>> /\ s[1] = "the" THEN Tail(s) ELSE s
  IN  IF /\ row.family \in EncounterFamilies /\ SpecOf(row.slug) = <<>>
         /\ EncounterNeutral \cap ToSet(row.slug) = {} /\ ("plus" \in ToSet(q) => row.family = "dungeon_guide")
         /\ Len(named) < Len(q) /\ ToSet(named) \ {"the", "raid", "dungeon"} # {}
         /\ BeginsWith(Bared(named), Bared(row.slug))
      THEN named ELSE <<>>

Signal(why, points, holds) == [why |-> why, points |-> points, holds |-> holds]
Holding(signals) == {s \in signals : s.holds}

(* score_slug_match, and the page a query is the title of. *)
SlugSignals(row, q, text) ==
  LET intro == row.family \in IntroFamilies
  IN  Holding(
        {Signal("exact_name", 40, text = q), Signal("name_prefix", 15, InTitle(q, SubSeq(text, 1, Min({Len(q), Len(text)})))),
         Signal("name_contains_query", 10, InTitle(q, text)), Signal("all_terms_match", 16, \A i \in DOMAIN q : InTitle(<<q[i]>>, text)),
         Signal("intro_guide", IF EndsWith(<<"pve", "dps", "guide">>, row.slug) THEN 10 ELSE 16, intro),
         Signal("specialized_guide", 2, ~intro /\ EndsWith(<<"guide">>, row.slug)),
         Signal("exact_title", 0, \/ q = BareQuery(row.slug)
                                  \/ EndsWith(<<"raid", "guide">>, row.slug) /\ q = BareQuery(SubSeq(row.slug, 1, Len(row.slug) - 2)))})
OffQuery(row, q) == Cardinality({i \in DOMAIN row.slug : row.slug[i] \notin ToSet(q) \cup NeutralSlugTerms})

(* score_family_match. *)
RuleFires(rule, row, q, text) ==
  LET terms == TermsOf(q)
      other == terms \ (rule.all \cup rule.any \cup UNION {ToSet(f) : f \in rule.phrases} \cup NeutralSlugTerms)
      Whole(f) == \E i \in 1..(Len(q) - Len(f) + 1) : SubSeq(q, i, i + Len(f) - 1) = f
  IN  /\ row.family = rule.family
      /\ other # {} => Singulars(other) \cap Singulars(ToSet(text)) # {}
      /\ rule.all \subseteq terms
      /\ rule.any # {} \/ rule.phrases # {} => rule.any \cap terms # {} \/ \E f \in rule.phrases : Whole(f)
FamilySignals(row, q, text) ==
  LET terms == TermsOf(q)
      one == Cardinality(terms) = 1
  IN  {Signal(rule.family, rule.score, TRUE) : rule \in {rule \in FamilyRules : RuleFires(rule, row, q, text)}}
      \cup Holding(
        {Signal("family_class_hub", 18, row.family = "class_hub" /\ one /\ terms \cap Specialized = {}),
         Signal("family_role_guide", 18, row.family = "role_guide" /\ one /\ terms \cap {"healing", "tank", "dps"} # {}),
         Signal("penalty_broad_hub", -14, row.family \in {"class_hub", "role_guide"} /\ terms \cap Specialized # {}),
         Signal("penalty_raid_variant", -12, row.family = "raid_guide" /\ "raid" \notin terms /\ SpecOf(row.slug) # <<>>),
         Signal("penalty_specialized_variant", -10,
                /\ row.family \in {"expansion_guide", "special_event_guide"}
                /\ terms \cap {"remix", "torghast", "midnight", "expansion"} = {}
                /\ ~\E i \in 1..(Len(q) - 1) : q[i] = "war" /\ q[i + 1] = "within"),
         Signal("penalty_transmog", -30, row.family = "transmog" /\ terms \cap {"transmog", "transmogrification"} = {})})

Nought == [row |-> <<>>, score |-> 0, why |-> {}]

(* The bonus of a spec reorders the rows and admits none. *)
ScoredRow(row, q, text, signals, stale) ==
  LET why == {s.why : s \in signals}
      score == MapThenSumSet(LAMBDA s : s.points, signals) - 3 * OffQuery(row, q) - (IF stale THEN 10 ELSE 0)
      spec == SpecOf(row.slug) # <<>> /\ ToSet(SpecOf(row.slug)) \subseteq ToSet(q)
  IN  IF \/ Singulars(TermsOf(q)) \cap Singulars(ToSet(text)) = {}
         \/ why # {} /\ why \subseteq {"intro_guide", "specialized_guide"}
         \/ score <= 0
      THEN Nought
      ELSE [row |-> row, score |-> score + (IF spec THEN 6 ELSE 0),
            why |-> why \cup (IF stale THEN {"stale"} ELSE {}) \cup (IF spec THEN {"spec_name"} ELSE {})]

SignalsOf(row, q, text) == SlugSignals(row, q, text) \cup FamilySignals(row, q, text)
ScoredAs(row, q, text, newest) ==
  ScoredRow(row, q, text, SignalsOf(row, q, text), row.lastmod # 0 /\ row.lastmod < newest - PageStaleAfter)

(* _scored_candidate: an encounter's name stands for the query that names it. *)
OrElse(preferred, none, other) == IF preferred # none THEN preferred ELSE other
ScoredCandidate(row, spelling, newest, encounters) ==
  ScoredAs(row, IF encounters THEN OrElse(EncounterName(row, spelling), <<>>, spelling) ELSE spelling, TextOf(row), newest)

(* best_scored, of the spellings of a query. *)
FirstBest(scored) ==
  LET best == Max({scored[i].score : i \in DOMAIN scored})
  IN  scored[Min({i \in DOMAIN scored : scored[i].score = best})]
BestScored(row, spellings, newest, encounters) ==
  FirstBest([i \in DOMAIN spellings |-> ScoredCandidate(row, spellings[i], newest, encounters)])

(* Best first; of equals the newer page, of which the menu has the newest. *)
Recency(row) ==
  IF row.source = "menu" THEN TodayIs + 1 ELSE IF row.lastmod # 0 THEN row.lastmod ELSE row.published
RanksBefore(a, b) ==
  \/ a.score > b.score
  \/ a.score = b.score /\ Recency(a.row) > Recency(b.row)
  \/ /\ a.score = b.score /\ Recency(a.row) = Recency(b.row)
     /\ \/ a.row.lastmod > b.row.lastmod
        \/ a.row.lastmod = b.row.lastmod /\ Alphabet[a.row.slug] < Alphabet[b.row.slug]
Sorted(found) == [i \in 1..Cardinality(found) |-> CHOOSE r \in found : Cardinality({o \in found : RanksBefore(o, r)}) = i - 1]
RankedGuides(rows, spellings, newest) ==
  LET Of(encounters) == {BestScored(r, spellings, newest, encounters) : r \in rows} \ {Nought}
  IN  Sorted(OrElse(Of(FALSE), {}, Of(TRUE)))

-----------------------------------------------------------------------------
(* resolve_is_confident: the rivals of a hub may be its own pages. *)
ResolveIsConfident(ranked) ==
  /\ ranked # <<>>
  /\ LET top == ranked[1]
         lead == top.score - (IF Len(ranked) > 1 THEN ranked[2].score ELSE 0)
         hub == IF top.row.slug[Len(top.row.slug)] = "guide" THEN SubSeq(top.row.slug, 1, Len(top.row.slug) - 1) ELSE top.row.slug
     IN  \/ lead >= 15
         \/ "easy_mode" \in top.why /\ lead >= 10 /\ top.score >= 35
         \/ "intro_guide" \in top.why /\ lead >= 6 /\ top.score >= 30
         \/ /\ "exact_title" \in top.why
            /\ \A i \in 2..Len(ranked) :
                 ranked[i].score > top.score - 15 => BeginsWith(hub, ranked[i].row.slug) \/ ranked[i].row.parent = top.row.slug

(* names_single_word, beside the title itself. *)
NamesSingleWord(word, best) ==
  \/ best.row.name = <<word>> \/ "exact_title" \in best.why
  \/ \E suffix \in PlaceSuffixes : best.row.slug = <<word>> \o suffix
  \/ best.row.family = "spec_guide" /\ "spec_name" \in best.why /\ word \in OneClassSpecs

(* article_resolve_payload. *)
IcyVerdict(ranked, q) ==
  IF ranked = <<>> THEN "none"
  ELSE IF ResolveIsConfident(ranked)
       THEN IF Len(q) = 1 /\ ~NamesSingleWord(q[1], ranked[1]) THEN "medium" ELSE "high"
       ELSE IF Len(ranked) > 1 /\ ranked[1].score = ranked[2].score THEN "low" ELSE "medium"

WithVerdict(s, ranked, q) == [s EXCEPT !.at = "told", !.ranked = ranked, !.verdict = IcyVerdict(ranked, q)]
Answered(s) ==
  LET spellings == [i \in DOMAIN s.for |-> BareQuery(s.for[i])]
  IN  WithVerdict(s, RankedGuides(s.rows, spellings, Max({r.lastmod : r \in s.sitemap})), spellings[1])

-----------------------------------------------------------------------------
(* A query of news is declined before any request. *)
AskIcy ==
  /\ icy.at = "idle"
  /\ \E q \in IcyQueries :
       LET declined == \E h \in ScopeHints : \/ h.all # {} /\ h.all \subseteq TermsOf(BareQuery(q[1]))
                                             \/ h.any \cap TermsOf(BareQuery(q[1])) # {}
       IN  icy' = [NoSearch EXCEPT !.for = q, !.at = IF declined THEN "told" ELSE "sitemap",
                                   !.told = IF declined THEN {"out of scope"} ELSE {}]

ReadSitemap ==
  /\ icy.at = "sitemap"
  /\ \/ icy' = [icy EXCEPT !.at = "failed"]
     \/ \E sitemap \in Sitemaps :
          LET read == [icy EXCEPT !.sitemap = sitemap, !.rows = SitemapRows(sitemap)]
          IN  icy' = IF Frozen(sitemap) THEN [read EXCEPT !.at = "menu", !.told = {"sitemap frozen"}] ELSE Answered(read)

(* A menu that cannot be read, or lists nothing, is told and fails no search. *)
ReadMenu ==
  /\ icy.at = "menu"
  /\ \/ icy' = [icy EXCEPT !.at = "index", !.told = @ \cup {"menu unread"}]
     \/ \E menu \in Menus :
          icy' = [icy EXCEPT !.at = "index", !.menu = menu, !.rows = @ \cup MenuRows(menu, @)]

(* What the provenance of a stale sitemap tells: the linked pages the index lacks. *)
IndexGap(menu, index) == {r.slug : r \in menu} \ {e.slug : e \in index}

(* Neither a local index nor the bundled one can be read, or one of them is joined. *)
ReadIndex ==
  /\ icy.at = "index"
  /\ \/ icy' = Answered([icy EXCEPT !.told = @ \cup {"no index"}])
     \/ \E index \in SiteIndexes :
          icy' = Answered([icy EXCEPT !.index = index, !.rows = WithIndex(@, index),
                                      !.gap = IndexGap(icy.menu, index)])

IcyNext == AskIcy \/ ReadSitemap \/ ReadMenu \/ ReadIndex
IcySpec == IcyInit /\ [][IcyNext]_icy

-----------------------------------------------------------------------------
IcyAnswers == icy.at = "told" /\ "out of scope" \notin icy.told
Offered == {r.slug : r \in icy.sitemap \cup icy.menu} \cup {e.slug : e \in {e \in icy.index : e.status = "ok" /\ FamilyOf[e.slug] # "none"}}
Moved == {<<e.slug, e.to>> : e \in {e \in icy.index : e.status = "redirect"}}
ShownSlugs == {icy.ranked[i].row.slug : i \in DOMAIN icy.ranked}

(* A page is ranked once: not for each of the sitemap, the menu and the     *)
(* index that has it, and not under its old slug beside its new one.        *)
EveryPageOnce ==
  IcyAnswers => /\ Cardinality(ShownSlugs) = Len(icy.ranked)
                /\ \A m \in Moved : ~(m[1] \in ShownSlugs /\ m[2] \in Offered)

(* What any of the three offers is found by its own name, or under the slug *)
(* it moved to, whichever of the others could not be read; and a page that  *)
(* only the menu knows is told when the index is read.                      *)
FoundByItsName ==
  IcyAnswers =>
    /\ \A slug \in Offered :
         (\E i \in DOMAIN icy.for : BareQuery(icy.for[i]) = BareQuery(slug)) =>
           slug \in ShownSlugs \/ \E m \in Moved : m[1] = slug /\ m[2] \in Offered
    /\ \A i \in DOMAIN icy.ranked :
         icy.ranked[i].row.source = "menu" =>
           icy.ranked[i].row.slug \in icy.gap \cup {e.slug : e \in icy.index} \/ "no index" \in icy.told

(* A spec of two classes is never guessed: while the guides of both are     *)
(* there and equally fresh, one opens only when the query names its class.  *)
SharedSpecUnresolved ==
  IcyAnswers /\ icy.verdict = "high" =>
    LET best == icy.ranked[1]
        ClassOf(slug) == {c \in Classes : BeginsWith(c, SubSeq(slug, Len(SpecOf(slug)) + 1, Len(slug)))}
    IN  \A i \in 2..Len(icy.ranked) :
          LET r == icy.ranked[i]
          IN  /\ SpecOf(best.row.slug) # <<>> /\ SpecOf(r.row.slug) = SpecOf(best.row.slug)
              /\ best.row.family = r.row.family /\ ("stale" \in best.why <=> "stale" \in r.why)
              /\ ClassOf(r.row.slug) # ClassOf(best.row.slug)
              => \E c \in ClassOf(best.row.slug), j \in DOMAIN icy.for : ToSet(c) \cap ToSet(icy.for[j]) # {}

(* Every page is ranked once, found by its name, and a spec that several  *)
(* classes share is not guessed (search.py: _add_site_index_rows,         *)
(* resolve_is_confident).                                                 *)
IcyHolds == EveryPageOnce /\ FoundByItsName /\ SharedSpecUnresolved
=============================================================================
