---------------------------- MODULE WowheadSearch ----------------------------
(****************************************************************************)
(* search and resolve of Wowhead (wowhead_cli/provider.py and ranking.py):  *)
(* the suggestions of the site, which come as several overlapping lists and *)
(* mix things of the game with guides and news, are merged, scored against  *)
(* the query, ordered, and the first of them opened only when it is clearly *)
(* the one that was meant.  Up to three texts are sent for one query.  A    *)
(* word is a model value; words too common to match are left out.           *)
(****************************************************************************)
EXTENDS Integers, Sequences, FiniteSets

LOCAL INSTANCE FiniteSetsExt
LOCAL INSTANCE SequencesExt

CONSTANTS
  TypesOf,       \* SEARCH_TYPE_HINTS: the types a word names, their stand-ins included
  IntentOf,      \* what a follow-up word asks for: "comments", "relations" or Nothing
  PluralOf,      \* the plural of a word, or Nothing
  Numbers,       \* the words that are numbers
  Dnt,           \* the word that marks an entry as internal
  TypeWord,      \* the word the site names a type with
  Parsed, Opened,\* PARSER_ENTITY_TYPES and RESOLVE_ENTITY_TYPES
  StaleAfter,    \* STALE_GUIDE_DAYS
  Replies,       \* what the site may suggest: lists of [type, name, display, updated]
  Searches,      \* what is looked for: [kind, query, url, types]
  Nothing

ASSUME SuggestionAssumption ==
  /\ DOMAIN IntentOf = DOMAIN TypesOf /\ DOMAIN PluralOf = DOMAIN TypesOf /\ Dnt \in DOMAIN TypesOf
  /\ \A s \in Searches : s.kind \in {"text", "url"} /\ s.query \in Seq(DOMAIN TypesOf) /\ s.types \subseteq Opened
  /\ \A a \in Replies : \A i \in DOMAIN a.results : a.results[i].name \in Seq(DOMAIN TypesOf)
  /\ Opened \subseteq Parsed /\ StaleAfter \in Nat

VARIABLE suggested

NoSuggestion ==
  [at |-> "idle", for |-> Nothing, text |-> "literal", reply |-> Nothing,
   ranked |-> <<>>, answer |-> <<>>, verdict |-> Nothing]
SuggestInit == suggested = NoSuggestion

-----------------------------------------------------------------------------
(* Reading a query.                                                        *)

(* search_ranking_query, untyped_search_query, search_type_hints, search_follow_up_kind. *)
Stripped(q) ==
  LET kept == SelectSeq(q, LAMBDA t : IntentOf[t] = Nothing) IN IF kept = <<>> THEN q ELSE kept
Untyped(q) == SelectSeq(q, LAMBDA t : TypesOf[t] = {})
TypesAsked(q) == UNION {TypesOf[q[i]] : i \in DOMAIN q}
Intent(q) ==
  LET asked == {IntentOf[q[i]] : i \in DOMAIN q}
  IN  IF "comments" \in asked THEN "comments" ELSE IF "relations" \in asked THEN "relations" ELSE "summary"

(* The text that is sent, and matched against the rows. *)
Text(q, text) ==
  CASE text = "literal" -> q [] text = "stripped" -> Stripped(q) [] text = "untyped" -> Untyped(Stripped(q))
RankedBy(q, text) == IF text = "literal" THEN q ELSE Stripped(q)

(* search_follow_up: the command that opens a row. *)
Opens(type, intent) ==
  CASE type = "guide" -> IF intent = "relations" THEN "guide-full" ELSE "guide"
    [] type = "news" -> "news-post"
    [] type \in Opened \ {"guide"} ->
         IF intent = "comments" THEN "comments" ELSE IF intent = "relations" THEN "entity-page" ELSE "entity"
    [] type \notin Opened \cup {"guide", "news"} -> Nothing

-----------------------------------------------------------------------------
(* The match of one row.                                                   *)

SameWord(a, b) == a = b \/ PluralOf[a] = b \/ PluralOf[b] = a

(* _holds_words: as whole words, the last of them perhaps in the plural. *)
HoldsAt(text, q, i) ==
  /\ q # <<>> /\ i + Len(q) - 1 <= Len(text)
  /\ \A j \in DOMAIN q : text[i + j - 1] = q[j] \/ (j = Len(q) /\ text[i + j - 1] = PluralOf[q[j]])
HoldsWords(text, q) == \E i \in DOMAIN text : HoldsAt(text, q, i)

Exact(r, q) == IF r.name = q THEN 30 ELSE IF r.display = q THEN 26 ELSE 0
Leading(r, q) ==
  IF HoldsAt(r.name, q, 1) THEN 10 ELSE IF HoldsAt(r.display, q, 1) THEN 8
  ELSE IF HoldsWords(r.name, q) THEN 6 ELSE IF HoldsWords(r.display, q) THEN 4 ELSE 0

NameWords(r) == ToSet(r.name) \cup ToSet(r.display)
TermsHeld(r, q) ==
  LET held == {t \in ToSet(q) : \E w \in (NameWords(r) \cup {TypeWord[r.type]}) \ {Nothing} : SameWord(t, w)}
  IN  [all |-> held # {} /\ held = ToSet(q), score |-> IF held = ToSet(q) THEN 3 * Cardinality(held) ELSE Cardinality(held)]

(* search_result_score_and_reasons: a row of a type the query names is matched without the type word, too. *)
Match(r, s, q, bonus, intent) ==
  LET bare == Untyped(q)
      both == r.type # "guide" /\ r.type \in TypesAsked(s.query) /\ bare \notin {<<>>, q}
      texts == {q} \cup IF both THEN {bare} ELSE {}
      exact == Max({Exact(r, t) : t \in texts})
      leading == Max({Leading(r, t) : t \in texts})
      terms == IF both /\ TermsHeld(r, bare).score > TermsHeld(r, q).score THEN TermsHeld(r, bare) ELSE TermsHeld(r, q)
      hinted == r.type \in TypesAsked(s.query)
      earned == IF exact > 0 \/ leading > 0 \/ NameWords(r) \cap ToSet(q) # {} THEN bonus ELSE 0
  IN  [row |-> r, exact |-> exact > 0, some |-> terms.score > 0 /\ ~terms.all, hinted |-> hinted,
       score |-> exact + leading + terms.score + (IF hinted THEN 9 ELSE 0) + (IF r.type # Nothing THEN 1 ELSE 0) + earned,
       strength |-> IF exact > 0 THEN 4 ELSE IF leading >= 8 THEN 3
                    ELSE IF leading > 0 \/ terms.all \/ earned > 0 THEN 2 ELSE IF terms.score > 0 THEN 1 ELSE 0,
       opens |-> Opens(r.type, intent)]

-----------------------------------------------------------------------------
(* The rows of one reply.                                                  *)

(* merge_suggestion_lists: one row of each thing, where it comes first. *)
Received(a) == a.results \o a.database \o a.guides
Place(a, r) == Min({i \in DOMAIN Received(a) : Received(a)[i] = r})

(* UPSTREAM_RANK_BONUS: the order of the site's guides counts only for who asks for a guide. *)
RankBonus(a, r, s) ==
  LET In(list, steps) == {steps[i] : i \in {i \in DOMAIN list : i <= 3 /\ list[i] = r}}
      database == In(a.database, <<42, 28, 14>>)
      guides == IF "guide" \in TypesAsked(s.query) \cup s.types THEN In(a.guides, <<21, 14, 7>>) ELSE {}
  IN  IF database # {} THEN Max(database) ELSE IF guides # {} THEN Max(guides) ELSE 0

(* normalize_search_results before the rows that match nothing are dropped. *)
Scored(a, s, text) ==
  LET fits == {r \in ToSet(Received(a)) :
                 /\ s.types = {} \/ r.type \in s.types
                 /\ Dnt \notin ToSet(r.name) \/ Dnt \in ToSet(s.query)}
      intent == IF text = "literal" THEN "summary" ELSE Intent(s.query)
      dates == {r.updated : r \in {r \in fits : r.type = "guide"}} \ {Nothing}
      Stale(r) == r.type = "guide" /\ r.updated # Nothing /\ Max(dates) - r.updated > StaleAfter
  IN  {[m |-> Match(r, s, RankedBy(s.query, text), RankBonus(a, r, s), intent), stale |-> Stale(r), place |-> Place(a, r)]
         : r \in fits}

(* order_search_rows: by score, each stale guide below every current row that matches as strongly. *)
Ahead(a, b) == a.m.score > b.m.score \/ (a.m.score = b.m.score /\ a.place < b.place)
ByRank(rows, Before(_, _)) ==
  [i \in 1..Cardinality(rows) |-> CHOOSE r \in rows : Cardinality({o \in rows : Before(o, r)}) = i - 1]

\* Mutant: stale guides are ordered by their score.
OrderedByScore(rows) == ByRank(rows, Ahead)

Ordered(rows) ==
  LET current == ByRank({r \in rows : ~r.stale}, Ahead)
      Slot(r) == Max({0} \cup {i \in DOMAIN current :
                                IF r.stale THEN current[i].m.strength >= r.m.strength ELSE current[i] = r})
      Before(a, b) == \/ Slot(a) < Slot(b)
                      \/ Slot(a) = Slot(b) /\ ((~a.stale /\ b.stale) \/ (a.stale = b.stale /\ Ahead(a, b)))
  IN  ByRank(rows, Before)

RankedRows(a, s, text) == Ordered({r \in Scored(a, s, text) : r.m.strength > 0})
HasExact(ranked) == \E i \in DOMAIN ranked : ranked[i].m.exact
HasAsked(ranked, q) == \E i \in DOMAIN ranked : ranked[i].m.row.type \in TypesAsked(q)

-----------------------------------------------------------------------------
(* What resolve makes of them.                                             *)

(* preferred_resolve_candidates: an article answers only far ahead of every entity. *)
Entities(ranked) == SelectSeq(ranked, LAMBDA r : r.m.row.type \in Parsed)
Articles(ranked) == SelectSeq(ranked, LAMBDA r : r.m.row.type \notin Parsed)
TopScore(rows) == IF rows = <<>> THEN 0 ELSE rows[1].m.score
EntityAnswers(ranked) ==
  Entities(ranked) # <<>> /\ TopScore(Articles(ranked)) - TopScore(Entities(ranked)) < 30
Answering(ranked) == IF EntityAnswers(ranked) THEN Entities(ranked) ELSE Articles(ranked)
Trailing(ranked) == IF EntityAnswers(ranked) THEN Articles(ranked) ELSE Entities(ranked)

LacksNumber(q, r) == \E t \in ToSet(q) \cap Numbers : t \notin NameWords(r)

(* resolve_confidence. *)
Sure(rows, s) ==
  IF rows = <<>> THEN "none"
  ELSE LET top == rows[1]
           second == IF Len(rows) > 1 THEN rows[2].m.score ELSE 0
           margin == top.m.score - second
           high == \/ top.m.exact /\ (margin >= 4 \/ second = 0)
                   \/ top.m.score >= 24 /\ margin >= 6
                   \/ s.types # {} /\ top.m.score >= 18 /\ margin >= 4
           doubtful == \/ top.m.some /\ (~top.m.hinted \/ LacksNumber(s.query, top.m.row))
                       \/ top.m.opens = Nothing \/ top.stale
       IN  IF high THEN IF doubtful THEN "medium" ELSE "high"
           ELSE IF top.m.score >= 18 /\ margin >= 4 THEN "medium" ELSE "low"

(* A single word is answered only by what it names, up to a plural. *)
NamedBy(w, r) == \E n \in {r.name, r.display} : Len(n) = 1 /\ SameWord(w, n[1])
SureOfWord(sent, verdict, rows) ==
  IF verdict = "high" /\ Len(sent) = 1 /\ ~NamedBy(sent[1], rows[1].m.row) THEN "medium" ELSE verdict

-----------------------------------------------------------------------------
Suggest ==
  /\ suggested.at = "idle"
  /\ \E s \in Searches :
       LET u == [NoSuggestion EXCEPT !.for = s]
           \* A URL names one thing, if any; outside the filter it is no answer.
           page == [m |-> [row |-> [type |-> s.url, name |-> s.query, display |-> <<>>, updated |-> Nothing],
                           exact |-> FALSE, some |-> FALSE, hinted |-> FALSE, score |-> 30, strength |-> 4,
                           opens |-> Opens(s.url, "summary")],
                    stale |-> FALSE, place |-> 1]
           rows == IF s.types = {} \/ s.url \in s.types THEN <<page>> ELSE <<>>
       IN  suggested' =
             IF s.query = <<>> \/ (s.kind = "url" /\ s.url = Nothing) THEN [u EXCEPT !.at = "failed"]
             ELSE IF s.kind = "url"
                  THEN [u EXCEPT !.at = "told", !.ranked = rows, !.answer = rows, !.verdict = Sure(rows, s)]
                  ELSE [u EXCEPT !.at = "asking", !.text = IF Stripped(s.query) = s.query THEN "stripped" ELSE "literal"]

Tell(u, text, a, ranked) ==
  LET rows == Answering(ranked) \o Trailing(ranked)
      s == u.for
  IN  suggested' = [u EXCEPT !.at = "told", !.text = text, !.reply = a, !.ranked = ranked, !.answer = rows,
                             !.verdict = SureOfWord(Text(s.query, text), Sure(Answering(ranked), s), rows)]

(* One request of _ranked_suggestions: the whole text is tried first, and the text without its type words last. *)
Fetch ==
  /\ suggested.at = "asking"
  /\ \/ suggested' = [suggested EXCEPT !.at = "failed"]
     \/ \E a \in Replies :
          LET u == suggested
              q == u.for.query
              ranked == RankedRows(a, u.for, u.text)
              kept == [u EXCEPT !.reply = a, !.ranked = ranked]
              unnamed == /\ TypesAsked(q) # {} /\ Untyped(Stripped(q)) \notin {<<>>, Stripped(q)}
                         /\ ~HasExact(ranked) /\ ~HasAsked(ranked, q)
          IN  CASE u.text = "literal" ->
                     IF HasExact(ranked) THEN Tell(u, "literal", a, ranked)
                     ELSE suggested' = [u EXCEPT !.text = "stripped"]
                [] u.text = "stripped" ->
                     IF unnamed THEN suggested' = [kept EXCEPT !.text = "untyped"] ELSE Tell(u, "stripped", a, ranked)
                [] u.text = "untyped" ->
                     IF HasAsked(ranked, q) THEN Tell(u, "untyped", a, ranked) ELSE Tell(u, "stripped", u.reply, u.ranked)

SuggestNext == Suggest \/ Fetch
SuggestSpec == SuggestInit /\ [][SuggestNext]_suggested

-----------------------------------------------------------------------------
Suggested == suggested.at = "told"

(* resolve opens only what a command opens, what is current and of the    *)
(* types that were asked for, what holds all of the query (or is of the   *)
(* type it names and holds its numbers), and what leads every current row *)
(* of its kind.                                                           *)
SureOfTheThing ==
  Suggested /\ suggested.verdict = "high" =>
    LET s == suggested.for
        top == suggested.answer[1]
        group == Answering(suggested.ranked)
    IN  /\ top.m.opens # Nothing /\ ~top.stale
        /\ s.types # {} => top.m.row.type \in s.types
        /\ top.m.some => top.m.hinted /\ ~LacksNumber(s.query, top.m.row)
        /\ \A i \in 2..Len(group) : group[i].stale \/ top.m.score - group[i].m.score >= 4

(* "Sorts after every current row that matches the query at least as       *)
(* closely": a stale guide stands before a current row only if it matches  *)
(* better, and between two rows of one kind the better score comes first.  *)
StaleStaysBelow ==
  Suggested => \A i, j \in DOMAIN suggested.ranked :
    LET a == suggested.ranked[i]
        b == suggested.ranked[j]
    IN  i < j => /\ a.stale /\ ~b.stale => a.m.strength > b.m.strength
                 /\ a.stale = b.stale => a.m.score >= b.m.score

(* Whatever list a thing comes in, it is told once; and what the whole query  *)
(* names is never dropped.  An article answers only if it leads every current *)
(* entity by 30 points - if a stale guide is not the first of the entities,   *)
(* which the article is compared with whatever the others score.              *)
NamedIsTold ==
  Suggested /\ suggested.for.kind = "text" =>
    LET s == suggested.for
        told == suggested.answer
        q == RankedBy(s.query, suggested.text)
    IN  /\ \A i, j \in DOMAIN told : told[i].m.row = told[j].m.row => i = j
        /\ \A r \in ToSet(Received(suggested.reply)) :
             HoldsWords(r.name, q) /\ (s.types = {} \/ r.type \in s.types) /\ Dnt \notin ToSet(r.name)
               => \E i \in DOMAIN told : told[i].m.row = r
        /\ LET entities == Entities(suggested.ranked)
           IN  entities # <<>> /\ ~entities[1].stale /\ told[1].m.row.type \notin Parsed
                 => \A i \in DOMAIN entities : entities[i].stale \/ told[1].m.score - entities[i].m.score >= 30

(* What resolve opens is the thing meant, outdated guides stay below what *)
(* matches as well, and what shares the name is told (ranking.py:         *)
(* resolve_confidence, order_search_rows).                                *)
SuggestionsHold == SureOfTheThing /\ StaleStaysBelow /\ NamedIsTold
=============================================================================
