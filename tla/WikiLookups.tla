----------------------------- MODULE WikiLookups -----------------------------
(*****************************************************************************)
(* resolve, api and event of Warcraft Wiki (warcraft_wiki_cli/search.py and  *)
(* provider.py): a query is searched for, once as typed and once without a   *)
(* leading word that only names a family of pages; a lookup of a reference   *)
(* page first reads the titles such a page would have.  A word is a sequence *)
(* of the parts its humps mark (UnitHealth), a part is a model value.  Any   *)
(* request may be throttled or fail.                                         *)
(*****************************************************************************)
EXTENDS Integers, Sequences, FiniteSets

LOCAL INSTANCE FiniteSetsExt
LOCAL INSTANCE SequencesExt

CONSTANTS
  WikiPage,         \* [title, colon, family, snippet, by]: words, "API:X" or "API X", words, place in the alphabet
  Leads,        \* where a title leads: [title, colon, page], redirects included
  Finds,        \* what a search may return: sequences of pages, and where it may say they moved
  FamilyHints,  \* QUERY_FAMILY_HINT_TERMS
  Intents,      \* what a word asks for: [words, families, points]
  Base,         \* the points of a family
  Spaces,       \* TYPED_TITLE_PREFIXES: of "api" and "event", sequences of [word, colon]
  Allowed,      \* _typed_allowed_families
  Mashed,       \* TITLE_WORD_EXPANSIONS: a word that is two
  Wow,          \* the first word of "World of Warcraft: Legion"
  Wikis,        \* what is looked up: [kind, query]
  RowLimit,     \* the rows of a search a typed lookup looks at
  NoPage

ASSUME WikiAssumption ==
  /\ \A p \in WikiPage : p.title # <<>> /\ p.by \in Nat
  /\ \A w \in Wikis : w.kind \in {"resolve", "api", "event"}
  /\ DOMAIN Spaces = {"api", "event"} /\ DOMAIN Allowed = {"api", "event"} /\ RowLimit \in Nat

VARIABLE wiki

NoWiki ==
  [at |-> "idle", for |-> NoPage, refs |-> <<>>, texts |-> <<>>, whole |-> FALSE, rows |-> {}, found |-> {},
   ranked |-> <<>>, verdict |-> "none", page |-> NoPage, from |-> {}, throttled |-> FALSE]
WikiInit == wiki = NoWiki

-----------------------------------------------------------------------------
(* Text.                                                                   *)

(* The parts of the words, run together or with what stands between words. *)
Joined(words) == FlattenSeq(words)
Spelled(words, colon) ==
  FlattenSeq([i \in DOMAIN words |->
    IF i = 1 THEN words[1] ELSE <<IF colon /\ i = 2 THEN "colon" ELSE "space">> \o words[i]])
Inside(part, all) == \E i \in 1..(Len(all) - Len(part) + 1) : SubSeq(all, i, i + Len(part) - 1) = part
Starts(part, all) == Len(part) <= Len(all) /\ SubSeq(all, 1, Len(part)) = part

(* normalize_wiki_query: a leading word that names a family is dropped, unless all of them do. *)
Dropped(q) == {i \in DOMAIN q : \A j \in 1..i : q[j] \in FamilyHints}
Bare(q) == IF Cardinality(Dropped(q)) = Len(q) THEN q ELSE SubSeq(q, Cardinality(Dropped(q)) + 1, Len(q))

(* title_names_query: every word of the query is a word or whole humps of *)
(* one, and some word of the title is spelled out to its end.             *)
Spans(word, term) ==
  UNION {{k \in DOMAIN word : i <= k /\ k < i + Len(term)} :
           i \in {i \in 1..(Len(word) - Len(term) + 1) : SubSeq(word, i, i + Len(term) - 1) = term}}
TitleWords(p) ==
  FlattenSeq([i \in DOMAIN p.title |-> IF p.title[i] \in Mashed THEN [j \in DOMAIN p.title[i] |-> <<p.title[i][j]>>]
                                       ELSE <<p.title[i]>>])
Names(p, query) ==
  LET terms == ToSet(Bare(query))
      words == TitleWords(p)
  IN  /\ terms # {}
      /\ \A t \in terms : \E i \in DOMAIN words : Spans(words[i], t) # {}
      /\ \E i \in DOMAIN words : UNION {Spans(words[i], t) : t \in terms} = DOMAIN words[i]

-----------------------------------------------------------------------------
(* score_wiki_match.                                                       *)

Score1(p, original, q, ordinal) ==
  LET If(test, points) == IF test THEN points ELSE 0
      title == Spelled(p.title, p.colon)
      text == Spelled(q, FALSE)
      snippet == Spelled(p.snippet, FALSE)
      InText(t, s) == Inside(t, s)
      own == CASE p.family = "api_function" -> Spaces["api"][1].word
               [] p.family = "ui_handler" -> Spaces["event"][2].word
               [] p.family = "event_reference" -> Spaces["event"][1].word
               [] OTHER -> <<>>
      exact == p.title = q
      ownTitle == own # <<>> /\ Joined(p.title) = own \o Joined(q)
      covers == \A i \in DOMAIN q : InText(q[i], title) \/ InText(q[i], snippet)
      guide == p.family \in {"howto_programming", "guide_reference"} /\ \A i \in DOMAIN q : InText(q[i], title)
      alias == p.family = "expansion_reference" /\ p.colon /\ p.title[1] = Wow /\ q = Tail(p.title)
      partly == Len(p.title) < Len(q) /\ Inside(p.title, q)
      asked == {t \in Intents : t.words \cap ToSet(original) # {} /\ p.family \in t.families}
  IN  [page |-> p,
       exact |-> exact, identity |-> ownTitle \/ alias, partly |-> partly,
       covers |-> \/ exact \/ ownTitle \/ Inside(text, title) \/ covers \/ alias \/ Inside(Joined(q), Joined(p.title)),
       score |-> Max({0, 10 - ordinal}) + If(exact, 50) + If(ownTitle, 40) + If(Starts(text, title), 20)
                 + If(Inside(text, title), 12) + If(Inside(Joined(q), Joined(p.title)), 10) + If(covers, 10) + If(guide, 36)
                 + If(\E i \in DOMAIN q : InText(q[i], snippet), 4)
                 + (IF partly THEN (60 * Len(p.title) + Len(q)) \div (2 * Len(q)) ELSE 0)
                 + MapThenSumSet(LAMBDA t : t.points, asked) + Base[p.family] + If(alias, 24)]

Rows1(found, original, q) == {Score1(found[i], original, q, i - 1) : i \in DOMAIN found}

(* sort_article_candidates. *)
Sorted1(rows) ==
  [i \in 1..Cardinality(rows) |->
     CHOOSE r \in rows :
       i - 1 = Cardinality({o \in rows : o.score > r.score \/ (o.score = r.score /\ o.page.by < r.page.by)})]
Cut(rows) == SubSeq(rows, 1, Min({RowLimit, Len(rows)}))

(* is_confident_match: a row that does not cover the query is no rival. *)
Confident(rows) ==
  /\ rows # <<>> /\ rows[1].covers
  /\ LET rivals == {rows[i].score : i \in {i \in 2..Len(rows) : rows[i].covers}}
         top == rows[1].score - (IF rows[1].partly THEN 30 ELSE 0)
     IN  rivals = {} \/ top >= 70 \/ top >= Max(rivals) + 18

(* names_single_word, and the word a title begins with before a colon. *)
OfOneWord(word, row) ==
  LET p == row.page
  IN  \/ p.title = <<word>> \/ (p.colon /\ p.title[1] = word) \/ row.identity
      \/ row.exact /\ Len(p.title) = 1
      \/ p.family = "api_function" /\ (Len(p.title) > 2 \/ ~p.colon) /\ p.title[Len(p.title)] = word

(* article_resolve_payload and resolve_data. *)
Verdict(rows, text, query) ==
  IF rows = <<>> THEN "none"
  ELSE IF Confident(rows) /\ Names(rows[1].page, query)
       THEN IF Len(text) = 1 /\ ~OfOneWord(text[1], rows[1]) THEN "medium" ELSE "high"
       ELSE IF Len(rows) > 1 /\ rows[1].score = rows[2].score THEN "low" ELSE "medium"

-----------------------------------------------------------------------------
(* The titles and the texts of a typed lookup. *)
Refs(kind, q) ==
  IF \E i \in DOMAIN Spaces[kind] : Len(q) > 1 /\ q[1] = Spaces[kind][i].word /\ ~Spaces[kind][i].colon
  THEN <<[title |-> q, colon |-> FALSE]>>
  ELSE [i \in DOMAIN Spaces[kind] |-> [title |-> <<Spaces[kind][i].word>> \o q, colon |-> Spaces[kind][i].colon]]
       \o <<[title |-> q, colon |-> FALSE]>>
Texts(kind, q) ==
  LET space == Spaces[kind][2].word IN IF Len(q) > 1 /\ q[1] = space THEN <<q>> ELSE <<q, <<space>> \o q>>

(* search_results begins with the text as typed when a word would be dropped. *)
Begun(w, texts) == [w EXCEPT !.at = "searching", !.texts = texts, !.whole = Bare(texts[1]) # texts[1]]

AskWiki ==
  /\ wiki.at = "idle"
  /\ \E a \in Wikis :
       LET w == [NoWiki EXCEPT !.for = a]
       IN  wiki' = IF a.query = <<>> THEN [w EXCEPT !.at = "failed"]
                   ELSE IF a.kind = "resolve" THEN Begun(w, <<a.query>>)
                   ELSE [w EXCEPT !.at = "reading", !.refs = Refs(a.kind, a.query)]

LeadsTo(ref) == {l.page : l \in {l \in Leads : l.title = ref.title /\ l.colon = ref.colon}}

(* _typed_direct_article_result: any error the wiki itself reports moves on to the next title. *)
ReadTitle ==
  /\ wiki.at = "reading"
  /\ LET w == wiki
         a == w.for
         next == IF Len(w.refs) = 1 THEN Begun(w, Texts(a.kind, a.query)) ELSE [w EXCEPT !.refs = Tail(@)]
         fit == {p \in LeadsTo(w.refs[1]) : p.family \in Allowed[a.kind]}
     IN  \/ wiki' = [w EXCEPT !.at = "failed"]
         \/ wiki' = [next EXCEPT !.throttled = TRUE]
         \/ fit = {} /\ wiki' = next
         \/ \E p \in fit : wiki' = [w EXCEPT !.at = "told", !.page = p]

(* What is made of the rows of one text: resolve judges them, a typed lookup merges them. *)
BestOfPage(rows) == {r \in rows : \A o \in rows : o.page = r.page => o.score <= r.score}

\* Mutant: the best row of a typed lookup is read whatever its title.
AnyRow(rows, query) == rows

TitledSo(rows, query) == SelectSeq(rows, LAMBDA r : Names(r.page, query))

Judge(w, rows, text) ==
  IF w.for.kind = "resolve"
  THEN [w EXCEPT !.at = "told", !.ranked = Sorted1(rows), !.verdict = Verdict(Sorted1(rows), text, w.for.query)]
  ELSE LET cut == {r \in ToSet(Cut(Sorted1(rows))) : r.page.family \in Allowed[w.for.kind]}
           all == {[page |-> r.page, exact |-> FALSE, identity |-> FALSE, partly |-> r.partly, covers |-> r.covers,
                    score |-> r.score] : r \in cut} \cup w.rows
           ranked == Cut(Sorted1({CHOOSE r \in BestOfPage(all) : r.page = p : p \in {r.page : r \in all}}))
           named == TitledSo(ranked, w.for.query)
       IN  IF Len(w.texts) > 1 THEN [Begun(w, Tail(w.texts)) EXCEPT !.rows = all]
           ELSE IF Confident(named) THEN [w EXCEPT !.at = "opening", !.rows = all, !.ranked = ranked, !.page = named[1].page]
           ELSE [w EXCEPT !.at = "not found", !.rows = all, !.ranked = ranked]

SearchWiki ==
  /\ wiki.at = "searching"
  /\ \/ wiki' = [wiki EXCEPT !.at = "failed"]
     \/ \E found \in Finds :
          LET w == wiki
              typed == w.texts[1]
              text == IF w.whole THEN typed ELSE Bare(typed)
              rows == Rows1(found, IF w.for.kind = "resolve" THEN w.for.query ELSE typed, text)
              seen == [w EXCEPT !.found = @ \cup {[row |-> r, whole |-> text = typed] : r \in rows}]
          IN  wiki' = IF w.whole /\ \A r \in rows : ~r.exact THEN [seen EXCEPT !.whole = FALSE]
                      ELSE Judge(seen, rows, text)

(* The page of the row is read; it may have become a redirect since. *)
OpenPage ==
  /\ wiki.at = "opening"
  /\ \/ wiki' = [wiki EXCEPT !.at = "failed"]
     \/ \E p \in {wiki.page} \cup LeadsTo([title |-> wiki.page.title, colon |-> wiki.page.colon]) :
          wiki' = [wiki EXCEPT !.at = IF p.family \in Allowed[wiki.for.kind] THEN "told" ELSE "not found",
                               !.from = {wiki.page}, !.page = p]

WikiNext == AskWiki \/ ReadTitle \/ SearchWiki \/ OpenPage
WikiSpec == WikiInit /\ [][WikiNext]_wiki

-----------------------------------------------------------------------------
(* A typed lookup answers with a page of its surface: one that a title of   *)
(* the query leads to, or one whose own title spells the query out - never  *)
(* a page that only speaks of it.                                           *)
TypedIsNamed ==
  wiki.at = "told" /\ wiki.for.kind # "resolve" =>
    /\ wiki.page.family \in Allowed[wiki.for.kind]
    /\ \/ wiki.from = {}
       \/ \A i \in DOMAIN Bare(wiki.for.query) : \E p \in wiki.from, j \in 1..3 :
            j \in DOMAIN p.title /\ Inside(Bare(wiki.for.query)[i], p.title[j])

(* A title is passed over only if no page is there or a request was        *)
(* throttled: what the first title leads to is what is told.               *)
FirstTitleWins ==
  wiki.at \in {"told", "not found"} /\ wiki.for.kind # "resolve" /\ ~wiki.throttled =>
    LET refs == Refs(wiki.for.kind, wiki.for.query)
        good == {i \in DOMAIN refs : \E p \in LeadsTo(refs[i]) : p.family \in Allowed[wiki.for.kind]}
    IN  good # {} => wiki.at = "told" /\ wiki.from = {} /\ wiki.page \in LeadsTo(refs[Min(good)])

(* resolve is sure only of a page whose title spells the query out, and a  *)
(* page titled with the whole query that either search found is the answer *)
(* or scored no more than it: dropping a word never loses it.              *)
WholeTitleKept ==
  wiki.at = "told" /\ wiki.for.kind = "resolve" =>
    /\ wiki.verdict = "high" => Names(wiki.ranked[1].page, wiki.for.query) /\ wiki.ranked[1].covers
    /\ \A f \in wiki.found :
         f.whole /\ f.row.exact => \E i \in DOMAIN wiki.ranked :
                                     wiki.ranked[i] = f.row /\ wiki.ranked[1].score >= f.row.score

(* What a lookup answers: the page of the name or type that was asked     *)
(* for, the first title that has it, and no more than the query says      *)
(* (provider.py: _typed_search_match; search.py: title_names_query).      *)
WikiHolds == TypedIsNamed /\ FirstTitleWins /\ WholeTitleKept
=============================================================================
