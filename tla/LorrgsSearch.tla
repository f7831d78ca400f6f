----------------------------- MODULE LorrgsSearch -----------------------------
(*****************************************************************************)
(* search and resolve of Lorrgs (lorrgs_cli/search.py): the words of a query *)
(* are matched against the rosters of specs and of bosses, every row tied    *)
(* for the strongest match is made into candidates - a ranking of a spec on  *)
(* a boss, of a boss, the bare rows - and one is opened only when it answers *)
(* the whole query and has no rival.  A word is a string.                    *)
(*****************************************************************************)
EXTENDS Integers, Sequences, FiniteSets

LOCAL INSTANCE FiniteSetsExt
LOCAL INSTANCE SequencesExt

CONSTANTS
  SpecLists, BossLists,  \* what the rosters may be: sets of [slug, full, short, class, head, by], sets of words
  Stop,                  \* STOP_TERMS
  Filler,                \* BOSS_QUERY_FILLER
  Ranks,                 \* RANKED_DIFFICULTIES
  Unranked,              \* the other DIFFICULTIES
  OneClass,              \* the spec words only one class has
  Questions,             \* [kind, words, spec, boss, difficulty, fight]
  NoRow

ASSUME LorrgsAssumption ==
  /\ Filler \subseteq Stop /\ Ranks \cup Unranked \subseteq Stop /\ "mythic" \in Ranks
  /\ \A q \in Questions : q.kind \in {"text", "spec_ranking", "comp_ranking", "report"}
  /\ \A list \in SpecLists \cup BossLists : \A r \in list : r.by \in Nat

VARIABLE lorrgs

NoQuestion ==
  [at |-> "idle", for |-> NoRow, specs |-> {}, bosses |-> {}, ranked |-> <<>>, verdict |-> "none", capped |-> FALSE]
LorrgsInit == lorrgs = NoQuestion

-----------------------------------------------------------------------------
QueryTerms(words) == ToSet(words) \ Stop

(* _identity_level: spelled out, by its short name, or by some of its words. *)
LevelOfRow(r, terms) ==
  LET Within(words) == words \ Stop # {} /\ words \ Stop \subseteq terms
  IN  IF Within(r.slug) \/ Within(r.full) THEN 2 ELSE IF Within(r.short) THEN 1 ELSE 0

Touched(rows, terms) ==
  {[row |-> r, level |-> LevelOfRow(r, terms), terms |-> terms \cap (r.slug \cup r.full \cup r.short \cup r.class)]
     : r \in {r \in rows : terms \cap (r.slug \cup r.full \cup r.short \cup r.class) # {}}}

Weaker(a, b) == a.level < b.level \/ (a.level = b.level /\ Cardinality(a.terms) < Cardinality(b.terms))

\* Mutant: a tie is a coin flip.
FirstOfBest(found) == IF found = {} THEN {} ELSE {CHOOSE a \in found : \A b \in found : ~Weaker(a, b)}

(* "A tie is ambiguity, not a coin flip." *)
BestMatches(found) == {a \in found : \A b \in found : ~Weaker(a, b)}

(* round(), to the even of two neighbours. *)
Rounded(a, b) ==
  LET rest == 2 * (a % b) IN a \div b + IF rest > b \/ (rest = b /\ (a \div b) % 2 = 1) THEN 1 ELSE 0

(* _free_text_ranking: the share of the words of the query a candidate accounts for, and how exactly. *)
Candidate(kind, matches, terms, difficulty, alsoUnmatched) ==
  LET covered == UNION {m.terms : m \in matches}
      level == Min({m.level : m \in matches})
  IN  [kind |-> kind, rows |-> {m.row : m \in matches}, level |-> level, matched |-> covered,
       unmatched |-> (terms \ covered) \cup alsoUnmatched, difficulty |-> difficulty,
       score |-> Rounded(94 * Cardinality(covered), Cardinality(terms)) + level]

FirstDifficulty(words) ==
  LET named == SelectSeq(words, LAMBDA w : w \in Ranks \cup Unranked) IN IF named = <<>> THEN "none" ELSE named[1]

(* _ranked_candidates, of one query over both rosters. *)
Candidates(words, specs, bosses) ==
  LET terms == QueryTerms(words)
      topSpecs == BestMatches(Touched(specs, terms))
      topBosses == BestMatches(Touched(bosses, terms))
      difficulty == FirstDifficulty(words)
      lost == IF difficulty \in {"none", "mythic"} THEN {} ELSE {difficulty}
  IN  (IF difficulty \in Unranked THEN {}
       ELSE {Candidate("spec_ranking", {s, b}, terms, difficulty, {}) : s \in topSpecs, b \in topBosses})
      \cup {Candidate("comp_ranking", {b}, terms, "none", lost) : b \in topBosses}
      \cup {Candidate("spec", {s}, terms, "none", {}) : s \in topSpecs}
      \cup {Candidate("boss", {b}, terms, "none", {}) : b \in topBosses}

KindOrder == [spec_ranking |-> 0, comp_ranking |-> 1, spec |-> 2, boss |-> 3]
NameOrder(c) == SumSet({r.by : r \in c.rows})
RankedCandidates(cs) ==
  LET Before(a, b) == \/ a.score > b.score
                      \/ a.score = b.score /\ KindOrder[a.kind] < KindOrder[b.kind]
                      \/ a.score = b.score /\ a.kind = b.kind /\ NameOrder(a) < NameOrder(b)
  IN  [i \in 1..Cardinality(cs) |-> CHOOSE c \in cs : Cardinality({o \in cs : Before(o, c)}) = i - 1]

-----------------------------------------------------------------------------
(* _unambiguous: all of the query, and no equal of its kind. *)
Unambiguous(ranked) ==
  /\ ranked[1].unmatched = {}
  /\ \A i \in 2..Len(ranked) : ranked[i].kind = ranked[1].kind /\ ranked[i].rows # ranked[1].rows
                               => <<ranked[i].level, ranked[i].matched>> # <<ranked[1].level, ranked[1].matched>>
Confidence1(ranked) ==
  IF ranked = <<>> THEN "none" ELSE IF ~Unambiguous(ranked) THEN "low"
  ELSE IF ranked[1].level = 0 THEN "medium" ELSE "high"

(* _words_beyond_boss_name. *)
BeyondBoss(c, words) ==
  IF c.kind \notin {"comp_ranking", "boss"} THEN {}
  ELSE ToSet(words) \ (c.matched \cup Filler \cup UNION {r.full \cup r.slug : r \in c.rows})

(* _names_single_word. *)
OneWordNames(w, c) ==
  IF c.kind = "spec" THEN w \in OneClass ELSE c.kind \in {"comp_ranking", "boss"} /\ \A r \in c.rows : r.head = {w}

(* resolve_payload and resolve_data. *)
Resolved(ranked, words) ==
  LET sure == Confidence1(ranked)
      capped == sure = "high" /\ BeyondBoss(ranked[1], words) # {}
      one == Cardinality(QueryTerms(words)) = 1 /\ \A w \in QueryTerms(words) : ~OneWordNames(w, ranked[1])
  IN  IF sure # "high" THEN sure ELSE IF capped \/ one THEN "medium" ELSE "high"

-----------------------------------------------------------------------------
(* _explicit_candidates: a URL or a report code names its answer; nothing checks that Lorrgs can serve a report. *)
ExplicitCandidates(q) ==
  LET named == [kind |-> q.kind, rows |-> {}, level |-> 2, matched |-> {}, unmatched |-> {},
                difficulty |-> q.difficulty, score |-> IF q.kind = "report" THEN 88 ELSE 99]
  IN  IF q.kind = "report" /\ q.fight THEN <<named, [named EXCEPT !.kind = "report fight", !.score = 68]>> ELSE <<named>>

(* search_candidates: a reference is answered without a request. *)
AskLorrgs ==
  /\ lorrgs.at = "idle"
  /\ \E q \in Questions :
       lorrgs' = IF q.kind = "text" THEN [NoQuestion EXCEPT !.at = "specs", !.for = q]
                 ELSE [NoQuestion EXCEPT !.at = "told", !.for = q, !.ranked = ExplicitCandidates(q),
                         !.verdict = IF q.kind = "report" THEN "medium" ELSE "high"]

FetchSpecs ==
  /\ lorrgs.at = "specs"
  /\ \/ lorrgs' = [lorrgs EXCEPT !.at = "failed"]
     \/ \E list \in SpecLists : lorrgs' = [lorrgs EXCEPT !.at = "bosses", !.specs = list]

FetchBosses ==
  /\ lorrgs.at = "bosses"
  /\ \/ lorrgs' = [lorrgs EXCEPT !.at = "failed"]
     \/ \E list \in BossLists :
          LET ranked == RankedCandidates(Candidates(lorrgs.for.words, lorrgs.specs, list))
          IN  lorrgs' = [lorrgs EXCEPT !.at = "told", !.bosses = list, !.ranked = ranked,
                                       !.verdict = Resolved(ranked, lorrgs.for.words)]

LorrgsNext == AskLorrgs \/ FetchSpecs \/ FetchBosses
LorrgsSpec == LorrgsInit /\ [][LorrgsNext]_lorrgs

-----------------------------------------------------------------------------
AnsweredText == lorrgs.at = "told" /\ lorrgs.for.kind = "text"

(* What is opened answers every word of the query, and no other spec, nor  *)
(* boss, of the rosters is named by the same words as well as one of its   *)
(* own: Frost is two specs, and is never guessed, also with a boss beside. *)
NoCoinFlip ==
  AnsweredText /\ lorrgs.verdict = "high" =>
    LET best == lorrgs.ranked[1]
        terms == QueryTerms(lorrgs.for.words)
        Rivals(rows) == \A r \in best.rows \cap rows, o \in rows \ best.rows :
                          LET mine == CHOOSE m \in Touched(rows, terms) : m.row = r
                          IN  \A m \in Touched(rows, terms) : m.row = o => <<m.level, m.terms>> # <<mine.level, mine.terms>>
    IN  /\ terms \subseteq UNION {r.slug \cup r.full \cup r.short \cup r.class : r \in best.rows}
        /\ Rivals(lorrgs.specs) /\ Rivals(lorrgs.bosses)

(* A difficulty is never lost on the way: what is opened for a query that   *)
(* names one is a ranking of that difficulty or a row that has none, never  *)
(* the composition ranking of a boss; of the unranked ones no ranking of a  *)
(* spec is offered.                                                         *)
DifficultyKept ==
  AnsweredText /\ FirstDifficulty(lorrgs.for.words) # "none" =>
    /\ lorrgs.verdict = "high" => lorrgs.ranked[1].kind \notin {"comp_ranking", "boss"}
    /\ \A i \in DOMAIN lorrgs.ranked :
         lorrgs.ranked[i].kind = "spec_ranking" => /\ lorrgs.ranked[i].difficulty = FirstDifficulty(lorrgs.for.words)
                                                   /\ lorrgs.ranked[i].difficulty \in Ranks

(* A candidate never stands behind a narrower one: one that accounts for    *)
(* more words of the query comes first.                                     *)
WiderFirst ==
  AnsweredText => \A i, j \in DOMAIN lorrgs.ranked :
    i < j => Cardinality(lorrgs.ranked[i].matched) >= Cardinality(lorrgs.ranked[j].matched)

(* What resolve opens has no rival, what is opened keeps the difficulty   *)
(* of the query, and rows that hold more of the query come first          *)
(* (search.py: resolve_payload, _ranked_candidates).                      *)
LorrgsHolds == NoCoinFlip /\ DifficultyKept /\ WiderFirst
=============================================================================
