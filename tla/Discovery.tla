----------------------------- MODULE Discovery -----------------------------
(***************************************************************************)
(* Which providers a command of the wrapper reads, of which version of the *)
(* game, and what `warcraft resolve` makes of their answers:               *)
(* warcraft_cli/providers.py (exclusions, pins), main.py (resolve and the  *)
(* passthrough `warcraft <provider> ...`) and provider_contract.py (the    *)
(* ranking).  A search merges its rows as MergedPage says, and both ask    *)
(* their providers as FanOut says; here they are asked in one step.        *)
(***************************************************************************)
EXTENDS Integers, Sequences, FiniteSets

CONSTANTS
  Source,       \* the registered providers
  Game,         \* the expansions that can be asked for
  AnyGame,      \* no expansion asked for
  Mode,         \* expansion_mode: "profiled", "fixed" or "none"
  Covers,       \* supported_expansions of each provider
  Unverified,   \* unverified_expansions of each provider
  Home,         \* the game a provider reads when nothing pins it
  Follows,      \* the profiled ones that read the game a reference names
  Searching,    \* those whose surfaces are ready
  ReportOnly,   \* those that are ready for explicit report references only
  Kinds,        \* DISCOVERY_ENTITY_TYPES of each provider
  Native,       \* those that filter by kind themselves
  Alphabet,     \* the order of the providers' names
  Found,        \* the matches that a provider's resolve can return
  Floor,        \* MINIMUM_PROVIDER_SCORE_SCALE
  UncoveredFloor \* UNCOVERED_ROW_SCORE_SCALE

ASSUME DiscoveryAssumption ==
  /\ Mode \in [Source -> {"profiled", "fixed", "none"}]
  /\ Covers \in [Source -> SUBSET Game] /\ Unverified \in [Source -> SUBSET Game]
  /\ \A p \in Source : Covers[p] \cap Unverified[p] = {} /\ Home[p] \in Game
  /\ \A p \in Source : Mode[p] = "fixed" => Covers[p] = {Home[p]}
  /\ \A p \in Source : Mode[p] = "none" => Covers[p] = {}
  /\ AnyGame \notin Game /\ Follows \subseteq {p \in Source : Mode[p] = "profiled"}
  /\ Searching \cap ReportOnly = {} /\ Searching \cup ReportOnly \subseteq Source
  /\ IsFiniteSet(Source) /\ Floor \in Nat \ {0} /\ UncoveredFloor \in Nat \ {0}
  /\ Alphabet \in [Source -> Nat] /\ \A p, q \in Source : Alphabet[p] = Alphabet[q] => p = q
  /\ \A m \in Found :
       /\ m.kind \notin {"-", "failed", "unasked"}
       /\ {m.score, m.most, m.boost, m.fit, m.confidence} \subseteq Int
       /\ {m.covers, m.anchor, m.off, m.exact, m.resolved} \subseteq BOOLEAN
       /\ m.resolved => m.confidence = 3  \* every provider resolves at high only

VARIABLES
  asked,      \* the command
  left,       \* the providers it leaves out, each with the reason
  matches,    \* what the others answered
  outcome,    \* what the command says
  reads,      \* history: whom it read, and of which game
  at

discovering == <<asked, left, matches, outcome, reads, at>>

NoMatch == [kind |-> "-"]
Failure == [kind |-> "failed"]
Unasked == [kind |-> "unasked"]
NoOutcome == [resolved |-> FALSE, by |-> "-", best |-> "-", reason |-> "-", others |-> {}, searches |-> <<>>,
             error |-> "-", advised |-> FALSE, noted |-> FALSE]

(* What a command makes of a reference of its arguments: it takes the game  *)
(* it names unless another is selected ("pinned": an entity, a search), or  *)
(* it reads it as it says, with a note when the page served is of another   *)
(* game ("guide"), when the page asked for is ("post", a news post), or     *)
(* with none ("page": a blue topic, a calculator, an exported guide).       *)
Surfaces == {"pinned", "guide", "post", "page"}

(* The arguments that a provider takes: own is an expansion option, refers  *)
(* the game of a reference (a URL or a classic/... path) among them.  The   *)
(* composites of a provider that follows references export guides and       *)
(* decode calculators.                                                      *)
Takes(p, c) ==
  /\ c.own # AnyGame => c.name = "proxy" /\ Mode[p] = "profiled"
  /\ c.refers # AnyGame => Mode[p] = "profiled"
  /\ p \in Follows => {c.own, c.refers} \subseteq Covers[p] \cup {AnyGame}
  /\ p \notin Follows => c.surface = "pinned"
  /\ p \in Follows /\ c.name = "composite" => c.surface = "page"

DiscoveryInit ==
  /\ asked \in [name : {"resolve"}, game : Game \cup {AnyGame}, only : SUBSET Source,
                kinds : SUBSET UNION {Kinds[p] : p \in Source}, own : {AnyGame},
                refers : Game \cup {AnyGame}, surface : {"pinned"}]
         \cup {c \in [name : {"proxy", "composite"}, game : Game \cup {AnyGame}, only : {{p} : p \in Source},
                     kinds : {{}}, own : Game \cup {AnyGame}, refers : Game \cup {AnyGame}, surface : Surfaces] :
                  \A p \in c.only : Takes(p, c)}
  /\ left = [p \in Source |-> "-"]
  /\ matches = [p \in Source |-> Unasked]
  /\ outcome = NoOutcome
  /\ reads = {}
  /\ at = "begun"

-----------------------------------------------------------------------------
(* Expansions.                                                              *)

Supports(p, game) == game = AnyGame \/ (Mode[p] # "none" /\ game \in Covers[p])

WhyNotGame(p, game) ==
  IF Supports(p, game) THEN "-"
  ELSE IF game \in Unverified[p] THEN "provider_game_profile_unverified"
  ELSE IF Mode[p] = "fixed" THEN "provider_fixed_to_other_expansion"
  ELSE IF Mode[p] = "profiled" THEN "provider_does_not_support_requested_expansion"
  ELSE "provider_has_no_expansion_support"

(* provider_expansion_options: only a profiled provider can be told. *)
Pin(p, game) == IF Mode[p] = "profiled" THEN game ELSE AnyGame

(* _adopt_expansion, select_expansion: an option wins over a reference.     *)
SelectedGame(p, pin) ==
  IF pin # AnyGame THEN pin
  ELSE IF p \in Follows /\ asked.refers # AnyGame THEN asked.refers ELSE Home[p]

(* The game whose page is asked for: a reference is fetched as it stands.   *)
Target(p, pin) ==
  IF asked.surface = "pinned" \/ asked.refers = AnyGame THEN SelectedGame(p, pin) ELSE asked.refers

(* Wowhead may answer a guide or a post with the page of another game.      *)
Served(p, pin) == IF asked.surface \in {"guide", "post"} THEN Covers[p] \cup {Target(p, pin)} ELSE {Target(p, pin)}

Reads(p, pin, served) == [by |-> p, game |-> Target(p, pin), served |-> served]

(* expansion_url_policy_issues: a guide's note looks at the page that was   *)
(* served, a post's at the one asked for.                                   *)
Noted(p, pin, served) ==
  \/ asked.surface = "guide" /\ served # SelectedGame(p, pin)
  \/ asked.surface = "post" /\ Target(p, pin) # SelectedGame(p, pin)

(* A report's code only exists on its own site: Warcraft Logs refuses the   *)
(* URL of another site than the selected one.                               *)
Astray(p, pin) == Mode[p] = "profiled" /\ p \notin Follows /\ asked.refers \notin {AnyGame, SelectedGame(p, pin)}

(* discovery_filtered_providers. *)
WhyNotScope(p) ==
  IF asked.only # {} /\ p \notin asked.only THEN "provider_not_selected"
  ELSE IF asked.kinds # {} /\ asked.kinds \cap Kinds[p] = {} THEN "provider_has_no_requested_entity_type"
  ELSE "-"

WhyNot(p) ==
  IF WhyNotGame(p, asked.game) # "-" THEN WhyNotGame(p, asked.game)
  ELSE IF WhyNotScope(p) # "-" THEN WhyNotScope(p)
  ELSE IF p \notin Searching \cup ReportOnly THEN "provider_surface_not_ready"
  ELSE "-"

Included == {p \in Source : left[p] = "-"}

Scope ==
  /\ at = "begun" /\ asked.name = "resolve" /\ at' = "scoped"
  /\ left' = [p \in Source |-> WhyNot(p)]
  /\ UNCHANGED <<asked, matches, outcome, reads>>

-----------------------------------------------------------------------------
(* The providers' answers.                                                  *)

(* What a provider can answer: a hint or nothing, a match of its own kinds, *)
(* native ones of the kinds asked for only, or an error.                    *)
MayAnswer(p) ==
  {NoMatch, Failure} \cup
  {m \in Found : m.kind \in (IF p \in Native /\ asked.kinds # {} THEN asked.kinds \cap Kinds[p] ELSE Kinds[p])}

(* _scope_result: a match of another kind than those asked for is dropped. *)
Scoped(p, answer) ==
  IF asked.kinds # {} /\ p \notin Native /\ answer \in Found /\ answer.kind \notin asked.kinds
  THEN NoMatch ELSE answer

(* A URL of the provider is answered from its text (_url_answer), and so is *)
(* a report reference.                                                      *)
Fetching == {p \in Included : p \notin ReportOnly /\ (p \in Follows => asked.refers = AnyGame)}

Ask ==
  /\ at = "scoped" /\ at' = "answered"
  /\ \E answers \in {f \in [Included -> Found \cup {NoMatch, Failure}] : \A p \in Included : f[p] \in MayAnswer(p)} :
       matches' = [p \in Source |-> IF p \in Included THEN Scoped(p, answers[p]) ELSE Unasked]
  /\ reads' = {Reads(p, Pin(p, asked.game), Target(p, Pin(p, asked.game))) : p \in Fetching}
  /\ UNCHANGED <<asked, left, outcome>>

-----------------------------------------------------------------------------
(* The ranking.                                                             *)

(* normalized_provider_score, on Python's round: halves go to the even side. *)
Rounded(n, by) ==
  LET below == n \div by  rest == 2 * (n % by) IN
  IF rest > by \/ (rest = by /\ below % 2 = 1) THEN below + 1 ELSE below

Larger(i, j) == IF i < j THEN j ELSE i

Normalized(score, most, floor) ==
  IF most <= 0 \/ score <= 0 THEN 0
  ELSE Rounded(100 * (IF score < most THEN score ELSE most), Larger(most, floor))

(* _base_score and the boosts; most is the best score of the match and the  *)
(* provider's candidates.                                                   *)
WrapperScore(m) ==
  Normalized(m.score, Larger(m.score, m.most), IF m.covers THEN Floor ELSE UncoveredFloor) + m.boost

Matched == {p \in Source : matches[p] \in Found}

(* resolve_payload_sort_key: anchor, off-intent, score, resolved,           *)
(* confidence, name.                                                        *)
Key(p) ==
  LET m == matches[p] IN
  <<IF m.anchor THEN 0 ELSE 1, IF m.off THEN 1 ELSE 0, 0 - WrapperScore(m),
    IF m.resolved THEN 0 ELSE 1, 0 - m.confidence, Alphabet[p]>>

Before6(k, l) == \E i \in 1..6 : k[i] < l[i] /\ \A j \in 1..(i - 1) : k[j] = l[j]

Outranks(p, q) == Before6(Key(p), Key(q))

First(S) == CHOOSE p \in S : \A q \in S \ {p} : Outranks(p, q)

InOrder(S) == [i \in 1..Cardinality(S) |-> CHOOSE p \in S : Cardinality({q \in S : Outranks(q, p)}) = i - 1]

(* A match that its own provider rated low is nobody's rival. *)
Contenders == {p \in Matched : matches[p].confidence > 1}

(* resolve_answer_accepted. *)
Accepted(p) == matches[p].resolved /\ (matches[p].fit >= 0 \/ matches[p].exact)

UnresolvedReason(p) ==
  IF matches[p].resolved THEN "provider_family_ranked_down_by_query_intent"
  ELSE IF matches[p].capped THEN "single_word_query_not_named_exactly"
  ELSE "provider_did_not_resolve"

Answering == {p \in Included : matches[p] # Failure /\ (p \in ReportOnly => matches[p] \in Found)}

NobodyAnswered ==
  [NoOutcome EXCEPT !.error =
     IF \E p \in Included : matches[p] = Failure THEN "providers_failed" ELSE "no_searching_provider"]

Answer(p) == [NoOutcome EXCEPT !.resolved = TRUE, !.by = p]

\* Mutant: only the providers behind the first contender are named.
UnresolvedForgetful ==
  IF Matched = {} THEN NoOutcome
  ELSE [NoOutcome EXCEPT
          !.best = First(Matched), !.reason = UnresolvedReason(First(Matched)),
          !.others = {p \in Contenders : matches[p].resolved /\ p # First(Contenders)},
          !.searches = InOrder({p \in Matched : matches[p].fallback})]

(* _unresolved_next_steps. *)
Unresolved ==
  IF Matched = {} THEN NoOutcome
  ELSE [NoOutcome EXCEPT
          !.best = First(Matched), !.reason = UnresolvedReason(First(Matched)),
          !.others = {p \in Matched \ {First(Matched)} : matches[p].resolved},
          !.searches = InOrder({p \in Matched : matches[p].fallback})]

Decide ==
  /\ at = "answered" /\ at' = "done"
  /\ outcome' = IF Answering = {} THEN NobodyAnswered
                ELSE IF Contenders # {} /\ Accepted(First(Contenders)) THEN Answer(First(Contenders))
                ELSE Unresolved
  /\ UNCHANGED <<asked, left, matches, reads>>

-----------------------------------------------------------------------------
(* Commands that name their provider.                                       *)

Named == CHOOSE p \in Source : p \in asked.only

Says(answer, read) ==
  /\ at = "begun" /\ at' = "done"
  /\ outcome' = answer /\ reads' = read
  /\ UNCHANGED <<asked, left, matches>>

Refused(code) == Says([NoOutcome EXCEPT !.error = code], {})

(* _expansion_passthrough_advisory: a provider that knows no expansions is  *)
(* passed through with a note, unless the game is known to be unverified.   *)
Advised == Mode[Named] = "none" /\ asked.game \notin Unverified[Named]

(* The command of a provider, told a game or not.                           *)
Command(p, pin) ==
  IF Astray(p, pin) THEN Refused("invalid_query")
  ELSE \E served \in Served(p, pin) :
         Says([NoOutcome EXCEPT !.noted = Noted(p, pin, served)], {Reads(p, pin, served)})

\* Mutant: the pin of the wrapper goes after the arguments of the user.
ProxyUnpinned ==
  /\ asked.name = "proxy" /\ WhyNotGame(Named, asked.game) = "-"
  /\ Command(Named, IF asked.own # AnyGame THEN asked.own ELSE Pin(Named, asked.game))

(* _passthrough_args: the wrapper's pin and an option of the user's own do  *)
(* not go together; a reference does.                                       *)
Proxy ==
  /\ asked.name = "proxy" /\ WhyNotGame(Named, asked.game) = "-"
  /\ IF Pin(Named, asked.game) # AnyGame /\ asked.own # AnyGame
     THEN Refused("duplicate_expansion_argument")
     ELSE Command(Named, Pin(Named, IF asked.game = AnyGame THEN asked.own ELSE asked.game))

ProxyAdvised ==
  /\ asked.name = "proxy" /\ WhyNotGame(Named, asked.game) # "-" /\ Advised
  /\ Says([NoOutcome EXCEPT !.advised = TRUE], {Reads(Named, AnyGame, Home[Named])})

ProxyRefused ==
  /\ asked.name = "proxy" /\ WhyNotGame(Named, asked.game) # "-" /\ ~Advised
  /\ Refused("unsupported_provider_expansion")

(* provider_invoke, provider_guide_export: _unsupported_expansion_result    *)
(* lets a provider without expansions through, but not an unverified game.  *)
Composite ==
  /\ asked.name = "composite"
  /\ IF WhyNotGame(Named, asked.game) # "-" /\ ~Advised THEN Refused("unsupported_provider_expansion")
     ELSE Command(Named, Pin(Named, asked.game))

DiscoveryNext == Scope \/ Ask \/ Decide \/ Proxy \/ ProxyAdvised \/ ProxyRefused \/ Composite

DiscoverySpec == DiscoveryInit /\ [][DiscoveryNext]_discovering

-----------------------------------------------------------------------------
(* Properties.                                                              *)

(* The rank a search gives a row, without what breaks its ties. *)
RankOf(p) == [i \in 1..3 |-> Key(p)[i]]
Ahead(p, q) ==
  \E i \in 1..3 : RankOf(p)[i] < RankOf(q)[i] /\ \A j \in 1..(i - 1) : RankOf(p)[j] = RankOf(q)[j]

(* "The answer is the candidate `warcraft search` would rank first, skipping *)
(* any its own provider rated `low`, and only when that provider resolved    *)
(* it" (resolve): nothing but a low match is ahead of it.                    *)
AnswerLeads ==
  outcome.resolved =>
    /\ matches[outcome.by].resolved
    /\ \A q \in Matched : Ahead(q, outcome.by) => matches[q].confidence <= 1

(* Without an answer no match that a provider stands for is lost: it is the *)
(* best candidate, with the true reason why it is no answer, or named       *)
(* beside it; and every reason given holds of the candidate it is given of. *)
NothingResolvedLost ==
  at = "done" /\ asked.name = "resolve" /\ ~outcome.resolved /\ outcome.error = "-" =>
    /\ \A p \in Matched : matches[p].resolved => p = outcome.best \/ p \in outcome.others
    /\ \A p \in outcome.others : matches[p].resolved
    /\ Matched # {} => outcome.best \in Matched /\ \A q \in Matched : ~Ahead(q, outcome.best)
    /\ outcome.reason = "provider_family_ranked_down_by_query_intent" =>
         matches[outcome.best].fit < 0 /\ matches[outcome.best].confidence > 1

(* A provider's outage hides nothing: only when no provider that looked was *)
(* able to answer does the command fail.                                    *)
FailsForNobody ==
  at = "done" /\ asked.name = "resolve" =>
    (outcome.error # "-" <=> \A p \in Included : matches[p] = Failure \/ (p \in ReportOnly /\ matches[p] = NoMatch))

(* What resolve answers is the best of what the providers resolved,       *)
(* nothing resolved is lost, and it fails only when nobody could answer   *)
(* (main.py: resolve).                                                    *)
ResolveHolds == AnswerLeads /\ NothingResolvedLost /\ FailsForNobody

(* The game selected by the wrapper's option or by the provider's own.      *)
Option == IF asked.game # AnyGame THEN asked.game ELSE asked.own

(* With --expansion nothing of another version of it is asked for: not *)
(* by the fan-out, whatever its query names, and not by a passthrough or a  *)
(* composite.  Two exceptions: a provider that knows no versions is read    *)
(* all the same, unless that game is listed as unverified, and a            *)
(* passthrough says so; and Wowhead reads the reference of a guide, a post  *)
(* or a page as it stands, which the answer notes when it is about a post   *)
(* and, as GuideIsNoted says, a guide.                                      *)
AskedForGame ==
  Option # AnyGame => \A r \in reads :
    \/ r.game = Option
    \/ /\ Mode[r.by] = "none" /\ asked.game \notin Unverified[r.by]
       /\ asked.name = "composite" \/ outcome.advised
    \/ /\ r.by \in Follows /\ r.game = asked.refers
       /\ asked.name # "resolve" /\ asked.surface # "pinned"
       /\ asked.surface = "post" => outcome.noted

(* A guide of another game than the selected one, the one a reference was   *)
(* adopted for or the default always carries the note, and no other does:   *)
(* Wowhead answers /classic/guide=<id> with the guide of retail.            *)
TellsGame ==
  \A r \in reads :
    outcome.noted <=>
      r.served # (IF Option # AnyGame THEN Option ELSE IF asked.refers # AnyGame THEN asked.refers ELSE Home[r.by])

GuideIsNoted == asked.surface = "guide" => TellsGame

(* Not so of a news post, of which docs/wowhead/README.md says the same:    *)
(* its note looks at the page asked for.                                    *)
PostIsNoted == asked.surface = "post" => TellsGame

(* Both together, the first of what is asked for, the second of what comes: *)
(* --expansion and a reference of another game (wrapper main.py:            *)
(* _passthrough_args, wowhead main.py: _adopt_expansion and the notes of    *)
(* its pages).                                                              *)
StaysInGame == AskedForGame /\ GuideIsNoted
=============================================================================
