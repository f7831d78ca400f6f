--------------------------- MODULE CooldownPacket ---------------------------
(***************************************************************************)
(* `warcraft cooldown-packet`: one player's cooldowns in one phase of one  *)
(* fight, next to those of the top parses of his spec.  The command reads  *)
(* two services that number the phases each in its own way, and goes on    *)
(* when the first of them has no copy of the report                        *)
(* (warcraft_cli/cooldown_packet_flow.py and cooldown_packet.py).  Times   *)
(* are counted from the pull.                                              *)
(***************************************************************************)
EXTENDS Integers, Sequences, FiniteSets

CONSTANTS
  Wanted,       \* the requests: the flags of the command
  LorrgsFights, \* what Lorrgs can say of the fight
  WclFights,    \* what Warcraft Logs can say of it
  Rosters,      \* its players, as Warcraft Logs lists them
  Transitions,  \* its phases, as Warcraft Logs lists them
  Catalogs,     \* the spells Lorrgs tracks for a spec
  CastPages,    \* the casts of the fight, and the page of them that was read
  Rankings,     \* the top parses of a spec on a boss
  External,     \* spells of spell_type "other-externals"
  Spelling,     \* spelling of a spec -> the specs it may stand for
  ClassOf,      \* spec -> class
  None, NoCopy  \* no value; no answer

Open == -1  \* the end of a window that nothing closes

ASSUME PacketAssumption ==
  /\ \A e \in CastPages : e.page \subseteq e.all /\ (e.page # e.all => e.more \/ e.warned)
  /\ \A s \in DOMAIN Spelling : Spelling[s] \subseteq DOMAIN ClassOf
  /\ \A r \in Rankings :
       /\ Len(r) \in Nat /\ DOMAIN r = 1..Len(r)
       /\ \A i \in DOMAIN r : IsFiniteSet(r[i].visits) /\ r[i].visits \subseteq [at : Nat, id : Int]
  /\ \A w \in Wanted : w.limit \in Nat

VARIABLES
  wanted,  \* CooldownRequest
  known,   \* CooldownState
  truth,   \* history: all the casts of the fight
  stage

packing == <<wanted, known, truth, stage>>

NoComparison ==
  [status |-> "unavailable", reason |-> "-", samples |-> <<>>, counted |-> 0, excluded |-> FALSE, frequency |-> <<>>]

NothingKnown ==
  [code |-> "-", lorrgs |-> NoCopy, fight |-> None, player |-> None, spec |-> None, boss |-> None,
   windows |-> <<>>, source |-> None, catalog |-> {}, tracked |-> {}, received |-> {}, casts |-> {},
   complete |-> FALSE, ranking |-> NoCopy, comparison |-> NoComparison]

PacketInit ==
  /\ wanted \in Wanted
  /\ known = NothingKnown
  /\ truth = {}
  /\ stage = "reference"

-----------------------------------------------------------------------------
(* Phase windows (cooldown_packet.py).                                     *)

Within(t, w) == w.from <= t /\ (w.to = Open \/ t < w.to)

(* The visits [at |-> ., id |-> .] before one of them, in time order, and  *)
(* the one that n - 1 are before.                                          *)
Earlier(v, visits) == {u \in visits \ {v} : u.at < v.at \/ (u.at = v.at /\ u.id < v.id)}
Nth(n, visits) == CHOOSE v \in visits : Cardinality(Earlier(v, visits)) = n - 1

(* The windows that the visits cut a fight into. *)
Cut(visits, length) ==
  [n \in 1..Cardinality(visits) |->
     [from |-> Nth(n, visits).at, to |-> IF n < Cardinality(visits) THEN Nth(n + 1, visits).at ELSE length,
      id |-> Nth(n, visits).id]]

(* build_phase_windows: Lorrgs leaves the pull out of its markers. *)
LorrgsWindows(markers, length) ==
  Cut({[at |-> t, id |-> None] : t \in {0} \cup {m \in markers : m > 0 /\ (length = Open \/ m < length)}}, length)

(* warcraftlogs_phase_windows. *)
WclWindows(visits, length) == Cut(visits, length)

Applied == wanted.phase \in DOMAIN known.windows
Selected == known.windows[wanted.phase]
Unlisted == known.lorrgs.why # "-"  \* lorrgs_unavailable

-----------------------------------------------------------------------------
(* The sequence of steps, each an await of a provider at most.             *)

Fail(code) ==
  /\ known' = [known EXCEPT !.code = code]
  /\ stage' = "failed"
  /\ UNCHANGED truth

Go(next, now) ==
  /\ known' = now
  /\ stage' = next
  /\ UNCHANGED truth

Resolve ==
  /\ stage = "reference"
  /\ \/ wanted.ref = "invalid" /\ Fail("invalid_report_ref")
     \/ wanted.ref = "no fight" /\ Fail("missing_fight")
     \/ wanted.ref = "fight" /\ Go("lorrgs", known)

AskLorrgs ==
  /\ stage = "lorrgs"
  /\ \E answer \in LorrgsFights :
       Go(IF answer.why = "-" THEN "player" ELSE "fight", [known EXCEPT !.lorrgs = answer])

(* _resolve_player: an id is looked up first, and names must be unique. *)
Meant(rows) ==
  IF wanted.by = "id" THEN {r \in rows : r.id = wanted.actor} ELSE {r \in rows : r.name = wanted.actor}

WhyNobody(rows) ==
  CASE wanted.by = "nothing" -> "missing_actor"
    [] Meant(rows) = {} -> IF wanted.by = "id" THEN "actor_id_not_found" ELSE "actor_name_not_found"
    [] wanted.by = "name" /\ Cardinality(Meant(rows)) > 1 -> "ambiguous_actor_name"
    [] OTHER -> "-"

(* lookup_spec: a spelling that several specs share takes the class's own. *)
SpecOf(spelling, class) ==
  LET specs == Spelling[spelling]
      own == IF Cardinality(specs) > 1 /\ class # None THEN {s \in specs : ClassOf[s] = class} ELSE specs
  IN  IF Cardinality(own) = 1 THEN CHOOSE s \in own : TRUE ELSE spelling

(* _require_spec_of_player_class. *)
Settle(now) ==
  LET spec == SpecOf(now.spec, now.player.class)
  IN  IF spec \in DOMAIN ClassOf /\ now.player.class \notin {None, ClassOf[spec]} THEN Fail("invalid_query")
      ELSE Go("phase", [now EXCEPT !.spec = spec])

Given(flag, found) == IF flag # None THEN flag ELSE found

PlayerOfLorrgs ==
  /\ stage = "player"
  /\ LET rows == known.lorrgs.players
     IN  IF WhyNobody(rows) # "-" THEN Fail(WhyNobody(rows))
         ELSE \E r \in Meant(rows) :
                IF r.id = None THEN Fail("actor_id_missing")
                ELSE IF Given(wanted.spec, r.spec) = None THEN Fail("spec_slug_missing")
                ELSE Settle([known EXCEPT !.player = r, !.spec = Given(wanted.spec, r.spec),
                                          !.boss = Given(wanted.boss, known.lorrgs.boss)])

(* _load_warcraftlogs_fight: before the roster without Lorrgs, else before the casts. *)
AskFight ==
  /\ stage = "fight"
  /\ \E fight \in WclFights :
       IF fight.why # "-" THEN Fail(fight.why)
       ELSE Go(IF Unlisted THEN "roster" ELSE "events", [known EXCEPT !.fight = fight])

PlayerOfWcl ==
  /\ stage = "roster"
  /\ \/ Fail("warcraftlogs_roster_failed")
     \/ \E rows \in Rosters :
          IF WhyNobody(rows) # "-" THEN Fail(WhyNobody(rows))
          ELSE \E r \in Meant(rows) :
                 IF Given(wanted.spec, r.spec) = None THEN Fail("spec_slug_missing")
                 ELSE Go("bosses", [known EXCEPT !.player = r, !.spec = Given(wanted.spec, r.spec)])

(* _boss_slug_of_encounter: a failed lookup leaves the fight without a boss. *)
AskBosses ==
  /\ stage = "bosses"
  /\ \/ wanted.boss # None /\ Settle([known EXCEPT !.boss = wanted.boss])
     \/ wanted.boss = None /\ \E boss \in {None, known.fight.boss} : Settle([known EXCEPT !.boss = boss])

InPhase(windows, source) ==
  IF wanted.phase \notin DOMAIN windows THEN Fail("phase_not_found")
  ELSE Go("spells", [known EXCEPT !.windows = windows, !.source = source])

SelectPhase ==
  /\ stage = "phase"
  /\ \/ ~Unlisted /\ InPhase(LorrgsWindows(known.lorrgs.markers, known.lorrgs.length), "lorrgs")
     \/ Unlisted /\ Go("spells", known)  \* the lookup failed, or the fight has no transitions
     \/ Unlisted /\ \E t \in Transitions : InPhase(WclWindows(t.visits, t.length), "warcraftlogs")

(* The names of the boss's spells are left out: they label what is counted. *)
LoadSpells ==
  /\ stage = "spells"
  /\ \E catalog \in Catalogs \cup {NoCopy} :
       LET listed == IF catalog = NoCopy THEN {} ELSE catalog
           tracked == IF wanted.spells # {} THEN wanted.spells ELSE listed
       IN  IF catalog = NoCopy /\ wanted.spells = {} THEN Fail("lorrgs_spec_spells_failed")
           ELSE IF tracked = {} THEN Fail("no_tracked_spells")
           ELSE Go(IF known.fight = None THEN "fight" ELSE "events",
                   [known EXCEPT !.catalog = listed, !.tracked = tracked])

Cast(e) == e.kind = "cast" /\ e.by = known.player.id  \* not a begincast, and nobody else's

(* received_aura_spell_ids: never with explicit --spell-id. *)
Received(page) ==
  IF wanted.spells # {} THEN {}
  ELSE {s \in known.tracked \cap External \cap known.catalog : \A e \in page : Cast(e) => e.spell # s}

LoadCasts ==
  /\ stage = "events"
  /\ \/ Fail("warcraftlogs_events_failed")
     \/ \E answer \in CastPages :
          LET tracked == known.tracked \ Received(answer.page)
          IN  /\ known' = [known EXCEPT !.received = Received(answer.page), !.tracked = tracked,
                                        !.casts = {e \in answer.page : Cast(e) /\ e.spell \in tracked},
                                        !.complete = ~answer.more /\ ~answer.warned]
              /\ truth' = answer.all
              /\ stage' = "ranking"

-----------------------------------------------------------------------------
(* The comparison with the top parses.                                     *)

(* _sample_fights: the analyzed fight and fights without players are passed over. *)
Eligible(f) == ~f.analyzed /\ f.player
Enough(i, ranking) == Cardinality({j \in 1..(i - 1) : Eligible(ranking[j])}) >= wanted.limit
Picked(ranking) == {i \in DOMAIN ranking : Eligible(ranking[i]) /\ ~Enough(i, ranking)}
Excluded(ranking) == \E i \in DOMAIN ranking : ranking[i].analyzed /\ ~Enough(i, ranking)

Window(w) == [window |-> w, why |-> "-"]
NoWindow(why) == [window |-> None, why |-> why]

(* _lorrgs_sample_window: a whole fight stands for a phase only when nothing shows there are several. *)
LorrgsSample(f, several) ==
  LET windows == LorrgsWindows(f.markers, f.length)
  IN  IF Len(windows) = 1 /\ several THEN NoWindow("top_parse_has_no_phase_markers")
      ELSE IF wanted.phase \in DOMAIN windows THEN Window(windows[wanted.phase])
      ELSE NoWindow("phase_not_in_top_parse")

\* Mutant: a window of the same number is enough.
SamePhaseByNumber(w) == TRUE

SamePhase(w) == w.id = Selected.id

(* _warcraftlogs_sample_window: of the same number, and the same phase of the encounter. *)
WclSample(f, read) ==
  LET windows == WclWindows(f.visits, f.length)
  IN  IF ~read \/ f.unread THEN NoWindow("top_parse_phase_lookup_failed")
      ELSE IF windows = <<>> THEN NoWindow("top_parse_has_no_phase_markers")
      ELSE IF wanted.phase \in DOMAIN windows /\ SamePhase(windows[wanted.phase]) THEN Window(windows[wanted.phase])
      ELSE NoWindow("phase_not_in_top_parse")

Sampled(f, place) ==
  [place |-> place, of |-> f, casts |-> IF place.window = None THEN {}
                                        ELSE {c \in f.casts : c.spell \in known.tracked /\ Within(c.at, place.window)}]

(* _record_sample_spells: of each spell, the samples that cast it and the casts. *)
CastsIn(samples, s) ==
  {x \in UNION {{i} \X samples[i].casts : i \in DOMAIN samples} : x[2].spell = s}
Frequency(samples) ==
  [s \in {s \in known.tracked : CastsIn(samples, s) # {}} |->
     [samples |-> Cardinality({i \in DOMAIN samples : \E c \in samples[i].casts : c.spell = s}),
      casts |-> Cardinality(CastsIn(samples, s))]]

(* top_parse_samples, then _comparison_disclosures. *)
WithTopParses(ranking, read) ==
  LET several == Len(known.windows) > 1 \/ \E i \in DOMAIN ranking : Len(LorrgsWindows(ranking[i].markers, ranking[i].length)) > 1
      Place(f) == IF known.source = "warcraftlogs" THEN WclSample(f, read) ELSE LorrgsSample(f, several)
      samples == [i \in Picked(ranking) |-> Sampled(ranking[i], Place(ranking[i]))]
      counted == Cardinality({i \in DOMAIN samples : samples[i].place.window # None})
      whys == {samples[i].place.why : i \in DOMAIN samples}
      status == IF DOMAIN samples = {} THEN "no_samples" ELSE IF counted = 0 THEN "no_phase_data"
                ELSE IF ~known.complete THEN "partial" ELSE "ready"
      reason == CASE status = "no_samples" -> "no_top_parse_samples"
                  [] status = "no_phase_data" -> IF Cardinality(whys) = 1 THEN CHOOSE y \in whys : TRUE ELSE "no_sample_has_phase"
                  [] status = "partial" -> "incomplete_player_casts"
                  [] OTHER -> "-"
  IN  [status |-> status, reason |-> reason, samples |-> samples, counted |-> counted,
       excluded |-> Excluded(ranking), frequency |-> Frequency(samples)]

(* _comparison_difficulty. *)
WhyNoRanking ==
  CASE wanted.limit = 0 -> "disabled_by_sample_limit"
    [] wanted.limit > 0 /\ known.boss = None -> "no_boss_slug"
    [] wanted.limit > 0 /\ known.boss # None /\ wanted.difficulty = None /\ ~known.fight.ranked -> "unranked_difficulty"
    [] OTHER -> "-"

EmitPacket(comparison) == Go("told", [known EXCEPT !.comparison = comparison, !.ranking = NoCopy])

AskRanking ==
  /\ stage = "ranking"
  /\ \/ WhyNoRanking # "-" /\ EmitPacket([NoComparison EXCEPT !.reason = WhyNoRanking])
     \/ WhyNoRanking = "-" /\ EmitPacket([NoComparison EXCEPT !.reason = "lorrgs_spec_ranking_failed"])
     \/ /\ WhyNoRanking = "-"
        /\ \E ranking \in Rankings :
             IF known.source = "warcraftlogs" THEN Go("sample phases", [known EXCEPT !.ranking = ranking])
             ELSE EmitPacket(WithTopParses(ranking, FALSE))

AskSamplePhases ==
  /\ stage = "sample phases"
  /\ \E read \in BOOLEAN : EmitPacket(WithTopParses(known.ranking, read))

PacketNext ==
  /\ UNCHANGED wanted
  /\ \/ Resolve \/ AskLorrgs \/ PlayerOfLorrgs \/ AskFight \/ PlayerOfWcl \/ AskBosses \/ SelectPhase
     \/ LoadSpells \/ LoadCasts \/ AskRanking \/ AskSamplePhases

PacketSpec == PacketInit /\ [][PacketNext]_packing

-----------------------------------------------------------------------------
(* What the packet says (_packet_payload, _notes).                         *)

InSelectedPhase == {e \in known.casts : Applied /\ Within(e.at, Selected)}

(* _phase_deaths: unknown without Lorrgs, never zero. *)
Deaths == IF Unlisted THEN None ELSE {t \in known.lorrgs.deaths[known.player.id] : Within(t, Selected)}

Notes ==
  {n \in {"received auras", "excluded fight", "some samples without the phase", "phase not applied",
          "no deaths", "truncated"} :
     CASE n = "received auras" -> known.received # {}
       [] n = "excluded fight" -> known.comparison.excluded
       [] n = "some samples without the phase" ->
            known.comparison.status \in {"ready", "partial"} /\ known.comparison.counted < Cardinality(DOMAIN known.comparison.samples)
       [] n = "phase not applied" -> Unlisted /\ ~Applied
       [] n = "no deaths" -> Deaths = None
       [] n = "truncated" -> ~known.complete}

-----------------------------------------------------------------------------
Told == stage = "told"
Counting == {i \in DOMAIN known.comparison.samples : known.comparison.samples[i].place.window # None}

(* What is called ready is what he did: every cast of a tracked spell that *)
(* he made in the fight is on his side, and what he is excused from having *)
(* cast, he did not cast, however the casts were paged.                    *)
HisCastsAreWhole ==
  Told /\ known.comparison.status = "ready" =>
    /\ \A e \in truth : Cast(e) /\ e.spell \in known.tracked => e \in known.casts
    /\ \A e \in truth : Cast(e) => e.spell \notin known.received

(* The samples are other players' fights, no more than were asked for, and *)
(* a sample counts by the phases of the service that cut the player's own  *)
(* fight: by Warcraft Logs, the same number of the same encounter phase.   *)
LikeWithLike ==
  Told =>
    /\ Cardinality(DOMAIN known.comparison.samples) <= wanted.limit
    /\ \A i \in DOMAIN known.comparison.samples : ~known.comparison.samples[i].of.analyzed
    /\ known.source = "warcraftlogs" =>
         \A i \in Counting :
           LET f == known.comparison.samples[i].of
               w == known.comparison.samples[i].place.window
           IN  /\ \E v \in f.visits : v.at = w.from /\ v.id = Selected.id
                                      /\ Cardinality(Earlier(v, f.visits)) = wanted.phase - 1
               /\ \A v \in f.visits : v.at > w.from => w.to # Open /\ v.at >= w.to
    /\ \A s \in DOMAIN known.comparison.frequency :
         /\ s \notin known.received
         /\ known.comparison.frequency[s].samples <= known.comparison.counted
         /\ known.comparison.frequency[s].casts =
              Cardinality({x \in UNION {{i} \X known.comparison.samples[i].of.casts : i \in Counting} :
                             x[2].spell = s /\ Within(x[2].at, known.comparison.samples[x[1]].place.window)})

(* The player is in the fight, is the one that was asked for, and is read  *)
(* as a spec of his own class.                                             *)
ThePlayerAskedFor ==
  Told =>
    /\ known.player \in (IF Unlisted THEN UNION Rosters ELSE known.lorrgs.players)
    /\ wanted.by = "id" => known.player.id = wanted.actor
    /\ wanted.by = "name" => known.player.name = wanted.actor
    /\ known.spec \in DOMAIN ClassOf /\ known.player.class # None => ClassOf[known.spec] = known.player.class

(* What a packet compares is whole, of like with like, and of the player  *)
(* who was asked for (cooldown_packet_flow.py).                           *)
PacketHolds == HisCastsAreWhole /\ LikeWithLike /\ ThePlayerAskedFor

(* _notes of a packet whose phase could not be applied: "every             *)
(* selected-phase section is empty".                                       *)
UnappliedIsEmpty ==
  Told /\ "phase not applied" \in Notes => InSelectedPhase = {} /\ known.comparison.frequency = <<>>

=============================================================================
