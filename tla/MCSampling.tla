---------------------------- MODULE MCSampling ------------------------------
(****************************************************************************)
(* The samples and searches of several services, each in a part of its own: *)
(* the kills of Warcraft Logs, the boards and the lookups of Raider.IO, the *)
(* searches of Wowhead, of the wiki, of Lorrgs and of Icy Veins.            *)
(****************************************************************************)
EXTENDS KillSampling, RaiderIo, WowheadSearch, WikiLookups, LorrgsSearch, IcySearch, TLC

-----------------------------------------------------------------------------
(* Either fights are only folded: every list of four whose windows chain, *)
(* overlap and bridge, with tolerances 1 and 2.  Or a cohort is sampled   *)
(* from pages of a listing of up to four, which log some of these.        *)
CONSTANTS k1, k2, k3, k4, g1, g2, r1, r2

MCWindow == {<<0, 9>>, <<1, 10>>, <<2, 11>>, <<4, 13>>, <<1, 12>>}
Kill(window, guild, roster) == [window |-> window, guild |-> guild, roster |-> roster]
MCReport == {k1, k2, k3, k4}
MCListed == <<k1, k2, k3>>
MCPlaysSpec == {r1}
MCKillsOf ==
  k1 :> <<Kill(<<0, 9>>, g1, Unknown), Kill(<<4, 13>>, g1, r1)>>
  @@ k2 :> <<Kill(<<1, 10>>, g1, r1)>>
  @@ k3 :> <<Kill(<<1, 10>>, NoGuild, r1)>>
  @@ k4 :> <<Kill(<<4, 13>>, g2, r2)>>

MCNext ==
  \/ /\ sample.stage = "idle" /\ changes = 0 /\ kept = {} /\ Next /\ UNCHANGED <<world, kept, sample>>
     /\ timed'[1].guild # g2 /\ timed'[1].roster # r2   \* no loss: while they fold, guilds and rosters are alike
  \/ (timed = <<>> \/ sample.stage # "idle") /\ SampleNext
MCSpec == SampleInit /\ [][MCNext]_<<folded, world, kept, sample>>

-----------------------------------------------------------------------------
CONSTANTS s1, s2, rd, a1, a2, a3, a4, p1, p2, p3

CONSTANTS us, na, ofGuild, tarren, mill, cotti

CONSTANTS fury, war, wars, two, aGuide, aQuest, links, comment, dnt, anItem

MCEntry == {a1, a2, a3, a4}
MCStart == s1 :> <<a1, a2>> @@ s2 :> <<a3>> @@ rd :> <<a1>>
MCLevelOf == a1 :> 12 @@ a2 :> None @@ a3 :> 11 @@ a4 :> 12
MCPlayersOf == a1 :> <<p1, p2>> @@ a2 :> <<p1, p3>> @@ a3 :> <<p2, None>> @@ a4 :> <<p3, None>>

Runs(board, first, pages, limit, above, with) ==
  [kind |-> "runs", board |-> board, first |-> first, pages |-> pages, limit |-> limit, above |-> above, with |-> with]
MCAsks ==
  {Runs(None, 0, None, 3, None, {}), Runs(s1, 0, 2, 4, 12, {}), Runs(s1, 1, None, 1, None, {p3}),
   Runs("unknown", 0, None, 1, None, {}),
   [Runs(rd, 0, None, 3, None, {}) EXCEPT !.kind = "raid"], [Runs("unknown", 0, None, 1, None, {}) EXCEPT !.kind = "raid"]}

\* A region, its alias, the hint "guild", a realm of two words and one of the first of them.
MCRegionOf == us :> us @@ na :> us @@ ofGuild :> Unnamed @@ tarren :> Unnamed @@ mill :> Unnamed @@ cotti :> Unnamed
MCHintOf == us :> Unnamed @@ na :> Unnamed @@ ofGuild :> "guild" @@ tarren :> Unnamed @@ mill :> Unnamed @@ cotti :> Unnamed
Named(kind, region, realm, name) == [kind |-> kind, region |-> region, realm |-> realm, name |-> name]
MCEntity ==
  {Named("character", us, <<tarren, mill>>, <<cotti>>), Named("guild", us, <<tarren, mill>>, <<cotti>>),
   Named("guild", us, <<tarren>>, <<mill, cotti>>), Named("guild", us, <<mill>>, <<cotti, ofGuild>>),
   Named("guild", Unnamed, <<>>, <<cotti>>), Named("character", us, <<mill>>, <<cotti, tarren>>)}
MCFirstThere == {Named("character", us, <<tarren, mill>>, <<cotti>>), Named("guild", Unnamed, <<>>, <<cotti>>)}
MCLookups ==
  [query : {<<us, tarren, mill, cotti>>, <<ofGuild, na, tarren, mill, cotti>>, <<cotti>>, <<us, mill, cotti>>,
            <<cotti, ofGuild>>, <<ofGuild>>, <<mill, cotti>>, <<>>},
   kind : {"all", "guild"}, limit : {1, 3}]

\* A plural, a number, words that name the types guide, quest and item, follow-up words.
MCTypesOf ==
  aGuide :> {"guide"} @@ aQuest :> {"quest"} @@ anItem :> {"item"} @@ [t \in {fury, war, wars, two, links, comment, dnt} |-> {}]
MCIntentOf ==
  links :> "relations" @@ comment :> "comments" @@ [t \in {fury, war, wars, two, aGuide, aQuest, anItem, dnt} |-> Nothing]
MCPluralOf == war :> wars @@ [t \in {fury, wars, two, links, comment, aGuide, aQuest, anItem, dnt} |-> Nothing]
MCTypeWord ==
  "guide" :> aGuide @@ "quest" :> aQuest @@ "item" :> anItem @@ [t \in {"news", "companion", Nothing} |-> Nothing]
Thing(type, name, display, updated) == [type |-> type, name |-> name, display |-> display, updated |-> updated]
MCReplies ==
  LET guideNow == Thing("guide", <<fury, war, aGuide>>, <<>>, 3)
      guideThen == Thing("guide", <<fury, war>>, <<>>, 1)
      guideUndated == Thing("guide", <<two, war>>, <<fury>>, Nothing)
      quest == Thing("quest", <<war, two>>, <<fury, war>>, Nothing)
      item == Thing("item", <<wars>>, <<>>, Nothing)
      itemLinks == Thing("item", <<war, links>>, <<>>, Nothing)
      post == Thing("news", <<fury, war, aGuide, links>>, <<>>, Nothing)
      brief == Thing("news", <<fury, war>>, <<>>, Nothing)
      late == Thing("guide", <<fury, war, two>>, <<>>, 1)
      hunt == Thing("quest", <<two, fury, war>>, <<>>, Nothing)
      fresh == Thing("guide", <<two, war, aGuide>>, <<>>, 3)
      pet == Thing("companion", <<war>>, <<>>, Nothing)
      test == Thing("item", <<fury, war, dnt>>, <<>>, Nothing)
      odd == Thing(Nothing, <<fury>>, <<>>, Nothing)
      lists == {<<>>, <<guideNow, guideThen>>, <<post, quest, guideThen>>, <<item, test, odd, pet>>,
                <<guideUndated, quest, itemLinks>>, <<brief, late, hunt>>}
      first == {<<hunt>>, <<quest>>, <<item, itemLinks>>, <<pet, quest, item>>}
      guides == {<<fresh>>, <<guideNow, guideThen>>, <<guideThen, guideUndated, guideNow>>}
  IN  [results : lists, database : first, guides : guides]
Text1(q, types) == [kind |-> "text", query |-> q, url |-> Nothing, types |-> types]
MCSearches ==
  {Text1(q, {}) : q \in {<<fury, war>>, <<war>>, <<fury, war, aGuide>>, <<war, links>>, <<fury, comment>>, <<war, aQuest>>,
                         <<fury, war, two, aGuide>>, <<war, two, anItem, links>>, <<>>, <<aGuide>>, <<dnt>>}}
  \cup {Text1(q, {"guide", "item"}) : q \in {<<fury, war>>, <<war>>, <<war, aQuest>>}}
  \cup [kind : {"url"}, query : {<<fury>>}, url : {"quest", "news", "guide", "companion", Nothing}, types : {{}, {"quest"}}]

-----------------------------------------------------------------------------
(* A small wiki: functions, a handler, an event, pages that share words.    *)
W(s) == <<s>>
Titled(title, colon, family, snippet, by) ==
  [title |-> title, colon |-> colon, family |-> family, snippet |-> snippet, by |-> by]
UnitHealth == <<"unit", "health">>
OnLogin == <<"on", "login">>
UiHandler == <<"ui", "handler">>

health == Titled(<<W("api"), UnitHealth>>, TRUE, "api_function", <<W("health")>>, 1)
healthMax == Titled(<<W("api"), <<"unit", "health", "max">>>>, TRUE, "api_function", <<W("unit"), W("hall")>>, 2)
healthOld == Titled(<<UnitHealth>>, FALSE, "general_article", <<W("legion")>>, 9)
login == Titled(<<W("event"), W("login")>>, TRUE, "event_reference", <<OnLogin>>, 4)
handler == Titled(<<UiHandler, OnLogin>>, FALSE, "ui_handler", <<W("login"), UnitHealth>>, 8)
hall == Titled(<<W("class"), W("hall")>>, FALSE, "system_reference", <<W("legion")>>, 3)
halls == Titled(<<W("hall")>>, FALSE, "general_article", <<W("class")>>, 5)
legion == Titled(<<W("wow"), W("legion")>>, TRUE, "expansion_reference", <<W("hall")>>, 7)
guideTo == Titled(<<W("legion"), W("guide")>>, FALSE, "guide_reference", <<>>, 6)

MCFamilyHints == {W("class"), W("guide")}
MCMashed == {UiHandler}
MCWow == W("wow")
MCWikiPage == {health, healthMax, healthOld, login, handler, hall, halls, legion, guideTo}
MCLeads ==
  {[title |-> p.title, colon |-> p.colon, page |-> p] : p \in MCWikiPage}
  \cup {[title |-> <<W("api"), UnitHealth>>, colon |-> FALSE, page |-> health],
        [title |-> <<W("login")>>, colon |-> FALSE, page |-> login],
        [title |-> <<W("api"), W("max")>>, colon |-> FALSE, page |-> healthOld],
        [title |-> healthMax.title, colon |-> TRUE, page |-> healthOld]}
MCFinds ==
  {<<>>, <<health, healthMax>>, <<healthMax, healthOld, health>>, <<handler, login>>, <<login, handler, healthMax>>,
   <<halls, hall, legion>>, <<legion, guideTo, halls>>, <<hall>>, <<healthMax>>, <<handler>>, <<guideTo, legion, hall>>}
MCIntents ==
  {[words |-> {W("api"), W("event"), W("handler")}, families |-> {"api_function", "ui_handler", "event_reference"}, points |-> 20],
   [words |-> {W("legion"), W("zone")}, families |-> {"system_reference"}, points |-> 18]}
MCBase == [f \in {"api_function", "ui_handler", "event_reference"} |-> 8] @@ [f \in {"system_reference", "expansion_reference"} |-> 4]
          @@ [f \in {"general_article", "guide_reference"} |-> 0]
MCSpaces ==
  [api |-> <<[word |-> W("api"), colon |-> TRUE], [word |-> W("api"), colon |-> FALSE]>>,
   event |-> <<[word |-> W("event"), colon |-> TRUE], [word |-> UiHandler, colon |-> FALSE]>>]
MCAllowed == [api |-> {"api_function", "framework_page"}, event |-> {"event_reference", "ui_handler", "framework_page"}]
MCWikis ==
  [kind : {"resolve"}, query : {<<W("class"), W("hall")>>, <<W("class")>>, <<W("legion")>>, <<UnitHealth>>, <<W("api"), UnitHealth>>,
                                <<W("login"), W("handler")>>, <<W("class"), W("legion"), W("hall")>>, <<>>, <<W("event")>>}]
  \cup [kind : {"api"}, query : {<<UnitHealth>>, <<W("max")>>, <<W("api"), UnitHealth>>, <<W("health"), W("max")>>, <<W("hall")>>, <<>>}]
  \cup [kind : {"event"}, query : {<<W("login")>>, <<W("login"), W("handler")>>, <<UiHandler, OnLogin>>, <<W("class"), W("login")>>}]

-----------------------------------------------------------------------------
(* Two specs called Frost, two bosses of one short name, a boss of a frosty one. *)
RosterRow(slug, full, short, class, head, by) ==
  [slug |-> slug, full |-> full, short |-> short, class |-> class, head |-> head, by |-> by]
Spec1(class, spec, by) == RosterRow({class, spec}, {spec, class}, {spec}, {class}, {}, by)
Boss1(full, short, head, by) == RosterRow(full, full, short, {}, head, by)

MCSpecLists ==
  {{Spec1("mage", "frost", 1), Spec1("dk", "frost", 2), Spec1("priest", "shadow", 4)},
   {Spec1("mage", "frost", 1), Spec1("priest", "shadow", 4)}, {}}
MCBossLists ==
  LET chimaerus == Boss1({"chimaerus", "the", "god"}, {"chimaerus"}, {"chimaerus"}, 8)
      salhadaar1 == Boss1({"fallen", "king", "salhadaar"}, {"salhadaar"}, {"fallen", "king", "salhadaar"}, 16)
      salhadaar2 == Boss1({"nexus", "king", "salhadaar"}, {"salhadaar"}, {"nexus", "king", "salhadaar"}, 32)
      sindragosa == Boss1({"sindragosa", "frost", "queen"}, {"sindragosa"}, {"sindragosa"}, 64)
  IN  {{chimaerus, salhadaar1, salhadaar2}, {chimaerus, sindragosa}, {}}
Asked(words) == [kind |-> "text", words |-> words, difficulty |-> "none", fight |-> FALSE]
MCQuestions ==
  {Asked(q) : q \in {<<"frost">>, <<"frost", "chimaerus">>, <<"heroic", "frost", "mage", "chimaerus">>, <<"mythic", "chimaerus">>,
                     <<"lfr", "mage", "god">>, <<"heroic", "chimaerus">>, <<"king", "salhadaar">>, <<"nexus", "king", "salhadaar">>,
                     <<"the", "chimaerus">>, <<"frost", "queen">>, <<"shadow">>, <<"priest">>, <<"frost", "mage", "guide">>,
                     <<"heroic", "mythic", "shadow">>, <<"top", "god">>, <<"the">>, <<"dk", "salhadaar">>}}
  \cup [kind : {"spec_ranking", "comp_ranking", "report"}, words : {<<>>}, difficulty : {"none", "heroic"}, fight : BOOLEAN]

-----------------------------------------------------------------------------
(* Two specs of two classes each, the spec of one class, a raid and its boss, *)
(* two seasons, a hub and its pages, and a raid guide that was renamed.       *)
FrostMage == <<"frost", "mage", "pve", "dps", "guide">>
FrostDk == <<"frost", "death", "knight", "pve", "dps", "guide">>
RestoDruid == <<"restoration", "druid", "pve", "healing", "guide">>
RestoShaman == <<"restoration", "shaman", "pve", "healing", "guide">>
Shadow == <<"shadow", "priest", "pve", "dps", "guide">>
ShadowTalents == <<"shadow", "priest", "pve", "dps", "spec", "builds", "talents">>
Mage == <<"mage", "guide">>
Abyss == <<"venomous", "abyss", "raid", "guide">>
OldAbyss == <<"abyss", "raid", "guide">>
Boss == <<"sszorak", "raid", "guide">>
Variant == <<"frost", "mage", "pve", "dps", "venomous", "abyss", "raid", "guide">>
Season1 == <<"midnight", "mythic", "season", "1", "guide">>
Season2 == <<"midnight", "mythic", "season", "2", "guide">>
Housing == <<"player", "housing", "guide">>
Interior == <<"player", "housing", "interior", "guide">>
Decor == <<"housing", "decor", "guide">>
Notes == <<"mage", "patch", "changes">>
Delve == <<"shadow", "enclave", "delve", "guide">>

MCFamilyOf ==
  FrostMage :> "spec_guide" @@ FrostDk :> "spec_guide" @@ RestoDruid :> "spec_guide" @@ RestoShaman :> "spec_guide"
  @@ Shadow :> "spec_guide" @@ ShadowTalents :> "spec_builds_talents" @@ Mage :> "class_hub" @@ Abyss :> "raid_guide"
  @@ OldAbyss :> "raid_guide" @@ Boss :> "raid_guide" @@ Variant :> "raid_guide" @@ Season1 :> "article_guide"
  @@ Season2 :> "article_guide" @@ Housing :> "article_guide" @@ Interior :> "article_guide" @@ Decor :> "article_guide"
  @@ Notes :> "none" @@ Delve :> "delve_guide"
MCAlphabet ==
  LET order == <<OldAbyss, Decor, FrostDk, FrostMage, Variant, Mage, Notes, Season1, Season2, Housing, Interior, RestoDruid,
                 RestoShaman, Delve, Shadow, ShadowTalents, Boss, Abyss>>
  IN  [s \in DOMAIN MCFamilyOf |-> CHOOSE i \in DOMAIN order : order[i] = s]

Dated(slug, lastmod) == [slug |-> slug, lastmod |-> lastmod]
Linked(slug, menu) == [slug |-> slug, menu |-> menu]
Indexed(slug, title, published, parent) ==
  [slug |-> slug, status |-> "ok", to |-> <<>>, title |-> title, published |-> published, parent |-> parent]
Renamed(slug, to) == [slug |-> slug, status |-> "redirect", to |-> to, title |-> <<>>, published |-> 0, parent |-> <<>>]

MCSitemaps ==
  LET specs == {Dated(FrostMage, 9), Dated(FrostDk, 9), Dated(RestoDruid, 9), Dated(RestoShaman, 2), Dated(Shadow, 8),
                Dated(ShadowTalents, 8), Dated(Mage, 9), Dated(Delve, 9)}
  IN  {specs \cup {Dated(OldAbyss, 8), Dated(Season1, 3), Dated(Housing, 9), Dated(Interior, 9)},
       (specs \ {Dated(FrostDk, 9)}) \cup {Dated(Variant, 8), Dated(Abyss, 8), Dated(Season1, 8)},
       {Dated(FrostMage, 20), Dated(RestoDruid, 20), Dated(RestoShaman, 20), Dated(Season1, 12), Dated(Season2, 20), Dated(Shadow, 20)}}
MCMenus ==
  {{Linked(Abyss, <<"venomous", "abyss">>), Linked(Season2, <<"mythic", "plus", "season", "2">>), Linked(FrostMage, <<"frost">>)},
   {Linked(Housing, <<"housing">>), Linked(FrostDk, <<"frost">>)}}
MCSiteIndexes ==
  LET boss == Indexed(Boss, <<"sszorak", "in", "the", "venomous", "abyss">>, 15, Abyss)
      abyss == Indexed(Abyss, <<"venomous", "abyss", "raid">>, 14, <<>>)
  IN  {{Renamed(OldAbyss, Abyss), abyss, boss, Indexed(Decor, <<"housing", "decor">>, 15, Housing), Indexed(Notes, <<"mage">>, 15, <<>>),
        Indexed(Interior, <<>>, 0, Housing), Indexed(Housing, <<"player", "housing">>, 12, <<>>)},
       {Renamed(OldAbyss, Abyss), Indexed(FrostDk, <<"frost", "death", "knight">>, 12, <<>>), boss, Indexed(Season2, <<>>, 15, <<>>)}}

Vocabulary == UNION {{s[i] : i \in DOMAIN s} : s \in DOMAIN MCFamilyOf} \cup
  {"in", "the", "plus", "talent", "spec", "decor", "heroic", "tips", "frost", "patch", "notes", "build", "route", "boss", "venom"}
MCSingularOf == [w \in Vocabulary |-> CASE w = "builds" -> "build" [] w = "talents" -> "talent" [] OTHER -> w]
MCBegins == [w \in Vocabulary |-> {w, MCSingularOf[w]}]
MCFamilyRules ==
  LET Rule(family, score, all, any, phrases) == [family |-> family, score |-> score, all |-> all, any |-> any, phrases |-> phrases]
  IN  {Rule("spec_builds_talents", 24, {}, {"build", "builds", "talent", "talents"}, {}), Rule("raid_guide", 18, {"raid"}, {}, {}),
       Rule("delve_guide", 18, {}, {"delve", "delves"}, {}), Rule("mythic_plus_tips", 18, {}, {}, {<<"mythic", "plus">>})}
MCScopeHints == {[all |-> {"patch", "notes"}, any |-> {}], [all |-> {}, any |-> {"hotfix", "hotfixes"}]}
MCClasses == {<<"mage">>, <<"death", "knight">>, <<"druid">>, <<"shaman">>, <<"priest">>}
MCIcyQueries ==
  {<<q>> : q \in {<<"frost">>, <<"frost", "mage">>, <<"frost", "dps">>, <<"restoration", "healing">>, <<"restoration", "druid">>,
                  <<"shadow">>, <<"shadow", "talents">>, <<"mage">>, <<"venomous", "abyss">>, <<"sszorak", "heroic", "tips">>,
                  <<"sszorak">>, <<"abyss", "raid">>, <<"mythic", "plus", "season", "2">>, <<"mythic", "plus", "season">>,
                  <<"player", "housing">>, <<"housing", "decor">>, <<"mage", "patch", "notes">>, <<"guide">>, <<"shadow", "delve">>,
                  <<"midnight", "mythic", "season", "1">>, <<"frost", "raid">>, <<"raid", "tips">>, <<"boss">>}}
  \cup {<<<<"venom", "abyss">>, <<"venomous", "abyss">>>>, <<<<"the", "abyss">>, <<"sszorak", "abyss">>>>}

-----------------------------------------------------------------------------
VARIABLE part
samples == <<folded, world, kept, sample>>
everything == <<part, samples, sampled, looked, suggested, wiki, lorrgs, icy>>

MCInit ==
  /\ part \in {"kills", "boards", "lookup", "suggest", "wiki", "lorrgs", "icy"}
  /\ SampleInit /\ BoardsInit /\ LookupInit /\ SuggestInit /\ WikiInit /\ LorrgsInit /\ IcyInit /\ (part # "boards" => current = s1)
MCSamplesNext ==
  /\ UNCHANGED part
  /\ \/ part = "kills" /\ MCNext /\ UNCHANGED <<sampled, looked, suggested, wiki, lorrgs, icy>>
     \/ part = "boards" /\ BoardsNext /\ UNCHANGED <<samples, looked, suggested, wiki, lorrgs, icy>>
     \/ part = "lookup" /\ LookupNext /\ UNCHANGED <<samples, sampled, suggested, wiki, lorrgs, icy>>
     \/ part = "suggest" /\ SuggestNext /\ UNCHANGED <<samples, sampled, looked, wiki, lorrgs, icy>>
     \/ part = "wiki" /\ WikiNext /\ UNCHANGED <<samples, sampled, looked, suggested, lorrgs, icy>>
     \/ part = "lorrgs" /\ LorrgsNext /\ UNCHANGED <<samples, sampled, looked, suggested, wiki, icy>>
     \/ part = "icy" /\ IcyNext /\ UNCHANGED <<samples, sampled, looked, suggested, wiki, lorrgs>>
MCSamplesSpec == MCInit /\ [][MCSamplesNext]_everything
=============================================================================
