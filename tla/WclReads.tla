----------------------------- MODULE WclReads -------------------------------
(****************************************************************************)
(* How a Warcraft Logs command reads (warcraftlogs_cli/client.py): which    *)
(* endpoint, whose token, which cache entry, what a partial answer does,    *)
(* and how long an answer is kept.  One terminal runs commands, each a plan *)
(* of reads and checks (the plans are at the end); another logs in and      *)
(* out; the report that is read is still being written, with pauses.        *)
(****************************************************************************)
EXTENDS Integers, Sequences, FiniteSets

CONSTANTS
  Plan,         \* the steps of each command
  Watch,        \* the reads whose cache entries are watched, for each command
  Account,      \* Warcraft Logs users
  SiteOf,       \* the site profile each user belongs to
  Site,         \* --site of the commands
  Client,       \* the public endpoint, as the owner of an answer
  LiveTTL, GuildTTL, StaticTTL, FinishedTTL, \* seconds of cache, in ticks
  CacheTTL,     \* the values given to graphql's --cache-ttl, in ticks
  Quiet,        \* LIVE_REPORT_QUIET_MS
  TokenLife,    \* expires_in of a user token
  MaxMoves,     \* bound: ticks, growths and logins together
  MaxTroubles,  \* bound: reads that go wrong and checks that refuse
  MaxCommands   \* bound: commands, one after the other

ASSUME ReadsAssumption ==
  /\ "-" \notin DOMAIN Plan
  /\ \A c \in DOMAIN Plan :
       /\ Plan[c] \in Seq([kind : {"need", "spare", "may", "probe", "spell", "check"}, read : STRING, slug : STRING])
       /\ Plan[c] # <<>>
  /\ \A c \in DOMAIN Plan : Watch[c] \subseteq {Plan[c][i].read : i \in DOMAIN Plan[c]}
  /\ SiteOf \in [Account -> STRING] /\ Client \notin Account
  /\ {LiveTTL, GuildTTL, StaticTTL, FinishedTTL, Quiet, TokenLife} \subseteq Nat \ {0}
  /\ LiveTTL <= FinishedTTL /\ CacheTTL \subseteq Nat
  /\ {MaxMoves, MaxTroubles, MaxCommands} \subseteq Nat

VARIABLES
  clock,    \* the time, in ticks
  grown,    \* when the report last grew, for each version of it
  login,    \* the saved auth state
  finishing,\* the site of an `auth login --code` that is exchanging its code
  moves,    \* how much has happened around the commands
  troubles, \* how much has gone wrong in them
  cache,    \* the live cache entries
  run       \* the present command

vars == <<clock, grown, login, finishing, moves, troubles, cache, run>>
others == <<clock, grown, login, finishing, moves>>

(* Steps of a plan: a read that must succeed, one whose failure is          *)
(* swallowed, one that is only made for some inputs, one whose answer is    *)
(* not shown, one spelling of a realm's name, and a check that may refuse.  *)
Need(read) == [kind |-> "need", read |-> read, slug |-> "-"]
Spare(read) == [kind |-> "spare", read |-> read, slug |-> "-"]
May(read) == [kind |-> "may", read |-> read, slug |-> "-"]
Probe(read) == [kind |-> "probe", read |-> read, slug |-> "-"]
Spell(read, slug) == [kind |-> "spell", read |-> read, slug |-> slug]
Check == [kind |-> "check", read |-> "-", slug |-> "-"]

-----------------------------------------------------------------------------
(* The auth state file.                                                     *)

Saved(kind, site, account, until) ==
  [kind |-> kind, site |-> site, account |-> account, until |-> until]
NoLogin == Saved("none", "-", Client, 0)

(* _has_user_token, and what _user_token accepts. *)
HasUserToken == login.kind = "user" /\ clock < login.until /\ login.site = Site

(* What happens around a command, each thing one move.  Bound: only before  *)
(* the read that is watched, and between the commands.                      *)
BeforeRead ==
  /\ run.command # "-"
  /\ run.count = MaxCommands => run.result = "-"
  /\ run.result = "-" => Plan[run.command][run.at].read = run.watch
Moves == BeforeRead /\ moves < MaxMoves /\ moves' = moves + 1

(* What goes wrong in a command.  Bound: up to the read that is watched, and *)
(* in all the checks and reads of the command that starts first.             *)
Trouble ==
  /\ troubles < MaxTroubles /\ troubles' = troubles + 1
  /\ run.count = MaxCommands => Plan[run.command][run.at].read = run.watch
Fine == UNCHANGED troubles

Sites == {SiteOf[a] : a \in Account}

ChangesLogin(new) ==
  /\ Moves /\ login' = new
  /\ UNCHANGED <<clock, grown, troubles, cache, run>>

(* `auth login`: the pending flow replaces whatever was saved. *)
BeginLogin(site) ==
  /\ ChangesLogin(Saved("pending", site, Client, 0))
  /\ UNCHANGED finishing

(* `auth login --code`: the callback is checked against the pending state   *)
(* that is loaded now; the exchange and the save come later.                *)
LoadPending(site) ==
  /\ finishing = "-" /\ login.site \in {"-", site}
  /\ BeforeRead /\ moves < MaxMoves
  /\ finishing' = site
  /\ UNCHANGED <<clock, grown, login, moves, troubles, cache, run>>

SaveToken(account) ==
  /\ finishing = SiteOf[account]
  /\ ChangesLogin(Saved("user", finishing, account, clock + TokenLife))
  /\ finishing' = "-"

ExchangeFails ==
  /\ finishing # "-" /\ finishing' = "-"
  /\ UNCHANGED <<clock, grown, login, moves, troubles, cache, run>>

Logout == ChangesLogin(NoLogin) /\ UNCHANGED finishing

-----------------------------------------------------------------------------
(* The world around the command.                                            *)

(* FileCacheStore.get takes an expired entry for a miss and removes it. *)
Tick ==
  /\ Moves /\ clock' = clock + 1
  /\ cache' = {e \in cache : clock + 1 < e.until}
  /\ UNCHANGED <<grown, login, finishing, troubles, run>>

(* The logger appends to the report, perhaps after a long pause.  (While an *)
(* endpoint is being chosen it makes no difference.)                        *)
Grow ==
  /\ Moves /\ run.via = "-"
  /\ grown' = Append(grown, clock)
  /\ UNCHANGED <<clock, login, finishing, troubles, cache, run>>

-----------------------------------------------------------------------------
(* Cache keys and lifetimes.                                                *)

\* Mutant: a user's answers are kept for whoever asks next.
KeyOfRead(owner, step) == [owner |-> Client, read |-> step.read, slug |-> step.slug]

Key(owner, step) == [owner |-> owner, read |-> step.read, slug |-> step.slug]

OfReport == {"report", "report_fights", "report_events", "report_table",
             "report_graph", "report_master_data", "report_player_details"}
OfGuild == {"guild", "guild_rankings", "guild_members", "guild_attendance",
            "character", "character_rankings", "encounter_rankings"}
Recomputed == {"report_rankings", "reports"}
Live == {"rate_limit", "current_user"}

(* use_cache: identity and points are only worth reading live, and a raw    *)
(* query is kept on request (--cache-ttl above 0), never for a user.        *)
Keeps(step, owner) ==
  step.read \notin Live /\ (step.read = "raw" => owner = Client /\ run.keep > 0)

Finished(absent) == ~absent /\ clock - grown[Len(grown)] >= Quiet

\* Mutant: a report's answers are kept long whether it is finished or not.
TTLWhateverState(step, absent) ==
  CASE step.read \in OfReport -> FinishedTTL
    [] step.read = "raw" -> run.keep
    [] step.read \in Recomputed -> LiveTTL
    [] step.read \in OfGuild -> GuildTTL
    [] OTHER -> StaticTTL

(* The resolver goes by the answer itself; a raw answer is kept for as long *)
(* as --cache-ttl says, whatever the report it is about.                    *)
TTL(step, absent) ==
  CASE step.read \in OfReport -> IF Finished(absent) THEN FinishedTTL ELSE LiveTTL
    [] step.read = "raw" -> run.keep
    [] step.read \in Recomputed -> LiveTTL
    [] step.read \in OfGuild -> GuildTTL
    [] OTHER -> StaticTTL

-----------------------------------------------------------------------------
(* The command.                                                             *)

(* What the last read has shown. *)
Nothing == [read |-> "-", owner |-> Client, of |-> Client, version |-> 0, asked |-> 0, when |-> 0,
            keep |-> 0]

Idle == [command |-> "-", count |-> 0, watch |-> "-", at |-> 0, policy |-> "-", keep |-> 0, refresh |-> FALSE,
         began |-> 0, via |-> "-", owner |-> Client, gap |-> FALSE, warned |-> FALSE,
         shown |-> Nothing, result |-> "-"]

Init ==
  /\ clock \in {0, Quiet} /\ grown = <<0>> /\ cache = {} /\ run = Idle
  /\ \/ login = NoLogin
     \/ \E a \in Account : SiteOf[a] = Site /\ login = Saved("user", Site, a, clock + TokenLife)
  /\ finishing = "-" /\ moves = 0 /\ troubles = 0

(* A command with its --endpoint and, for graphql, its --cache-ttl.         *)
(* Bounds: the later ones are the same command again, perhaps with          *)
(* --refresh or another --cache-ttl; of all its reads the entries of one    *)
(* are watched, and the others are always gone (cleared) by then.           *)
Start(command) ==
  /\ run.command = "-"
  /\ \E policy \in {"client", "user", "auto"}, watch \in Watch[command], keep \in CacheTTL :
       run' = [Idle EXCEPT !.command = command, !.count = 1, !.at = 1, !.watch = watch,
                           !.policy = policy, !.keep = keep]
  /\ Fine /\ UNCHANGED <<others, cache>>

StartAgain ==
  /\ run.result # "-" /\ run.count < MaxCommands
  /\ \E refresh \in BOOLEAN, keep \in CacheTTL :
       run' = [Idle EXCEPT !.command = run.command, !.count = run.count + 1, !.at = 1,
                           !.watch = run.watch, !.policy = run.policy, !.keep = keep, !.refresh = refresh,
                           !.began = IF refresh THEN clock ELSE 0]
  /\ Fine /\ UNCHANGED <<others, cache>>

Running == run.command # "-" /\ run.result = "-"
Step == Plan[run.command][run.at]

(* The command goes on, and after its last step it answers.  What a read  *)
(* has shown is looked at when it is shown.                               *)
Rested(r) == [r EXCEPT !.via = "-", !.owner = Client, !.shown = IF @ = run.shown THEN Nothing ELSE @]
Refuse(r) == [Rested(r) EXCEPT !.result = "failed"]
Answer(r) == [Rested(r) EXCEPT !.result = "done"]
Onward(r) ==
  IF r.at = Len(Plan[r.command]) THEN Answer(r) ELSE [Rested(r) EXCEPT !.at = @ + 1]

PassCheck ==
  /\ Running /\ Step.kind = "check"
  /\ \/ run' = Onward(run) /\ Fine
     \/ run' = Refuse(run) /\ Trouble
  /\ UNCHANGED <<others, cache>>

(* Some reads depend on the input or on what was read before. *)
Skip ==
  /\ Running /\ Step.kind \in {"may", "spare", "probe"} /\ run.via = "-"
  /\ run' = Onward(run)
  /\ Fine /\ UNCHANGED <<others, cache>>

(* _graphql and raw_graphql: only `auto` has to look for a saved token. *)
Forced ==
  CASE Step.read = "rate_limit" -> "client"
    [] Step.read = "current_user" -> "user"
    [] OTHER -> run.policy

ChooseEndpoint ==
  /\ Running /\ Step.kind # "check" /\ Forced = "auto" /\ run.via = "-"
  /\ run' = [run EXCEPT !.via = IF HasUserToken THEN "user" ELSE "client"]
  /\ Fine /\ UNCHANGED <<others, cache>>

Via == IF Forced = "auto" THEN run.via ELSE Forced

(* What the failure of a read means to the command. *)
AfterFailure(r) == IF Step.kind \in {"spare", "probe"} THEN Onward(r) ELSE Refuse(r)
AfterMissing(r) ==
  IF Step.kind = "spell" /\ r.at < Len(Plan[r.command]) THEN Onward(r) ELSE AfterFailure(r)

(* _realm_lookup ends with the first spelling that finds the entity. *)
AfterFound(r) == IF Step.kind = "spell" THEN Answer(r) ELSE Onward(r)

(* _user_token loads the file again; without a good token the read fails. *)
TakeToken ==
  /\ Running /\ Step.kind # "check" /\ Via = "user" /\ run.owner = Client
  /\ run' = IF HasUserToken THEN [run EXCEPT !.owner = login.account] ELSE AfterFailure(run)
  /\ Fine /\ UNCHANGED <<others, cache>>

Ready ==
  /\ Running /\ Step.kind # "check"
  /\ Via = "client" \/ (Via = "user" /\ run.owner # Client)

Cached == {e \in cache : e.key = Key(run.owner, Step)}
MayReplay == Keeps(Step, run.owner) /\ ~run.refresh /\ Cached # {}

Shows(r, e) ==
  [r EXCEPT !.shown = [read |-> Step.read, owner |-> r.owner, of |-> e.of,
                       version |-> e.version, asked |-> e.asked, when |-> clock, keep |-> e.keep],
            !.gap = @ \/ (e.gap /\ Step.kind # "probe")]

Replay ==
  /\ Ready /\ MayReplay
  /\ \E e \in Cached :
       run' = IF e.absent THEN AfterMissing(run) ELSE AfterFound(Shows(run, e))
  /\ Fine /\ UNCHANGED <<others, cache>>

\* Mutant: an answer with errors in it is kept like any other.
KeepsAny(e) == Keeps(Step, run.owner)

(* _write_cache: an answer with errors in it is not kept. *)
KeepsAnswer(e) == Keeps(Step, run.owner) /\ ~e.gap

Stored(e) == IF KeepsAnswer(e) /\ e.key.read = run.watch THEN {x \in cache : x.key # e.key} \cup {e} ELSE cache

(* The answer is read, judged and kept at one time.  (Which --cache-ttl it  *)
(* was kept with is a history of the model.)                                *)
Ask(gap, absent) ==
  LET entry == [key |-> Key(run.owner, Step), of |-> run.owner, version |-> Len(grown),
                asked |-> clock, until |-> clock + TTL(Step, absent), keep |-> run.keep,
                gap |-> gap, absent |-> absent]
      r == [run EXCEPT !.warned = @ \/ gap]
  IN /\ Ready /\ ~MayReplay
     /\ cache' = Stored(entry)
     /\ run' = IF absent THEN AfterMissing(r) ELSE AfterFound(Shows(r, entry))
     /\ IF gap \/ absent THEN Trouble ELSE Fine
     /\ UNCHANGED others

(* Errors and no useful data. *)
AskFails ==
  /\ Ready /\ ~MayReplay
  /\ run' \in {AfterFailure(run), AfterMissing(run)}
  /\ Trouble /\ UNCHANGED <<others, cache>>

Reader ==
  \/ \E command \in DOMAIN Plan : Start(command)
  \/ StartAgain \/ PassCheck \/ Skip \/ ChooseEndpoint \/ TakeToken \/ Replay \/ AskFails
  \/ Ask(FALSE, FALSE) \/ Ask(TRUE, FALSE) \/ Ask(FALSE, TRUE)

(* Bound: while a command uses the login file. *)
LoginCommands ==
  /\ run.policy # "client"
  /\ \/ \E site \in Sites : BeginLogin(site) \/ LoadPending(site)
     \/ \E account \in Account : SaveToken(account)
     \/ ExchangeFails \/ Logout

Next == Reader \/ LoginCommands \/ Tick \/ Grow

Spec == Init /\ [][Next]_vars

-----------------------------------------------------------------------------
(* Properties.                                                              *)

Owners == Account \cup {Client}

TypeOK ==
  /\ clock \in 0..(Quiet + MaxMoves) /\ moves \in 0..MaxMoves /\ troubles \in 0..MaxTroubles
  /\ grown \in Seq(Nat) /\ grown # <<>>
  /\ login.kind \in {"none", "pending", "user"} /\ login.account \in Owners
  /\ finishing \in Sites \cup {"-"}
  /\ \A e \in cache : clock < e.until /\ e.of \in Owners /\ e.version \in 1..Len(grown)
  /\ run.at \in 0..10 /\ run.result \in {"-", "done", "failed"}
  /\ \A e, f \in cache : e.key = f.key => e = f

(* "The cache entry must belong to the token that fetched it and never to   *)
(* whoever is logged in": what a command shows was fetched for the account  *)
(* (or the public endpoint) whose answer it asked for, on its own site,     *)
(* however logins and logouts fall between its steps.                       *)
NoForeignReplay ==
  /\ run.shown.of = run.shown.owner
  /\ run.shown.owner # Client => SiteOf[run.shown.owner] = Site

(* An answer that is put together from a partial one says so, also when it  *)
(* was read by an earlier command.                                          *)
GapsAreTold == run.result = "done" /\ run.gap => run.warned

(* docs/warcraftlogs/CACHING.md: a report that is still being written is    *)
(* never shown LiveTTL or more behind; only one that had been quiet may be, *)
(* once its logger goes on, for FinishedTTL at most, and rankings never are;*)
(* --refresh shows nothing older than the command.  A raw answer may lag as *)
(* far as the --cache-ttl of the very graphql command that fetched it, not  *)
(* of the one that shows it, allowed (docs/warcraftlogs/SCOPING.md:137), and *)
(* without one it is never behind.                                          *)
NeverFarBehind ==
  LET s == run.shown
      missed == grown[s.version + 1]
      resumed == missed - grown[s.version] >= Quiet
  IN s # Nothing =>
       /\ run.refresh => s.asked >= run.began
       /\ s.read \in OfReport \cup Recomputed \cup Live \cup {"raw"} /\ s.version < Len(grown)
          => \/ s.when <= missed
             \/ s.when - missed < IF s.read = "raw" THEN s.keep ELSE LiveTTL
             \/ s.read \in OfReport /\ resumed /\ s.when - missed < FinishedTTL

-----------------------------------------------------------------------------
(**************************************************************************)
(* The commands of warcraftlogs_cli/main.py as plans of reads: what each  *)
(* reads, in which order, where it can refuse, and which failures it      *)
(* swallows.  What it makes of the answers is left out.                   *)
(**************************************************************************)
(* A realm-scoped lookup tries the spellings of the realm's name; a name in *)
(* another script is looked up in the region's list and tried once more.    *)
Realm(read) == <<Check, Spell(read, "hyphens"), Spell(read, "joined")>>
NativeRealm(read) ==
  <<Check, Spell(read, "hyphens"), Need("regions"), Check, Need("region_servers"),
    Check, Spell(read, "listed")>>

(* _resolve_encounter_scope: reference, report, fight; the encounter's name *)
(* is welcome and not required.                                             *)
EncounterScope ==
  <<Check, Need("report"), Need("report_fights"), Check, Spare("encounter")>>

(* _resolve_encounter: the zone's encounter by id or name, then its details. *)
ZoneEncounter == <<Need("zone"), Check, Need("encounter"), Check>>

(* _require_matching_fight and selected_fights: only for a fight scope. *)
MatchingFight == <<Check, May("report_fights"), Check>>

(* Probes that only tell whether an endpoint answers. *)
auth_status == <<Probe("rate_limit"), Probe("current_user")>>
auth_whoami == <<Need("current_user")>>
rate_limit == <<Need("rate_limit")>>
regions == <<Need("regions")>>
expansions == <<Need("expansions")>>
server == Realm("server")
zones == <<Need("zones"), May("expansions"), Check>>
zone == <<Need("zone")>>
encounter == <<Need("encounter")>>
encounter_rankings ==
  <<Check>> \o ZoneEncounter \o <<Need("encounter_rankings"), Check>>
guild == Realm("guild")
guild_native == NativeRealm("guild")
guild_rankings == Realm("guild_rankings")
guild_members == Realm("guild_members")
guild_attendance == Realm("guild_attendance")
character == Realm("character")
character_native == NativeRealm("character")
character_rankings == Realm("character_rankings")
report == <<Need("report")>>
reports == <<Check, Need("reports")>>
guild_reports == Realm("reports")
report_encounter == EncounterScope
report_encounter_players ==
  EncounterScope \o <<Need("report_player_details")>>
report_player_talents ==
  EncounterScope \o <<Need("report_player_details"), Check>>
report_encounter_casts ==
  EncounterScope \o <<Check, Need("report_events"), Need("report_master_data")>>
report_encounter_buffs ==
  EncounterScope \o <<Check, Need("report_table"), Need("report_master_data")>>
report_encounter_aura_summary ==
  EncounterScope \o <<Check, Need("report_table"), Need("report_master_data")>>
(* The two windows are two requests with keys of their own. *)
report_encounter_aura_compare ==
  <<Check>> \o EncounterScope
    \o <<Check, Need("report_table"), [Need("report_table") EXCEPT !.slug = "right"],
         Need("report_master_data")>>
report_encounter_damage_summary ==
  EncounterScope \o <<Check, Need("report_table"), Need("report_master_data")>>
report_encounter_damage_breakdown ==
  EncounterScope \o <<Check, Need("report_table")>>
report_fights == <<Check, Need("report_fights")>>
graphql == <<Check, Need("raw")>>
report_events == <<Check>> \o MatchingFight \o <<Need("report_events")>>
report_table == <<Check>> \o MatchingFight \o <<Need("report_table")>>
report_graph == <<Check>> \o MatchingFight \o <<Need("report_graph")>>
report_master_data == <<Need("report_master_data")>>
report_player_details ==
  <<Check>> \o MatchingFight \o <<Need("report_player_details"), Check>>
(* In raid fights healers are ranked by another metric, in a second request. *)
report_rankings ==
  MatchingFight
    \o <<Need("report_rankings"), [May("report_rankings") EXCEPT !.slug = "healers"]>>
=============================================================================
