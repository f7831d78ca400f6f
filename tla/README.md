# Verification of warcraft_cli

TLA+ models of the parts of this repository whose correctness depends on
order, time, failure, sharing or on many cases that meet, the TLC runs that
check them on small instances, and TLAPS proofs of what matters most for
every instance.

The repository is a monorepo of command-line tools for World of Warcraft
data: a wrapper (`warcraft`) that asks many providers at once, a dozen
provider CLIs (Warcraft Logs, Wowhead, Icy Veins, Raider.IO, Lorrgs, Warcraft
Wiki, Blizzard API, SimulationCraft, ...), and the packages they share (HTTP
pacing and retries, response caches, credentials, a site crawler, article
bundles). Every command is a process of its own that ends when its answer is
printed. What outlives it is on disk (site indexes, response caches, token
state, bundles, a checkout) or in Redis, and other commands may be using it
at the same time. Inside a command the wrapper and some providers run
threads.

Contents

1. The system: parts, state, interactions, hard behaviours
2. The modules, and how they correspond to the code
3. The runs: what each checks and shows, bounds, fairness
4. Disagreements between code and documents
5. What is proved, and how
6. What is only model-checked, and what is not modelled
7. The plan

All paths below are relative to `src/packages/`.

## 1. The system

### Parts

| Part | Code | State it keeps | Operations |
| --- | --- | --- | --- |
| Site crawler | `warcraft-content/.../site_crawler.py` | queue, revisits, seen and done sets, streak of failures, request count (for one run) | `crawl`: fetch next, discover, stop, put back |
| Icy Veins index | `icy-veins-cli/.../provider.py`, `site_index.py` | the site index on disk: rows, frontier, `refreshed_at` | `index_refresh`: load, crawl, merge, save; searches read it |
| Response cache | `warcraft-api/.../cache.py` | a file per key, or a Redis key; the process-wide Redis breaker | `get`, `set`, `clear_file_cache` |
| HTTP requests | `warcraft-api/.../http.py` | next allowed start per host (process-wide, locked) | `HostRateLimiter.wait`, `request_with_retries` |
| Tokens | `warcraft-api/.../client_credentials.py`, `warcraft-core/.../auth.py`, the clients' `_token` | a token and its expiry, in memory and in one file per provider | load, fetch, save; every authenticated request |
| Wrapper fan-out and resolve | `warcraft-cli/.../main.py`, `providers.py`, `provider_calls.py`, `provider_contract.py`, `warcraft-core/.../cache_ledger.py` | a ledger per provider call and one per command | `search`, `resolve`, passthrough, composites |
| Merged page | `warcraft-cli/.../provider_contract.py` | none between commands | interleave, cap, defer, promote, cut |
| Wrapper comparisons | `warcraft-cli/.../cooldown_packet_flow.py`, `cooldown_packet.py`, `guide_compare.py` | bundles and a manifest under a root | `cooldown-packet`, `guide-compare-query`, `guide-builds-simc` |
| Warcraft Logs client and commands | `warcraftlogs-cli/.../client.py`, `main.py`, `*_payloads.py` | login state, pending login, account-scoped cache | two-step login, logout, endpoint policy, each command's reads |
| Warcraft Logs sampling | `warcraftlogs-cli/.../boss_kills.py`, `sampling_utils.py` | none | page a listing, scan reports, fold logs of one pull, filter, read more |
| Warcraft Logs event export | `warcraftlogs-cli/.../event_export.py` | events, revisions, warnings, cursor (for one export) | `collect_events`, continuation, artifact |
| Bundles | `warcraft-content/.../article_bundle.py`, `wowhead-cli/.../guide_services.py`, `guides.py`, `main.py` | bundle directories, an index over them, cached entities | export, refresh, rebuild the index, inspect, query |
| Searches | `wowhead-cli/.../ranking.py`, `lorrgs-cli/.../search.py`, `icy-veins-cli/.../search.py`, `warcraft-wiki-cli/.../search.py`, `raiderio-cli/.../candidates.py` | none | merge, score, order; open a row or not |
| Leaderboards | `raiderio-cli/.../analytics.py`, `raids.py` | none | page, sample, summarise |
| SimulationCraft | `simc-cli/.../repo.py`, `run.py`, `build_input.py`, `build_services.py`, `main.py`, `warcraft-core/.../talent_transport.py` | a git checkout, a built binary, profile files | sync, build; identify, decode, modify, apply, validate, simulate |
| Action priority lists | `simc-cli/.../apl.py`, `prune.py`, `branch.py`, `compare.py` | none | parse, judge conditions, trace, compare variants |
| Page parsers, payload shaping, plumbing | the rest | none | pure functions |

### How they interact

A provider command builds a client; the client asks its cache store first and
otherwise sends the request through `request_with_retries`, which asks the
host's limiter for a start slot before each attempt. Authenticated clients get
a token before the request. Cache lookups are recorded in the current ledger.
`index_refresh` calls the crawler with a fetch that goes through the same
client. The wrapper runs each provider's command in a thread, under a ledger
of its own, merges the ledgers when the calls end, interleaves their rows into
one page and prints one envelope; `resolve` ranks what the providers resolved.
`cooldown-packet` reads Lorrgs and Warcraft Logs about one fight;
`guide-compare-query` has each provider export a bundle and hands the builds
in them to simc; talent packets travel between a provider, a file and simc.

Shared between threads of a process: the host limiter, the Redis breaker, the
ledger being merged into. Shared between processes: cache files, the site
index, the token file, login state, bundle directories and their index, the
checkout and its binary. There are no locks between processes; what protects
a file is at most an atomic replace.

### What is hard, and what correctness means

| Part | Hard behaviour | Correct means |
| --- | --- | --- |
| Site crawler | blocks, outages and redirects in any order; stopping half way; old pages competing with new ones | polite, nothing fetched twice, nothing forgotten, breadth first, ends |
| Index refresh | two refreshes at once, killed anywhere | no row, history or discovered page is lost; the age is honest |
| Response cache | readers, writers and clearers between each other's file operations | a hit is current, live and whole |
| HTTP requests | threads that reserve, sleep and wake late; retries with Retry-After | starts are spaced, waits are kept and bounded, calls end |
| Tokens | in-place writes by several processes, kills, expiry during retries | the right token, alive; a broken file costs a fetch |
| Fan-out | failures, ends and lookups in any order over shared ledger and breaker | honest provenance, outages are reported, one wait per provider |
| Resolve and game scope | providers that know one version of the game, several or none; scores from differing scales | the best resolved answer leads, nothing of another game is read |
| Merged page | caps, deferral, promotion, a reserved slot | no list reordered, none crowded out, what was asked for first |
| Comparisons | two services that number phases differently, either missing the fight; runs over one root that overlap or are killed | like is compared with like; the root names whole, current bundles |
| Warcraft Logs reads | logins and logouts between reads, partial answers, a report still being written | the account's own answer, its gaps told, not too far behind |
| Sampling | a listing that moves while it is paged, several logs of one pull, details that name nobody | every kill once, no holes unsaid, two rosters never one pull |
| Event export | page cursors, cut pages, re-exported reports | resuming loses and repeats nothing; only whole evidence is complete |
| Bundles | files written one by one over older ones, kills between and in writes | found, in order, and vouched for by what was written together |
| Searches | ties, near ties, stale rows, names that several things share, throttled lookups | what is opened has no rival as good |
| Simc builds | a checkout that moves on while commands run; swaps and edits that exclude each other | answers are of the build asked for; staleness told; the user's files kept |
| Action priority lists | unknown ranks, open ends of ranges, lists that call in circles | no verdict that a fight can refute; what SimC runs is in the trace |

`PROJECT.json` lists the hazards at the line where each bites, with the
properties that cover it.

## 2. The modules

`PROJECT.json` maps the definitions to the lines they model; those that only
name values, shapes or steps of the model itself have none. Mutants (marked
in the modules) are plausible bugs of the code: each property is refuted when
one of them takes the place of the definition it varies. A module's own
comment says what its state and actions are; this is the map.

### Reading sites

**SiteCrawler** — `crawl()`. One action per iteration of the loop, because
the walk is one thread and shares nothing while it runs: `Finish`,
`CapReached`, and one action per kind of answer (`FetchBlocked`, `FetchDown`,
`FetchNoPage`, `FetchBareSeed`, `FetchPage`). What the site answers, where it
redirects and which links a page holds are nondeterministic; everything the
walk decides from it is modelled. `log` is a history variable. Sets the code
iterates in insertion order are listed in every order.
**PoliteCrawl** is the promise a crawl makes to provider and site, whatever
its order; SiteCrawler implements it (`ImplementsPromise`). **CrawlContract**
is the relation between a crawl's arguments and its result: SiteCrawler is
checked to keep it (`KeepsContract`), IndexRefresh relies on it.

**IndexRefresh** — `index_refresh`: `Load`, `Crawl` (any result the contract
allows), `Save` (merge and atomic write), `Die` between any two of them, and
`Midnight`. A row is keyed by address, because slug and address name each
other. Several processes may run it; nothing in the code locks the index.

**HttpRequests** — the limiter and `request_with_retries` for threads that
share hosts. Time is counted down (every clock is relative to now), so the
state space is finite without a bound on time; a sleeping thread may wake up
to `MaxLate` ticks late.

**TokenCache** — `ClientTokenCache`, `save_provider_auth_state`, `_token` and
the requests that use the token, by processes that share the state file and
can be killed. The write is two steps, because the file is opened with
O_TRUNC and then written; two writers can leave a mixture when the second
entry is the shorter one. The code's local steps take no time: the clock
ticks while requests and pauses are under way. A process has one key (its
site and credentials).

### What is kept on disk

**FileCache** — one key of a `FileCacheStore`, call by call: a get is exists,
read_text, stat, deadline check and perhaps unlink; a set computes the
deadline, writes a temporary file of its own and replaces the entry; a clear
lists and then unlinks. `past` holds the history the properties speak of.

**EventExport** — `collect_events` with its stops, and the reader of the
exports, who resumes as `docs/warcraftlogs/SCOPING.md` tells. Warcraft Logs
is external: a page holds the events from its start to its next cursor, of
one of the report's revisions.

**GuideBundles** — guide-export, guide-bundle-refresh, -index-rebuild,
-inspect and guide-query over shared directories. A command writes the lists
of a bundle and then its manifest, and rewrites the index; it can be killed
between two writes or in one. Entities are cached with a lifetime, so a
bundle can be fresh while what it hydrates is not.

### The wrapper

**FanOut** — `warcraft search`: `Begin`, cache lookups in files
(`LookUpFile`) or Redis (`AskRedis`, then `RedisAnswers` or `RedisFails`;
`SkipRedis` when the breaker is open), `Return`, `Close` (the merge under the
parent ledger's lock) and `Emit`. The gap between `AskRedis` and the answer
is what lets several threads find Redis down at once.

**MergedPage** — `merged_search_page`: the lists are interleaved row by row
(`Interleave`), considered for the page one by one (`Take`, `Defer`,
`PassOver`) and put together (`Compose`). A page is a set of positions of
the interleaved list, because the code sorts the chosen rows by position.
A row is its provider, its score and what the page looks at: whether the
query names it, whether it is off-intent, whether it is an exact profile.

**Discovery** — which providers a search, a resolve, a passthrough and a
composite read, of which version of the game (exclusions, pins, profiles),
and how `resolve` ranks what they answer. The providers are asked in one step
here; FanOut and MergedPage say how. A reference among the arguments may name
a game of its own (`refers`, a URL or a `classic/...` path). Wowhead adopts it
unless a game is selected; then an entity is read in the selected game, and a
guide, a post, a blue topic, a calculator or an exported guide as the
reference says (`surface`). Warcraft Logs refuses a report of another site.
Which page Wowhead serves for a guide or a post is its own choice (`Served`).

**CooldownPacket** — `cooldown-packet`: read by read, from the reference and
the flags to the comparison with the top parses, with every answer of Lorrgs
and of Warcraft Logs, also that there is none. `truth` is what happened in
the fight, which the command never sees whole.

**GuideCompare** — `guide-compare-query` and `guide-builds-simc`: find one
guide per provider, reuse or export its bundle, compare, write the manifest,
hand builds over. Commands over one root overlap, wait and are killed, and
other commands may write to a bundle.

### Warcraft Logs

**WclReads** — how a command reads: endpoint policy, whose token, the
account-scoped cache, lifetimes by the report's finish state, partial and
missing answers. A command is a plan, a sequence of reads and checks; the
plans of 36 commands are translated at the end of the module. One terminal
runs commands, another logs in and out, the report grows and pauses.

**PullClusters** — `deduplicate_pulls` for the fights of one encounter,
difficulty, size and key level: `timed` is the list so far in sort order, and
each step takes the next fight and folds it by guild (`FoldByGuild`), by
players (`FoldByRoster`), or keeps it as a pull of its own (`KeepApart`). A
pull is named by its first fight. Rosters are values, `Unknown` stands for
details that name nobody.

**KillSampling** — the cohort the sampling commands start from: pages of a
listing that puts the latest report first and moves while it is read, partly
from cache; the scan of reports, the folding, the filters, the further reads.

### Searches and boards

**WowheadSearch** merges overlapping lists of suggestions, scores, orders and
decides whether resolve opens the first. **WikiLookups** is the wiki's
search, resolve and typed lookups, whose requests can be throttled or fail.
**LorrgsSearch** matches words against two rosters. **IcySearch** ranks the
sitemap's guides, and menu and index rows once the sitemap is stale.
**RaiderIo** reads leaderboards page by page while runs enter and a season
ends, and resolves names by splitting a query into realm and name. Words are
model values, strings or sequences of parts: what is abstracted is how text
is cut into words, never what is decided from them.

### SimulationCraft

**SimcBuilds** — whose build a text is, what it holds and builds made from
builds, each run of the binary a step, while another terminal syncs, configures,
compiles, links or breaks off (the workspace is part of the module). A talent
has a tree, a hero tree if it is of one, and a choice node, of which SimC
keeps one entry; a tiered node has several entries that may all be ranked, and
comes back from SimC lost or spread in another way (`Misreadings`); and SimC
grants keystones of hero trees, taken or not. **TalentPackets** — packets
taken from a file or a provider, validated by a round trip through simc,
described: rows of two hero trees are refused, selection rows included, and
what comes back of a hero tree that no row is of is let pass (`Granted`).
**AplLists** parses lists line by line, traces what runs through calls and
dispatches, and follows the focus. **AplConditions** is the parser of
conditions: it evaluates as it reads, and every expression becomes a range;
beside each range the module keeps the value the expression takes in some
fight. Its second part writes, checks and simulates the variants of a
comparison, whose files may be one.

The MC modules give values to the constants and put the parts together:
`MCLocalFiles` what is on disk, `MCWrapper` the wrapper, `MCRequests`
requests and tokens, `MCSampling` samples and searches, `MCWclCommands` the
Warcraft Logs commands, `MCSimc` the simc commands. Each starts one part and
runs it alone, the others idle: the parts share no variables, so nothing is
lost, and one run answers for all of them.

## 3. The runs

| Run | Instance | Checks |
| --- | --- | --- |
| SiteCrawler | five pages, seeds, links, redirects, two pages held by the index, 4 requests, 3 failures | `Courteous`, `ResultHolds`, `Terminates`, `ImplementsPromise` |
| LocalFiles | a site of three pages, one refresher, three days; a cache entry, a reader, two writers, a clearer; a fight in two revisions, exports of 2 pages, 3 exports; two guides, two tabs, three commands | `NoPageLost`, `AgesHold`; `HitsHold`; `ExportsHold`; `BundlesHold` |
| Requests | three threads, two on one host, interval 2, lateness 1, 2 attempts; or two commands on different sites | `StartsSpaced`, `RetryAfterKept`, `CallsEnd`; `TokenFitsRequest`, `InTime`, `CommandsEnd` |
| Wrapper | three providers in files and Redis; pages of 1 and 4; five providers to resolve by; one packet; three comparisons over one root | `CacheClaimsHonest`, `OneWaitEach`, `OutageIsNotEmptyPage`; `PageHolds`; `ResolveHolds`, `StaysInGame`; `PacketHolds`; `GuidesHold` |
| WclCommands | 36 commands, each twice (`graphql` with `--cache-ttl` 0, 1 or more than any lifetime of the policy, and another one the second time), two users of one site and one of another | `NoForeignReplay`, `GapsAreTold`, `NeverFarBehind` |
| Sampling | four fights, four reports, two seasons, the searches' queries | `SoundFolds`, `SamplesHold`; `BoardsHold`, `LookupHolds`; `SuggestionsHold`; `WikiHolds`; `LorrgsHolds`; `IcyHolds` |
| Simc | three specs, seven talents of two hero trees, two revisions; lists of three rows, conditions of two operands, three variants | `BuildsHold`, `StaleHolds`, `TheirsStays`; `PacketsHold`; `VerdictsHold`, `AplHolds` |
| IndexLostUpdate | two pages, two refreshers, two days | `RowsKept`, refuted |
| PageMinority | as the page of Wrapper | `OffIntentMinority`, refuted |
| PullSplit | as the folds of Sampling | `SamePlayersOnce`, refuted |
| PacketPhase | as the packet of Wrapper | `UnappliedIsEmpty`, refuted |
| GuideLimit | guides with overlapping builds | `LimitKeepsProviders`, refuted |

The largest have 1.6 million (Wrapper) and 1.4 million distinct states (Simc),
some 800 000 (LocalFiles, Sampling) and 700 000 (WclCommands).

What they show and why the bounds are enough:

- **SiteCrawler**. Four requests and three failures in a row are the smallest
  numbers with which a streak can complete, be interrupted, and run into the
  request cap; five pages let a redirect target be seed, link, revisit or
  unknown. `Courteous` is `FetchedOnce` and `Polite`; `ResultHolds` says that
  no stop drops an address, that the walk is breadth first with revisits
  after what is new, and that the caller's contract is kept.
- **LocalFiles**. Three days let a page be seen, missed and seen again; one
  move lets a row become a redirect. `NoPageLost` and `AgesHold` are action
  properties of the index on disk. Two writers and a clearer are enough for a
  cache entry to vanish and come back between any two calls of a get;
  `HitsHold` says that what was current when a get began is the oldest it
  can answer, that it was alive, and that it is one set's. Two events at one
  time make a cursor stand still, bounds of one event make every page be cut,
  three exports resume twice; `ExportsHold` is about the rows a reader has
  put together from them. Of bundles two commands overlap in every way and a
  third follows: two are what a kill and a race need, the third shows what
  they left. Inside one hour the third is an export of the first guide or a
  rebuild; over three hours commands run one by one, so that ages differ.
  Tabs and writers are symmetric.
- **Requests**. Two threads on one host compete, a third on another shows
  that hosts are independent. Retry-After values lie below and above the cap.
  With a life of 6 ticks and a skew of 4 a token is usable for two ticks, so
  memory, file and fetch all occur within four; two commands suffice for torn
  writes and for another site's entry.
- **Wrapper**. Two Redis providers meet a failure together, and one of
  them asks again; one in files makes the command's ledger mixed; failures of two kinds make shared and
  mixed exit codes. One provider of each family is what the page's shares and
  its reserved slot distinguish; 1 and 4 are the smallest page and the
  smallest even one on which they differ. Resolve is given fifteen shapes of
  matches that lie around its floors and boosts, from providers that are
  profiled, fixed or know no game. Passthroughs and composites name any game
  by the wrapper's option, the provider's own and a reference at once, on
  every surface. The packet combines every failure of both
  services with phases that differ, start late or stay open. Two comparisons
  race with nothing else going on, or one runs alone while hours pass and
  bundles are rewritten.
- **WclCommands**. Two commands in a row are what reading another's cache
  entry takes. The lifetimes are ordered as in the code, with the pause after
  which a report counts as finished between them; `--cache-ttl` is zero,
  the live lifetime, or beyond them all. The report grows only while the public
  endpoint is asked, and reads fail only where the policy is not `auto`: what
  `auto` adds is the choice of the endpoint, which logins and logouts vary. In every
  command the last read is watched, over all commands every kind of read.
  Two users of one site are symmetric.
- **Sampling**. Four fights are enough for two pulls, a log that could belong
  to both, and one that comes after it; the windows chain at steps of both
  tolerances. While fights are only folded the first is of a fixed guild and
  roster, because names do not matter. Listings of up to four reports move
  twice, in pages of one. Boards have pages of one run, three moments and
  two samples. The queries of each search are chosen for ties, near ties,
  stale rows, shared names and words that only rank.
- **Simc**. Two classes share the name of a spec; the seven talents are a
  choice node, hero talents of two trees — one of two ranks, two on a tiered
  node, one that SimC grants — and the selection of the first tree. Rows rank
  the whole tiered node, repeat, exceed a rank, name two hero trees by two
  talents or by a talent and a selection, or name the other tree at rank 0,
  which makes its granted keystone count; two revisions make a binary stale.
  What is at --out moves only while apply-build runs: nobody else looks at it. Lists: every pair of kinds of rows in three lists that call
  or dispatch to each other; conditions of up to two operands with every
  operator, over builds that have, lack or half know a talent.

**Fairness.** `Terminates` assumes `WF_vars(Next)`: the crawl is a plain
loop, nothing keeps it from its next step. `CallsEnd` assumes that time
passes (`Moment`) and that each thread goes on (`GoesOn(c)`): a sleep that is
over ends and every request is answered or times out; callers may call for
ever. `CommandsEnd` assumes `Progress(p)` of every process: the clients set
timeouts, pauses end, and a process that is not killed runs on. Nothing else
is fair; the other runs check safety.

**Deadlock.** `CHECK_DEADLOCK FALSE` stands where the system ends: commands
print their answer, walks and exports are done, lists of fights are used up,
and a run's own bounds on time and on the number of commands are reached.

**Bounds.** Of the runs only: `LastDay`, `LastTime`, `LastHour`,
`LastMoment`, `LastEvent`, `LastRevision` and `MaxClock` bound time and
history; `MaxWrites`, `MaxExports`, `MaxCommands`, `MaxOps`, TokenCache's
`MaxRequests`, `MaxSamples`, `MaxChanges`, `MaxMoves` and `MaxTroubles` bound
how often something happens; `MaxFights`, `MaxRows`, `MaxLines`,
`MaxOperands`, `MaxValue` and `MaxVariants` bound data. The program's own, at
small values: `MaxPages`, SiteCrawler's `MaxRequests`, `UnavailableAfter`,
`Attempts` and `Tries`, `TraceDepth`, `FocusDepth`, limits, lifetimes and
thresholds.

## 4. Disagreements between code and documents

Five are the counterexamples of runs of their own, and are listed under
`findings` with the lines they quote.

- `IndexLostUpdate`: the Icy Veins README says a refresh never replaces the
  index. It replaces it with a merge into what it loaded minutes before; of
  two overlapping refreshes the later save drops what the earlier one added.
- `PageMinority`: off-intent rows are said to be a strict minority; on a page
  of even size they can be half of it.
- `PullSplit`: logs that list the same players within 30 s are said to be
  collapsed. The fold by guild comes first and pulls are never joined, so a
  log without details between them leaves the players with two kills.
- `PacketPhase`: a note says that every selected-phase section is empty when
  the phase was not applied; the top parses are cut and compared by it.
- `GuideLimit`: a limit on handed-over builds is said never to drop a whole
  provider; a guide whose builds an earlier guide has too can be left out.

More are properties stated in the modules that no run checks, because the
code does not keep them; TLC shows each in a few steps.

- `FileCache!AgeIsOfThePayload`: a hit's age is said to be its entry's
  (`cache.py:162`). The text is read before the file is stat'ed: replaced in
  between, the old payload is given the new entry's age.
- `FileCache!OnlyExpiredCleared`: `--expired-only` clears by the status at
  the listing; an entry rewritten since is removed while live.
- `TokenCache!NeverRacesExpiry`: the skew is said to keep a request from
  racing the expiry (`client_credentials.py:17`); a request that is retried
  after two full waits can be sent with an expired token.
- `Discovery!PostIsNoted`: `news-post` is said to note a page that was served
  for another expansion (`docs/wowhead/README.md:189`); it compares the page
  it asked for, so a redirect to another expansion goes unsaid. `guide` and
  `guide-full` compare the page that was served (`GuideIsNoted`).
- `GuideBundles!LossStaysVisible`: "An export that lost pages must stay
  visible to every bundle reader"; a reader of a bundle that another export
  is replacing can have pages of the one that lost some and the manifest of
  one that lost none.
- `SimcBuilds!StaleBinaryTold`: a failure that the binary's age explains is
  said to carry a sentence about it; one path, an identity completed from an
  APL's name, does not add it. `StaleRejectionsTold` checks all others.

Some searches' rules hold with exceptions, which their properties name. At
Wowhead an article is said to need a lead over the entities: it is compared
with the first of them, whatever the others score, so a stale guide in that
place lets it pass (`NamedIsTold`). At Icy Veins a spec that two classes
share can open without the class when the guide of one of them is stale
(`SharedSpecUnresolved`), and of a page that moved twice the first and the last
slug can both be ranked, as a redirect is followed for one step (`EveryPageOnce` speaks of
pages that moved once).

## 5. What is proved

All proofs are checked by TLAPS for arbitrary constants that satisfy the named
assumptions of each module (finite sets, natural numbers, positive bounds);
TLC evaluates those assumptions on every run.

**SiteCrawlerProofs**. `TypeCorrect`; `NeverFetchedTwice` from the invariant
`Walk` (queue and revisits hold no address twice, share none with what was
fetched except revisits that are passed over, and everything queued was
seen); `StaysPolite` from `Patience` (the streak is the run of failures at
the end of the log, is shorter than allowed while the walk runs, and no
earlier run of failures was longer); `StaysCourteous` is both.

The rest of the walk is proved over the lemma `StepCases`, which reduces the
handlers of one item to five kinds of steps: the run finishes, meets its
cap, reads a page, goes past an address, or stops on an answer. On it rest

- `WalkKeepsPromise`, the refinement of PoliteCrawl: `Covered` says that what
  the walk knows was fetched, is an address a page gave for itself, or still
  waits; every fetch then maps to a fetch of the promise, every end to the
  end the promise allows, and the rest to a stutter.
- `ForgetsNothing`, from `Remembers`: while the walk runs, an address that
  failed is in the streak unless something was answered after it, so that a
  stop on the streak puts back exactly what the site never recovered from.
- `WalksInOrder`, from `WaitsInOrder`: the queue is in the order the links were
  found in, and behind a revisit stands only what was found on it or later.
- `ContractIsKept`, from `Books` and `Keeping` while the walk runs and `Sound`
  when it is over: one entry per address fetched, what waits is in no book
  but that of failures, and what is still to re-read is the end of what is
  held, with all before it accounted for. `ResultAlwaysHolds` is these three.
  They assume `SeedsGiven`: every provider passes the page its menu is on, and
  with no seed there is no first page for the contract to speak of.

**RequestsProofs**. Of threads that share hosts: `RequestTypesCorrect` and
`SlotsStayApart` are inductive as they are. `StartsStaySpaced` is not: a start
says how long ago the last one was, so the invariant has to say it of every
sleeper and of the next slot in advance. `Paced` does: what a thread has left
to sleep and the time since the last start add up to the interval less the
lateness. `RetryAfterIsKept` rests on `Owing`: a pause lasts at least as long
as what is owed to the server. Of commands that share tokens:
`TokenTypesCorrect` needs `Typed` (attempts are only counted while a request
is made); `TokenAlwaysFits` follows from `Keyed`: memory holds the process's
own token or none, and one whenever a request is prepared.
`ExpiryNeverOverstated` is inductive. `FirstAttemptsAreAlive` follows from
`Dated`: between the look at the clock and the request either no time passes
or the token was fetched for it. `AlwaysInTime` is the last two together.

**WrapperProofs**. Five components.

- *Fan-out.* `TypeCorrect`; `WaitsOnce` from `Breaker`: a provider that has
  met a failure has tripped the breaker and is not asking. `OutageIsReported`
  from `Settled`: an answer is final once its call is over, and the envelope
  comes after all of them; the shared exit code is treated by the lemma
  `SharedExit`. `CacheClaimsAreHonest` from `Recorded`: every ledger is true
  of the operations done under it (`LedgerOf`), a provider's of its own and
  the command's of those whose call is over. The counts are cardinalities of
  sets of operations; `KindsAdd` and `ProvidersAdd` say that they add up over
  kinds and over providers, `OneMore` what one operation adds, `OldestOfBoth`
  that the older of two ages is the oldest of all they stand for.
- *Merged page.* `PageAlwaysHolds` from `PageMade`, for any providers, lists
  and limits. No induction over the lists is needed, because rows are counted
  and not followed: the row at position i of the merged list is the row of its
  provider's list whose number is how many of that provider's rows stand at
  or before i (`TakenInOrder`), and what is left of a list begins after as
  many. A provider's row is deferred only once the cap is used up by earlier
  rows of it (`SharesKept`), which with the order of promotion gives "begins
  each list" and "crowds nobody out". `FirstOfCount`, that the first n of a finite
  set are n of them or all, comes from an injection of the set into 1..|S|,
  by the rank of each element. The one assumption beyond finiteness is that at
  most one provider lists entities: the policy table names Wowhead
  (`provider_contract.py:17`), and with two, two anchors would claim the first row.
- *Resolve and game scope.* `StaysAlwaysInGame` from `InGame`, for each kind of
  command and any arguments a provider takes: a command told the selected game
  reads it or what its reference names (`CommandStays`), and one that cannot
  be told is a provider's without versions (`UntoldStays`). `ResolveAlwaysHolds` from `ResolveMade`: keys of six numbers that
  end in the provider's place in the alphabet are never equal
  (`KeysOrdered`), a strict total order on a finite set has a first
  (`FirstOfOrder`), and nothing is ahead of it by score and
  confidence (`AheadOutranks`).
- *Cooldown packets.* `PacketAlwaysHolds` from `PacketMade`, for any fights,
  rosters, spells, casts and rankings: at each read it says what is known by
  then of the player, his spec and his casts (`PlayerKnown`, `SpecKnown`,
  `CastsKnown`), also on the way without Lorrgs. That a sample counts by the
  same phase is about the order of a fight's visits (`VisitsOrdered`,
  `NothingBetween`): the n-th is the one that n - 1 come before. That no
  sample is one too many (`PickedFew`) is the merged page's lemma on the first
  of a set (`FirstOfCount`).
- *Guide comparisons.* `GuidesAlwaysHold` from `GuidesMade`, for any guides,
  builds, outages, requests and number of commands over one root. `RootHolds`
  is not inductive by itself: a command that read the manifest long ago may
  still reuse a row of it, and may put it into the next manifest. `GuidesMade`
  says of every row that anyone holds (`AllRows`) what `RootHolds` says of the
  root's (`NamesWell`), and of a directory that is being written to that it is
  its writer's alone and no row names it (`WriterMade`): the export takes a
  fresh directory (`uuid4`), which the model has as an unused one. Each step
  is an instance of `OneRun`, a command that goes on without writing, or of
  `OneWrite`. `InsufficientIs` and `InvalidIsMeddled` say when absence and when
  a bundle is blamed, from the assumption that no provider fails with one of
  the two codes that the wrapper makes itself. That no build is lost from the
  account (`ChosenIs`) holds because taking turns is a strict total order of the
  builds: two of one bundle have different turns, and of a set in a strict
  order those that fewer than n come before are n, or all (`FirstInOrder`).
  `StatusIs` is about simc's verdicts.

**SamplingProofs**. Three components.

- *Pulls.* `TypeCorrect`; `FoldsAreSound` is inductive given the
  types: a fight is compared with the first known roster of a pull only, and
  `OneRoster` itself says that all other known rosters of the pull equal that
  one (`FoldsAgree`). Every way of taking a fight is reduced to `Joins`, which
  leaves the fights before it as they were (`Extended`).
- *Lookups of Raider.IO.* `LookupAlwaysHolds` from `LookupMade`, for any
  finite set of characters and guilds, any words and weights as in the code,
  whatever comes and goes between two requests. While it probes (`Probed`), a
  lookup knows that no earlier split names anything that was there all along,
  that the kinds already asked for under the split at hand have found what
  was, and that every row found is of that split and of a kind wanted. Two
  rows of one entity are equal then, so `Deduped` drops none, a ranking lists
  every row (`RankingsList`, by counting), and a lead over the second row is
  one over all (`SureLeads`).
- *Boards of Raider.IO.* `SamplesNameTheirSeason`, two of the five parts of
  `BoardsHold` (`OneSeason` and `BlameHolds`), for any boards and commands, from
  `BoardsMade`: a page is of the board it was asked for, and without one of
  some season (`PageTrue`), however long it was cached; a sample with a season
  has read nothing else, and one without a season at most one page
  (`OfOneSeason`). That a failure of a page behind the first is never the
  season's fault follows: a page was read, so the season is a board. The
  assumption is that no command asks for runs of a raid.

**AplConditionsProofs**. The parser is a machine that pushes operands and
applies operators. `SpansHold`, that each operand's range holds the value it
takes in the fight at hand, with and without the build, is inductive; its
step is one soundness lemma per operator, which
is where the ends of ranges and the unknown ranks are treated. `VerdictsAreSound` reads
the verdict off the last range.

**WclReadsProofs**. One invariant, `ReadsInvariant`, gives three theorems, for
any plan of reads, any accounts, and any lifetimes in the order the code has.
It speaks of every cache entry, not of answers: an entry is its asker's and
whole, it was read from the version that was there then, and it lives long
only if the report had been quiet by then, or for the `--cache-ttl` it was
fetched with (`EntryHolds`). That last clause is what makes `BehindIsBounded`
inductive: how far behind an answer can get is decided when the entry is
stored, and the report may grow at any time later (`Behind` cannot be
disturbed by that). `ForeignNeverReplayed` needs that a
user token in use is of the command's site (`Fits`), also after the other
terminal has logged in elsewhere.

**LocalFilesProofs**. Four components.

- *Response cache.* `CacheHitsHold` from `CacheInvariant`: payloads are ranked
  in the order of their replaces, and a reader between its calls holds
  nothing older than what was current when it began (`LocalHolds`), because
  the file never goes back in rank (`FileHolds`). A clear and an expiry only
  remove.
- *Exports.* `ExportsAlwaysHold` from `ExportInvariant`: as long as one
  revision is seen, what the reader kept, what this export has collected and
  what its continuation names are runs of rows of one revision that line up
  end to end (`LinesUp`). The lemmas about runs say that runs that meet join
  and that a cut run is one; cursors that stand still are the case where an
  export begins inside a run of equal times and `skip` counts the rows
  already seen. A second revision ends the export, and the invariant then
  says that the reader is told to start again (`Explained`).
- *Site index.* `NoPageIsLost` and `AgesStayHonest`, for one refresher
  (`Refresher = {one}`) that may be killed anywhere, from `RefreshInvariant`:
  between load and save what it loaded is what is on disk, the crawl is one of
  that index, and no row is dated after today. The hypothesis is not for the
  proof's convenience: with two refreshers the statement is false, and
  `IndexLostUpdate` is the counterexample. What the crawl returns is taken
  from `CrawlContract`; `ContractIsKept` proves that `SiteCrawler` returns nothing
  else.
- *Bundles.* `BundlesAlwaysHold` from `BundlesInvariant`, for any processes,
  directories, ages and numbers of files, with commands killed anywhere.
  Three parts carry it. `EntitiesAge`: an entity's file is at most a cache
  life older than its summary says, a manifest at most a maximal age younger
  than any summary beside it; kept entities make the two bounds add up in
  `HydrationBounded`. `WritesInOrder`: where no two exports have contested a
  bundle, no list is older than the manifest, so whoever has read the
  manifest first reads lists that are at least as new. `LoneCommands`: what a
  command that has been alone so far has written is still there, which gives
  `FindsAll` and `InspectsClean` when it ends. Contested is a property of the
  answer, not of the bundle: an export that later ends alone puts the bundle
  in order, and not the answer of a query that read it before.

**SimcBuildsProofs**. One invariant for both modules, `BuildsInvariant`, for any
specs (finitely many), talents, ranks, builds and upstream, and whatever
options, links and packets say. Its parts:

- *The workspace.* `BinariesInOrder` and `BuildInOrder`: what a binary says it
  is comes from a configure that was not later than its compile, and the
  checkout never goes back. So a binary whose source is behind the checkout
  has a revision that is behind it too, and is told to be stale.
- *Identity.* `Identification` says what a probe has found: as long as nobody
  touched the workspace, the matches are the candidates that are no longer
  left and that this one binary takes. `HighIsRight` keeps what follows from
  it after the probe, and `AplFits` that no command goes on with an identity
  other than its APL's.
- *Old binaries.* `StaleHolds` is about ended commands only. `Rejected` says
  of a running one that wronged its build where it can be: still probing,
  with its own spec among the candidates, so that nobody else's tree takes
  it, or explaining. `Explain` finds the binary that it was told about
  because `AtHome` says that the checkout looked up again is the same.
- *Changes.* `EncodedOnce`: what SimC encodes has one talent of a choice
  node, whatever is lost, spread or granted, because tiered and granted
  talents are on none (`BuildsAssumption`, `MisreadOnce`); `VerifiedIsWanted`:
  no unrequested change and no unapplied edit is equality with `Wanted`.
- *Packets.* `Validation`, with `RowsAreRanks`: rows that name an entry once
  are the ranks that are compared with the round trip, so that what SimC
  gives back as it was asked is the character (`Vouched`); and what else it
  gave back is of hero trees that no ranked row is of (`Returned`), which the
  command that validated keeps to its end.

The lemmas `AfterCases` and `FailureKeeps` treat every run of the binary once:
it goes on, or fails without an answer. `TheirsAlwaysStay` needs no invariant.

## 6. What is only model-checked, and what is not modelled

Liveness (`Terminates`, `CallsEnd`, `CommandsEnd`) is out of the prover's
reach. So is what recursive definitions over data compute for every input:
folds (`PlayersCountRuns`), the scores of the searches, `TracesHold`, and
everything that rests on `SelectSeq`, of which the prover has no definition
(the rows of a sample, which is what the other parts of `BoardsHold` and
`SamplesHold` are about, and the rows a search keeps). Model-checked and not
yet proved: samples, searches, and simc's lists and comparisons of variants.

Not modelled (the list with reasons is `components` in `PROJECT.json`):
page parsers and payload shaping are pure functions of text; command plumbing
has no state; the remaining providers (Method, Raidbots, CurseForge) are a
cached, paced read each, and the cache and the pacing are modelled once.
An edit of modify-build names an entry: one by the name of a tiered talent,
which SimC spreads over the node's entries, is not modelled. Conditions leave
out the operators `~` and `!~` and `untaken_talents`, and a cooldown packet
the class read off the player's spec when Lorrgs gives the player none
(`cooldown_packet_flow.py:483`).
Statistics over a sample, git failures and worktrees of simc, the guild and
actor flows of the wrapper and Redis inspection are left out of components
that are otherwise modelled.

## 7. The plan

Written: all modules of section 2 and the proofs of section 5. To come, in
this order:

1. Starvation across refreshes: pages that fail for good and are revisited
   first; IndexRefresh with a crawl in its own order.
