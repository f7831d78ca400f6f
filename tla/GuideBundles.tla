---------------------------- MODULE GuideBundles ----------------------------
(****************************************************************************)
(* Bundles of exported guides: wowhead_cli/guide_services.py, guides.py and *)
(* the guide-export and guide-bundle-* commands of main.py, with the        *)
(* article bundles of warcraft_content/article_bundle.py.  Commands write   *)
(* a bundle file by file over an earlier one, may be killed between two     *)
(* writes or in one, and share directories, a cache and one index.          *)
(****************************************************************************)
EXTENDS Integers, Sequences, FiniteSets

CONSTANTS
  Guide, Article,   \* directories for Wowhead guides and for other articles
  Lists,            \* how many row files a bundle has
  Entities,         \* how many entities a guide links
  Process,
  MaxAge,           \* --max-age-hours, of every command
  EntityTTL,        \* how long an entity is cached, in hours
  LastHour, MaxCommands \* bounds

ASSUME BundlesAssumption ==
  /\ Guide \cap Article = {} /\ Lists \in Nat \ {0}
  /\ {Entities, MaxAge, EntityTTL, LastHour, MaxCommands} \subseteq Nat

Dir == Guide \cup Article

VARIABLES
  clock,    \* hours
  cached,   \* the hour each entity's cache entry was fetched in
  losses,  \* whether pages were lost to each export
  bundle,   \* the directories
  index,    \* index.json of the root of the guides
  command,  \* what each process runs
  started   \* how many commands there have been

bundling == <<clock, cached, losses, bundle, index, command, started>>
Never == -(MaxAge + EntityTTL + 1)

(* The files that may be torn, besides the row files 1..Lists. *)
ManifestFile == 0
ItemsFile == -1
EntityFile(e) == Lists + e

(* A row file is known by the export that wrote it, an entity's file by the *)
(* hour its content was fetched in.                                         *)
NoManifest == [export |-> 0, exported |-> Never, hydrates |-> FALSE, hydrated |-> Never, items |-> 0]
NoBundle == [lists |-> [i \in 1..Lists |-> 0], manifest |-> NoManifest, items |-> {},
             file |-> [e \in 1..Entities |-> Never], torn |-> {}, contested |-> FALSE]
NoBundles == [d \in Dir |-> NoBundle]

Idle == [name |-> "-", at |-> "idle", dir |-> "-", alone |-> FALSE,
         hydrates |-> FALSE, reuses |-> FALSE, export |-> 0, next |-> 1, known |-> {},
         items |-> {}, hydrated |-> Never, rows |-> {}, seen |-> NoManifest, got |-> <<>>, contested |-> FALSE]

BundlesInit ==
  /\ clock = 0 /\ losses = <<>> /\ bundle = NoBundles
  /\ cached = [e \in 1..Entities |-> Never]
  /\ index \in [state : {"none", "foreign"}, rows : {{}}]
  /\ command = [p \in Process |-> Idle] /\ started = 0

-----------------------------------------------------------------------------
(* What readers make of the files.                                          *)

Torn(d) == ManifestFile \in bundle[d].torn
Holds(d) == bundle[d].manifest.export > 0 \/ Torn(d)
Readable(d) == bundle[d].manifest.export > 0 /\ ~Torn(d)
Loads(d) == Readable(d) /\ bundle[d].torn \cap (1..Lists) = {}

(* _scan_guide_bundle_rows *)
Scan == {[dir |-> d, manifest |-> bundle[d].manifest] : d \in {g \in Guide : Readable(g)}}

(* _load_guide_bundle_index: nothing unless every row has a manifest. *)
Valid == index.state = "ours" /\ \A row \in index.rows : Holds(row.dir)

(* _discover_guide_corpora, for selectors, lists, searches and queries. *)
Discover == IF Valid THEN index.rows ELSE Scan
Found(d) == \E row \in Discover : row.dir = d

(* _guide_bundle_is_fresh *)
Fresh(manifest) ==
  /\ clock - manifest.exported <= MaxAge
  /\ manifest.hydrates => clock - manifest.hydrated <= MaxAge

(* _bundle_inspection_issues are none, where no two losses count the same. *)
Clean(d) ==
  LET b == bundle[d]
  IN /\ Loads(d) /\ ItemsFile \notin b.torn
     /\ \A i \in 1..Lists : b.lists[i] = b.manifest.export
     /\ Cardinality(b.items) = b.manifest.items
     /\ index.state # "none" => Valid /\ Found(d)

-----------------------------------------------------------------------------
(* Commands.                                                                *)

Working(p) == command[p].at \notin {"idle", "done"}
Goes(p, c) == command' = [command EXCEPT ![p] = c]
At(p, step) == command[p].at = step
On(p) == command[p].dir
Put(d, b) == bundle' = [bundle EXCEPT ![d] = b]

Once == started < MaxCommands /\ started' = started + 1

BeginCommand(p, c) ==
  /\ At(p, "idle") /\ Once
  /\ command' = [q \in Process |->
       IF q = p THEN [c EXCEPT !.alone = \A o \in Process \ {p} : ~Working(o)]
       ELSE [command[q] EXCEPT !.alone = FALSE]]
  /\ UNCHANGED <<clock, cached, losses, index>>

(* Exports into one directory at a time contest it. *)
Exporting(q) == Working(q) /\ command[q].name \in {"export", "refresh"}
Enters(d) ==
  Put(d, [bundle[d] EXCEPT !.contested = @ \/ \E q \in Process : Exporting(q) /\ On(q) = d])

guide_export(p, d, hydrates) ==
  /\ BeginCommand(p, [Idle EXCEPT !.name = "export", !.at = "fetch", !.dir = d, !.hydrates = hydrates])
  /\ d \in Article => ~hydrates
  /\ Enters(d)

(* The bundle is loaded before it is looked at. *)
guide_bundle_refresh(p, d, force) ==
  /\ d \in Guide /\ Loads(d)
  /\ LET manifest == bundle[d].manifest
     IN BeginCommand(p, [Idle EXCEPT !.name = "refresh", !.dir = d,
                    !.at = IF Fresh(manifest) /\ ~force THEN "done" ELSE "fetch",
                    !.hydrates = manifest.hydrates, !.reuses = ~force])
  /\ Enters(d)

guide_bundle_index_rebuild(p) ==
  /\ BeginCommand(p, [Idle EXCEPT !.name = "rebuild", !.at = "scan"])
  /\ UNCHANGED bundle

guide_query(p, d) ==
  /\ Readable(d)
  /\ BeginCommand(p, [Idle EXCEPT !.name = "query", !.at = "read", !.dir = d, !.seen = bundle[d].manifest])
  /\ UNCHANGED bundle

(* A Wowhead manifest is written when the rest is there, another article's  *)
(* before its rows.                                                         *)
ManifestLast(d) == d \in Guide

(* An article's export tells which of its pages it could not read. *)
FetchGuide(p, lost) ==
  /\ At(p, "fetch") /\ (lost => On(p) \in Article)
  /\ losses' = Append(losses, lost)
  /\ Goes(p, [command[p] EXCEPT !.export = Len(losses'),
                                !.at = IF ManifestLast(On(p)) THEN "lists" ELSE "manifest"])
  /\ UNCHANGED <<started, clock, cached, bundle, index>>

(* write_guide_export_assets; the end of write_article_bundle.              *)
WriteList(p) ==
  LET c == command[p]
      i == c.next
      b == bundle[c.dir]
  IN /\ At(p, "lists")
     /\ Put(c.dir, [b EXCEPT !.lists[i] = c.export, !.torn = @ \ {i}])
     /\ Goes(p, IF i < Lists THEN [c EXCEPT !.next = i + 1]
                ELSE [c EXCEPT !.next = 1, !.at = IF ~ManifestLast(c.dir) THEN "done"
                                                  ELSE IF c.hydrates THEN "known" ELSE "items"])
     /\ UNCHANGED <<started, clock, cached, losses, index>>

(* _existing_hydrated_items_by_key *)
LoadKnown(p) ==
  /\ At(p, "known")
  /\ Goes(p, IF ItemsFile \in bundle[On(p)].torn THEN Idle
             ELSE [command[p] EXCEPT !.known = bundle[On(p)].items, !.at = "entities"])
  /\ UNCHANGED <<started, clock, cached, losses, bundle, index>>

Stored(item) == item.stored

Reusable(c) ==
  {item \in c.known : c.reuses /\ item.entity = c.next /\ clock - item.stored <= MaxAge
                      /\ bundle[c.dir].file[c.next] # Never}

Summary(c, stored) ==
  [c EXCEPT !.next = @ + 1, !.items = @ \cup {[entity |-> c.next, stored |-> stored]}]

(* _hydrate_guide_linked_entities: one entity after the other.              *)
KeepEntity(p) ==
  LET c == command[p]
  IN /\ At(p, "entities") /\ c.next <= Entities
     /\ \E item \in Reusable(c) :
          Goes(p, IF EntityFile(c.next) \in bundle[c.dir].torn THEN Idle ELSE Summary(c, Stored(item)))
     /\ UNCHANGED <<started, clock, cached, losses, bundle, index>>

StoreEntity(p) ==
  LET c == command[p]
      e == c.next
      fetched == IF clock - cached[e] <= EntityTTL THEN cached[e] ELSE clock
  IN /\ At(p, "entities") /\ e <= Entities /\ Reusable(c) = {}
     /\ cached' = [cached EXCEPT ![e] = fetched]
     /\ Put(c.dir, [bundle[c.dir] EXCEPT !.file[e] = fetched, !.torn = @ \ {EntityFile(e)}])
     /\ Goes(p, Summary(c, clock))
     /\ UNCHANGED <<started, clock, losses, index>>

LoseEntity(p) ==
  LET c == command[p]
  IN /\ At(p, "entities") /\ c.next <= Entities /\ Reusable(c) = {}
     /\ clock - cached[c.next] > EntityTTL
     /\ Goes(p, [c EXCEPT !.next = @ + 1])
     /\ UNCHANGED <<started, clock, cached, losses, bundle, index>>

Items(c) == c.items

(* _write_hydrated_entities_manifest: without items there is none. *)
WriteItems(p) ==
  LET c == command[p]
  IN /\ At(p, "items") \/ (At(p, "entities") /\ c.next > Entities)
     /\ Put(c.dir, [bundle[c.dir] EXCEPT !.items = Items(c), !.torn = @ \ {ItemsFile}])
     /\ Goes(p, [c EXCEPT !.at = "manifest", !.hydrated = IF c.items = {} THEN Never ELSE clock])
     /\ UNCHANGED <<started, clock, cached, losses, index>>

WriteManifest(p) ==
  LET c == command[p]
  IN /\ At(p, "manifest")
     /\ Put(c.dir, [bundle[c.dir] EXCEPT !.torn = @ \ {ManifestFile},
          !.manifest = [export |-> c.export, exported |-> clock, hydrates |-> c.hydrates,
                        hydrated |-> c.hydrated, items |-> Cardinality(c.items)]])
     /\ Goes(p, [c EXCEPT !.next = 1, !.at = IF ManifestLast(c.dir) THEN "scan" ELSE "lists"])
     /\ UNCHANGED <<started, clock, cached, losses, index>>

(* _holds_foreign_index: only a rebuild replaces another file. *)
ScanRoot(p) ==
  /\ At(p, "scan")
  /\ Goes(p, IF index.state = "foreign" /\ command[p].name # "rebuild"
             THEN [command[p] EXCEPT !.at = "done"]
             ELSE [command[p] EXCEPT !.at = "index", !.rows = Scan])
  /\ UNCHANGED <<started, clock, cached, losses, bundle, index>>

\* Mutant: an export adds its own row to the index that is there.
OwnRow(c) == {row \in index.rows : row.dir # c.dir} \cup {row \in c.rows : row.dir = c.dir}

Rows(c) == c.rows

(* _write_guide_bundle_index *)
WriteIndex(p) ==
  /\ At(p, "index")
  /\ index' = [state |-> "ours", rows |-> Rows(command[p])]
  /\ Goes(p, [command[p] EXCEPT !.at = "done", !.rows = {}])
  /\ UNCHANGED <<started, clock, cached, losses, bundle>>

(* _read_bundle: a listed file that is missing or corrupt ends the query. *)
ReadList(p) ==
  LET c == command[p]
      i == c.next
      b == bundle[c.dir]
  IN /\ At(p, "read")
     /\ Goes(p, IF i \in b.torn \/ b.lists[i] = 0 THEN Idle
                ELSE [c EXCEPT !.got = Append(@, b.lists[i]), !.next = @ + 1, !.contested = b.contested,
                               !.at = IF i < Lists THEN "read" ELSE "done"])
     /\ UNCHANGED <<started, clock, cached, losses, bundle, index>>

(* The answer is given.  An export nobody else disturbed settles its bundle. *)
Finish(p) ==
  LET c == command[p]
  IN /\ At(p, "done") /\ Goes(p, Idle)
     /\ bundle' = IF c.export > 0 /\ c.alone THEN [bundle EXCEPT ![c.dir].contested = FALSE] ELSE bundle
     /\ UNCHANGED <<started, clock, cached, losses, index>>

(* A failed request ends an export before it writes; a kill ends it        *)
(* anywhere, also in the middle of a file.                                 *)
Stop(p) ==
  /\ Working(p) /\ Goes(p, Idle)
  /\ UNCHANGED <<started, clock, cached, losses, bundle, index>>

Writing(c) ==
  CASE c.at = "lists" -> {c.next}
    [] c.at = "entities" /\ c.next <= Entities /\ Reusable(c) = {} -> {EntityFile(c.next)}
    [] c.at = "entities" /\ c.next > Entities /\ c.items # {} -> {ItemsFile}
    [] c.at = "manifest" -> {ManifestFile}
    [] OTHER -> {}

TearFile(p) ==
  LET c == command[p]
  IN /\ \E f \in Writing(c) : Put(c.dir, [bundle[c.dir] EXCEPT !.torn = @ \cup {f}])
     /\ Goes(p, Idle)
     /\ UNCHANGED <<started, clock, cached, losses, index>>

TearIndex(p) ==
  /\ At(p, "index") /\ Goes(p, Idle)
  /\ index' = [state |-> "foreign", rows |-> {}]
  /\ UNCHANGED <<started, clock, cached, losses, bundle>>

(* Bound: a command ends in the hour it began in. *)
HourPasses ==
  /\ clock < LastHour /\ \A p \in Process : ~Working(p)
  /\ clock' = clock + 1
  /\ UNCHANGED <<started, cached, losses, bundle, index, command>>

(* A command that shows an entity caches it. *)
ShowEntity(e) ==
  /\ clock - cached[e] > EntityTTL /\ cached' = [cached EXCEPT ![e] = clock]
  /\ UNCHANGED <<started, clock, losses, bundle, index, command>>

(* The user deletes a bundle. *)
Remove(d) ==
  /\ bundle[d] # NoBundle /\ \A p \in Process : On(p) # d
  /\ Put(d, NoBundle) /\ Once
  /\ command' = [p \in Process |-> [command[p] EXCEPT !.alone = FALSE]]
  /\ UNCHANGED <<clock, cached, losses, index>>

BundlesNext ==
  \/ \E p \in Process :
       \/ \E d \in Dir : \E new \in BOOLEAN :
            guide_export(p, d, new) \/ guide_bundle_refresh(p, d, new)
       \/ \E d \in Dir : guide_query(p, d)
       \/ guide_bundle_index_rebuild(p)
       \/ \E lost \in BOOLEAN : FetchGuide(p, lost)
       \/ WriteList(p) \/ LoadKnown(p) \/ KeepEntity(p) \/ StoreEntity(p) \/ LoseEntity(p)
       \/ WriteItems(p) \/ WriteManifest(p) \/ ScanRoot(p) \/ WriteIndex(p)
       \/ ReadList(p) \/ Finish(p) \/ Stop(p) \/ TearFile(p) \/ TearIndex(p)
  \/ HourPasses
  \/ \E e \in 1..Entities : ShowEntity(e)
  \/ \E d \in Dir : Remove(d)

BundlesSpec == BundlesInit /\ [][BundlesNext]_bundling

-----------------------------------------------------------------------------
(* Properties.                                                              *)

(* A refresh that finds a bundle fresh leaves it: its entities were then    *)
(* read from Wowhead at most two maximal ages and a cache life ago, however *)
(* often an earlier refresh was killed and its entities kept.               *)
HydrationBounded ==
  \A d \in Guide : Readable(d) /\ Fresh(bundle[d].manifest) =>
    \A item \in bundle[d].items :
      clock - bundle[d].file[item.entity] <= 2 * MaxAge + EntityTTL

(* What a query reads from a Wowhead bundle is never older than the         *)
(* manifest it answers with, also while the bundle is being written and     *)
(* after its writer was killed, unless two exports contested it by then.    *)
ManifestVouches ==
  \A p \in Process : LET c == command[p] IN
    c.name = "query" /\ c.at = "done" /\ c.dir \in Guide /\ ~c.contested =>
      \A i \in 1..Lists : c.got[i] >= c.seen.export

(* Whatever kills, races and deletions have left: when an export or a       *)
(* rebuild ends that nobody disturbed, the commands find exactly the        *)
(* bundles on disk, as their manifests are.                                 *)
Undisturbed(p) == At(p, "done") /\ command[p].alone
FindsAll ==
  \A p \in Process :
    Undisturbed(p) /\ (command[p].name = "rebuild" \/ (command[p].export > 0 /\ On(p) \in Guide))
      => Discover = Scan

(* ... and guide-bundle-inspect finds nothing wrong with its bundle. *)
InspectsClean ==
  \A p \in Process :
    Undisturbed(p) /\ command[p].export > 0 /\ On(p) \in Guide /\ index.state # "foreign"
      => Clean(On(p))

(* What a refresh leaves alone is not too old, a reader's manifest vouches  *)
(* for what it reads, and after whatever happened bundles are found and in  *)
(* order (main.py: _guide_bundle_is_fresh, _load_guide_export).             *)
BundlesHold == HydrationBounded /\ ManifestVouches /\ FindsAll /\ InspectsClean

(* "An export that lost pages must stay visible to every bundle reader."    *)
LossStaysVisible ==
  \A p \in Process : LET c == command[p] IN
    c.name = "query" /\ c.at = "done" /\ (\E i \in 1..Lists : losses[c.got[i]])
      => losses[c.seen.export]
=============================================================================
