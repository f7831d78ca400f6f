--------------------------- MODULE MCLocalFiles -----------------------------
(* What commands keep on disk, one kind at a time: the site index of Icy    *)
(* Veins, an entry of the response cache, exports of the events of a fight  *)
(* in two revisions, the first with two events at the same time, and        *)
(* bundles of guides.                                                       *)
EXTENDS MCIndexRefresh, FileCache, EventExport, GuideBundles, TLC

-----------------------------------------------------------------------------
CONSTANTS guideA, guideB, tab1, tab2

Alike == Permutations({tab1, tab2}) \cup Permutations(Writer)

Alone == \A o \in Process : ~Working(o)
InOneHour ==
  /\ started' <= 3
  /\ started' > started /\ started = 2 =>
       /\ Alone
       /\ \A o \in Process : command'[o].name \in {"-", "export", "rebuild"}
                             /\ (command'[o].name = "export" => command'[o].dir = guideA /\ ~command'[o].hydrates)
Ages ==
  /\ started' > started => Alone /\ bundle' # [bundle EXCEPT ![guideA] = NoBundle]
  /\ \A o \in Process : command'[o].name # "-" =>
       command'[o].name \in {"export", "refresh"} /\ command'[o].dir = guideA /\ command'[o].hydrates
  /\ bundle[guideB] = NoBundle /\ started <= clock + 1 /\ (clock = 0 => Len(losses) = started)

(* Either all happens in one hour, perhaps after an export of guideA: two   *)
(* commands that overlap, and then an export or a rebuild alone.  Or one    *)
(* bundle is exported with its entities and refreshed, three commands one   *)
(* after the other, at most one an hour, over three hours.                  *)
MCBundlesNext == BundlesNext /\ IF clock' = 0 THEN InOneHour ELSE Ages

Exported == [NoBundle EXCEPT !.lists = [i \in 1..Lists |-> 1],
                             !.manifest = [NoManifest EXCEPT !.export = 1, !.exported = 0]]
ExportedInit ==
  /\ clock = 0 /\ losses = <<FALSE>> /\ bundle = [NoBundles EXCEPT ![guideA] = Exported]
  /\ cached = [x \in 1..Entities |-> Never]
  /\ index \in {[state |-> "ours", rows |-> {[dir |-> guideA, manifest |-> Exported.manifest]}],
                [state |-> "foreign", rows |-> {}]}
  /\ command = [o \in Process |-> Idle] /\ started = 0

-----------------------------------------------------------------------------

CONSTANTS v1, v2
VARIABLE files

MCStream == (v1 :> <<0, 1, 1, 2>>) @@ (v2 :> <<0, 2>>)

IndexIdle ==
  /\ day = 0 /\ disk = Bundled /\ stage = [r \in Refresher |-> "idle"]
  /\ previous = [r \in Refresher |-> Bundled] /\ result = [r \in Refresher |-> NoResult]
CacheIdle ==
  /\ now = 0 /\ file = NoFile /\ writes = 0 /\ pc = [r \in Proc |-> "idle"] /\ local = [r \in Proc |-> NoFile]
  /\ reply = [r \in Reader |-> Miss]
  /\ past = [born |-> [n \in Payload |-> 0], due |-> [n \in Payload |-> 0],
             rank |-> [n \in Payload |-> 0], floor |-> [r \in Reader |-> 0]]
ExportIdle == ExportInit /\ maxEvents = 1
BundlesIdle == BundlesInit /\ index.state = "none"

MCInit ==
  /\ files \in {"index", "cache", "exports", "bundles"}
  /\ IF files = "index" THEN IndexInit ELSE IndexIdle
  /\ IF files = "cache" THEN CacheInit ELSE CacheIdle
  /\ IF files = "exports" THEN ExportInit ELSE ExportIdle
  /\ IF files = "bundles" THEN BundlesInit \/ ExportedInit ELSE BundlesIdle

MCNext ==
  /\ UNCHANGED files
  /\ \/ files = "index" /\ IndexNext /\ UNCHANGED <<caching, exporting, bundling>>
     \/ files = "cache" /\ CacheNext /\ UNCHANGED <<indexing, exporting, bundling>>
     \/ files = "exports" /\ ExportNext /\ UNCHANGED <<indexing, caching, bundling>>
     \/ files = "bundles" /\ MCBundlesNext /\ UNCHANGED <<indexing, caching, exporting>>

MCSpec == MCInit /\ [][MCNext]_<<files, indexing, caching, exporting, bundling>>
=============================================================================
