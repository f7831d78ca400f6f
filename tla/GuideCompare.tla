---------------------------- MODULE GuideCompare ----------------------------
(***************************************************************************)
(* `warcraft guide-compare-query` and `warcraft guide-builds-simc`         *)
(* (warcraft_cli/guide_compare.py, with the comparison of                  *)
(* warcraft_content/article_bundle.py).  A query finds one guide at each   *)
(* provider, exports it or reuses the bundle an earlier query left under   *)
(* the same root, compares the bundles and writes the root's manifest; the *)
(* build references of the bundles are handed to simc, by the query or by  *)
(* a later command that reads the root.  Commands overlap and are killed,  *)
(* and other commands may write to a bundle.                               *)
(***************************************************************************)
EXTENDS Integers, Sequences, FiniteSets

CONSTANTS
  Running,     \* the commands
  Orders,      \* command -> what it can be asked for
  Serving,     \* providers that serve the expansion asked for
  HitScores,      \* scores of search hits
  MinTop, MinMargin, MinSingle,  \* the thresholds of the search fallback
  Guides,      \* provider -> the guides it has
  Contents,    \* guide -> [sections, refs, declares]: what a bundle of it holds
  Reference,   \* url of a build -> [type, code, forever]
  Outages,     \* failures of a provider, [code, exit]
  Older,       \* the provider and the guide of each row of an older root
  Folder,      \* names of directories under the root
  MaxAge,      \* --max-age-hours
  LastHour,    \* bound of the model
  Nothing, Torn

ASSUME GuideAssumption ==
  /\ DOMAIN Reference \subseteq Nat /\ IsFiniteSet(DOMAIN Reference)
  /\ Folder \subseteq Nat /\ IsFiniteSet(Folder)
  /\ MaxAge \in Nat /\ LastHour \in Nat
  /\ Serving \subseteq DOMAIN Guides
  /\ \A p \in DOMAIN Guides : Guides[p] \subseteq DOMAIN Contents
  /\ \A g \in DOMAIN Contents : Contents[g].refs \subseteq DOMAIN Reference
  /\ \A f \in Outages : f.code \notin {"insufficient_guides", "invalid_bundle"}
  /\ \A c \in Running : \A o \in Orders[c] :
       o.limit \in Nat /\ Len(o.providers) \in Nat /\ DOMAIN o.providers = 1..Len(o.providers)
  /\ Len(Older) \in Nat /\ Len(Older) >= 2 /\ DOMAIN Older = 1..Len(Older) /\ DOMAIN Older \subseteq Folder
  /\ \A i \in DOMAIN Older : Older[i].provider \in DOMAIN Guides /\ Older[i].guide \in Guides[Older[i].provider]
  /\ Torn # Nothing
  /\ {Nothing, Torn} \cap [provider : DOMAIN Guides, guide : DOMAIN Contents, at : 0..LastHour] = {}

VARIABLES
  hour,
  manifest,  \* the root's manifest.json: Nothing, or its rows
  folders,   \* what each directory holds: Nothing, Torn, or a bundle
  meddled,   \* history: directories that something else wrote to
  runs       \* the commands

guiding == <<hour, manifest, folders, meddled, runs>>

(* A command: what it was asked for, the manifest it found, the places in    *)
(* its order of the providers still to come, the rows of those that brought  *)
(* a bundle and of the others, the bundles compared, and what it tells.      *)
Unstarted == [at |-> "idle", order |-> Nothing, index |-> <<>>, left |-> {}, taken |-> <<>>, declined |-> <<>>,
             inputs |-> <<>>, guide |-> Nothing, folder |-> Nothing, payload |-> Nothing]

(* An older manifest kept no identity of the bundles it names. *)
Bundle(p, g, at) == [provider |-> p, guide |-> g, at |-> at]
OldRow(p, g, d) ==
  [provider |-> p, status |-> "exported", guide |-> g, folder |-> d, at |-> 0, identity |-> Nothing, seen |-> 0]

GuidesOnDisk ==
  /\ hour = 0
  /\ \/ manifest = Nothing /\ folders = [d \in Folder |-> Nothing]
     \/ /\ manifest = [i \in DOMAIN Older |-> OldRow(Older[i].provider, Older[i].guide, i)]
        /\ folders = [d \in Folder |-> IF d \in DOMAIN Older THEN Bundle(Older[d].provider, Older[d].guide, 0) ELSE Nothing]
  /\ meddled = {}

GuidesInit == GuidesOnDisk /\ runs = [c \in Running |-> Unstarted]

Becomes(c, run) == runs' = [runs EXCEPT ![c] = run]
Tells(code) == [Unstarted EXCEPT !.at = "told", !.payload = [code |-> code, status |-> "-"]]
Quietly == UNCHANGED <<hour, meddled>>
OnDisk == UNCHANGED <<manifest, folders>>

-----------------------------------------------------------------------------
(* Finding a guide (_resolve_guide_compare_candidate).                     *)

(* guide_compare_query_payload: the manifest is read once, before any provider. *)
StartQuery(c) ==
  /\ runs[c].at = "idle"
  /\ \E order \in Orders[c] :
       LET eligible == {i \in DOMAIN order.providers : order.providers[i] \in Serving}
       IN  IF Cardinality(eligible) < 2 THEN Becomes(c, [Tells("invalid_argument") EXCEPT !.order = order])
           ELSE Becomes(c, [Unstarted EXCEPT !.at = "resolving", !.order = order, !.left = eligible,
                                             !.index = IF manifest = Nothing THEN <<>> ELSE manifest])
  /\ Quietly /\ OnDisk

(* The provider at hand, and the command once it is done with it. *)
Turn(c) == CHOOSE i \in runs[c].left : \A j \in runs[c].left : i <= j
AtHand(c) == runs[c].order.providers[Turn(c)]
PastIt(c) ==
  [runs[c] EXCEPT !.at = IF runs[c].left = {Turn(c)} THEN "finishing" ELSE "resolving", !.left = @ \ {Turn(c)},
                  !.guide = Nothing, !.folder = Nothing]

(* A row of a provider that brings no bundle: why, and its failure if it had one. *)
Decline(c, why, failure) ==
  Becomes(c, [PastIt(c) EXCEPT !.declined = Append(@, [provider |-> AtHand(c), why |-> why, failure |-> failure])])

(* _search_fallback_rejection, of the top score and the runner-up's or Nothing. *)
Decisive(top, second) ==
  /\ top >= MinTop
  /\ second # Nothing => top >= second + MinMargin
  /\ second = Nothing => top >= MinSingle

(* The provider resolves the guide, or a search finds it; one failure of the *)
(* two that nothing made up for is an outage.  They touch nothing shared.    *)
FindGuide(c) ==
  /\ runs[c].at = "resolving"
  /\ \/ \E g \in Guides[AtHand(c)] : Becomes(c, [runs[c] EXCEPT !.at = "found", !.guide = g])
     \/ \E g \in Guides[AtHand(c)], top \in HitScores, second \in HitScores \cup {Nothing} :
          IF Decisive(top, second) THEN Becomes(c, [runs[c] EXCEPT !.at = "found", !.guide = g])
          ELSE Decline(c, "not decisive", Nothing)
     \/ \E failure \in Outages : Decline(c, "provider_failed", failure)
  /\ Quietly /\ OnDisk

-----------------------------------------------------------------------------
(* Reusing or exporting its bundle (_process_guide_compare_provider).      *)

(* The manifest's row of the provider at hand: of several, the last.         *)
RowsAtHand(c) == {i \in DOMAIN runs[c].index : runs[c].index[i].provider = AtHand(c)}
RowOf(c) == runs[c].index[CHOOSE i \in RowsAtHand(c) : \A j \in RowsAtHand(c) : j <= i]

Readable(d) == folders[d] \notin {Nothing, Torn}

\* Mutant: any bundle of the provider is the one that was compared.
AnyBundle(bundle, row) == bundle.provider = row.provider

(* _guide_bundle_matches_row: an older row vouches by its time and its guide. *)
SameBundle(bundle, row) ==
  /\ bundle.provider = row.provider
  /\ IF row.identity # Nothing THEN bundle = row.identity ELSE bundle.at = row.at /\ bundle.guide = row.guide

Reusable(c) ==
  LET row == RowOf(c)
  IN  /\ RowsAtHand(c) # {} /\ ~runs[c].order.force
      /\ row.guide = runs[c].guide
      /\ hour - row.at <= MaxAge
      /\ Readable(row.folder) /\ SameBundle(folders[row.folder], row)

Take(c, row) ==
  Becomes(c, [PastIt(c) EXCEPT !.taken = Append(@, row),
                               !.inputs = Append(@, [folder |-> row.folder, bundle |-> row.identity])])

(* bundles/<uuid4>/<provider>: never a directory an earlier manifest names. *)
Unused == {d \in Folder : folders[d] = Nothing}
ExportFolder == CHOOSE d \in Unused : \A e \in Unused : d <= e

ReuseOrExport(c) ==
  /\ runs[c].at = "found"
  /\ IF Reusable(c)
     THEN /\ Take(c, [RowOf(c) EXCEPT !.status = "reused", !.identity = folders[RowOf(c).folder], !.seen = hour])
          /\ OnDisk
     ELSE /\ Unused # {}  \* bound of the model
          /\ folders' = [folders EXCEPT ![ExportFolder] = Torn]  \* the export's first file
          /\ Becomes(c, [runs[c] EXCEPT !.at = "exporting", !.folder = ExportFolder])
          /\ UNCHANGED manifest
  /\ Quietly

(* The provider may serve another of its guides than it was asked for. *)
Export(c) ==
  /\ runs[c].at = "exporting"
  /\ \/ \E g \in Guides[AtHand(c)] :
          /\ folders' = [folders EXCEPT ![runs[c].folder] = Bundle(AtHand(c), g, hour)]
          /\ Becomes(c, [runs[c] EXCEPT !.at = "loading"])
     \/ \E failure \in Outages : Decline(c, "guide_export_failed", failure) /\ UNCHANGED folders
  /\ Quietly /\ UNCHANGED manifest

InvalidBundle == [code |-> "invalid_bundle", exit |-> 1]
Exported(c, d) ==
  [provider |-> AtHand(c), status |-> "exported", guide |-> runs[c].guide, folder |-> d, at |-> folders[d].at,
   identity |-> folders[d], seen |-> hour]

LoadExport(c) ==
  /\ runs[c].at = "loading"
  /\ IF Readable(runs[c].folder) THEN Take(c, Exported(c, runs[c].folder))
     ELSE Decline(c, "invalid_exported_bundle", InvalidBundle)
  /\ Quietly /\ OnDisk

-----------------------------------------------------------------------------
(* Writing the manifest, and handing the builds to simc.                   *)

(* shared_failure. *)
SharedCode(failures) ==
  IF Cardinality({f.code : f \in failures}) = 1 THEN (CHOOSE f \in failures : TRUE).code
  ELSE IF {f.exit : f \in failures} = {5} THEN "upstream_error" ELSE "providers_failed"

(* _insufficient_guides_error: an outage only when nobody answered that there is none. *)
FailuresOf(c) == {runs[c].declined[i].failure : i \in DOMAIN runs[c].declined}
AllServe(c) == \A i \in DOMAIN runs[c].order.providers : runs[c].order.providers[i] \in Serving
Insufficient(c) ==
  IF FailuresOf(c) # {} /\ Nothing \notin FailuresOf(c) /\ AllServe(c) THEN SharedCode(FailuresOf(c)) ELSE "insufficient_guides"

Finish(c) ==
  /\ runs[c].at = "finishing"
  /\ IF Len(runs[c].inputs) < 2
     THEN /\ Becomes(c, [runs[c] EXCEPT !.at = "told", !.payload = [code |-> Insufficient(c), status |-> "-"]])
          /\ UNCHANGED manifest
     ELSE /\ manifest' = runs[c].taken  \* replaced in one rename
          /\ Becomes(c, [runs[c] EXCEPT !.at = "comparing"])
  /\ Quietly /\ UNCHANGED folders

(* compare_article_bundles: what all share; a build, all that could hold one. *)
Of(inputs, i) == Contents[inputs[i].bundle.guide]
Holders(inputs) == {i \in DOMAIN inputs : Of(inputs, i).declares}
Refs(inputs, i) == IF i \in Holders(inputs) THEN Of(inputs, i).refs ELSE {}
Shared(inputs) ==
  [sections |-> {s \in UNION {Of(inputs, i).sections : i \in DOMAIN inputs} :
                   \A i \in DOMAIN inputs : s \in Of(inputs, i).sections},
   builds |-> {u \in DOMAIN Reference :
                 /\ \A i \in Holders(inputs) : u \in Refs(inputs, i)
                 /\ Cardinality({i \in DOMAIN inputs : u \in Refs(inputs, i)}) >= 2}]

(* _guide_compare_freshness_rollup, of the ages at the time of the comparison. *)
Freshness(inputs) == IF \A i \in DOMAIN inputs : hour - inputs[i].bundle.at <= MaxAge THEN "fresh" ELSE "stale"

(* _collect_build_reference_handoff_rows: each url once, the providers in turn. *)
Urls(inputs) == UNION {Refs(inputs, i) : i \in DOMAIN inputs}
FirstWith(inputs, u) ==
  CHOOSE i \in DOMAIN inputs : u \in Refs(inputs, i) /\ \A j \in DOMAIN inputs : u \in Refs(inputs, j) => i <= j
Chosen(inputs, limit) ==
  LET first == [u \in Urls(inputs) |-> FirstWith(inputs, u)]
      turn == [u \in DOMAIN first |-> Cardinality({v \in DOMAIN first : v < u /\ first[v] = first[u]})]
      Sooner(u, v) == turn[u] < turn[v] \/ (turn[u] = turn[v] /\ first[u] < first[v])
  IN  {u \in DOMAIN first : Cardinality({v \in DOMAIN first : Sooner(v, u)}) < limit}

(* _handoff_build_input. *)
Usable(u) ==
  /\ ~Reference[u].forever /\ Reference[u].code
  /\ Reference[u].type \in {"wow_talent_export", "wowhead_talent_calc"}

Legs(order) == {l \in {"identify", "decode", "describe"} : l = "identify" \/ order[l]}

(* _simc_handoff_status. *)
Status(chosen, legs, handed, ok) ==
  LET good(l) == {u \in handed : ok[u][l]}
      empty == {l \in legs : good(l) = {}}
  IN  IF chosen = {} THEN "no_build_references"
      ELSE IF handed = {} THEN "all_references_excluded"
      ELSE IF empty = legs THEN "all_handoffs_failed"
      ELSE IF empty # {} THEN "failed"
      ELSE IF \A l \in legs : good(l) = handed THEN "ok" ELSE "partial"

(* A command with its bundles, and without the rows that led to them. *)
WithBundles(c, inputs, stage, payload) ==
  [Unstarted EXCEPT !.at = stage, !.order = runs[c].order, !.inputs = inputs, !.payload = payload]

(* guide_builds_simc_payload: the builds that are handed over, ... *)
PickBuilds(c, inputs) ==
  LET chosen == Chosen(inputs, runs[c].order.limit)
      handed == {u \in chosen : Usable(u)}
  IN  Becomes(c, WithBundles(c, inputs, "handing",
                [code |-> "-", status |-> "-", handed |-> handed, excluded |-> chosen \ handed,
                 truncated |-> Cardinality(Urls(inputs)) - Cardinality(chosen)]))

(* ... and what simc makes of them, where an identity of no single class and spec is a failure too. *)
HandOff(c) ==
  /\ runs[c].at = "handing"
  /\ LET p == runs[c].payload
         legs == Legs(runs[c].order)
     IN  \E ok \in [p.handed -> [legs -> BOOLEAN]] :
           LET status == Status(p.handed \cup p.excluded, legs, p.handed, ok)
           IN  Becomes(c, WithBundles(c, runs[c].inputs, "told",
                 [code |-> IF status = "all_handoffs_failed" THEN "simc_handoff_failed" ELSE "-", status |-> status,
                  handed |-> p.handed, excluded |-> p.excluded, truncated |-> p.truncated, ok |-> ok]))
  /\ Quietly /\ OnDisk

CompareBundles(c) ==
  /\ runs[c].at = "comparing"
  /\ IF runs[c].order.simc THEN PickBuilds(c, runs[c].inputs)
     ELSE Becomes(c, WithBundles(c, runs[c].inputs, "told",
            [code |-> "-", status |-> "-", fresh |-> Freshness(runs[c].inputs), shared |-> Shared(runs[c].inputs)]))
  /\ Quietly /\ OnDisk

(* guide-builds-simc on the root: load_guide_build_source, a bundle at a time. *)
StartBuilds(c) ==
  /\ runs[c].at = "idle"
  /\ \E order \in Orders[c] :
       /\ order.simc
       /\ Becomes(c, IF manifest = Nothing THEN [Tells("not_found") EXCEPT !.order = order]
                     ELSE [Unstarted EXCEPT !.at = "reading", !.order = order, !.index = manifest])
  /\ Quietly /\ OnDisk

ReadBundle(c) ==
  /\ runs[c].at = "reading"
  /\ LET d == runs[c].index[Len(runs[c].inputs) + 1].folder
         inputs == Append(runs[c].inputs, [folder |-> d, bundle |-> folders[d]])
     IN  IF ~Readable(d) THEN Becomes(c, [Tells("invalid_bundle") EXCEPT !.order = runs[c].order])
         ELSE IF Len(inputs) < Len(runs[c].index) THEN Becomes(c, [runs[c] EXCEPT !.inputs = inputs])
         ELSE PickBuilds(c, inputs)
  /\ Quietly /\ OnDisk

-----------------------------------------------------------------------------
Kill(c) ==
  /\ runs[c].at \notin {"idle", "told", "killed"}
  /\ Becomes(c, [Unstarted EXCEPT !.at = "killed"])
  /\ Quietly /\ OnDisk

(* An hour passes, or a guide-export of somebody writes over a bundle, once. *)
HourPasses == hour < LastHour /\ hour' = hour + 1 /\ UNCHANGED <<manifest, folders, meddled, runs>>
Meddle ==
  /\ meddled = {}
  /\ \E d \in Folder :
       /\ Readable(d)
       /\ \/ folders' = [folders EXCEPT ![d] = Torn]
          \/ \E g \in Guides[folders[d].provider] : folders' = [folders EXCEPT ![d] = Bundle(folders[d].provider, g, hour)]
       /\ meddled' = {d}
  /\ UNCHANGED <<hour, manifest, runs>>

GuideCommands ==
  \E c \in Running :
    \/ StartQuery(c) \/ FindGuide(c) \/ ReuseOrExport(c) \/ Export(c) \/ LoadExport(c) \/ Finish(c) \/ CompareBundles(c)
    \/ StartBuilds(c) \/ ReadBundle(c) \/ HandOff(c) \/ Kill(c)

GuideSurroundings == HourPasses \/ Meddle

GuidesNext == GuideCommands \/ GuideSurroundings

GuidesSpec == GuidesInit /\ [][GuidesNext]_guiding

-----------------------------------------------------------------------------
(* The root's manifest names at least two bundles that are there, whole    *)
(* and the ones that were compared, whoever was killed or ran meanwhile,   *)
(* so that who reads the root never meets a bundle half written.           *)
RootHolds ==
  /\ manifest # Nothing =>
       /\ Len(manifest) >= 2
       /\ \A i \in DOMAIN manifest :
            manifest[i].folder \notin meddled =>
              /\ Readable(manifest[i].folder) /\ SameBundle(folders[manifest[i].folder], manifest[i])
              /\ manifest[i].at = folders[manifest[i].folder].at
  /\ \A c \in Running : runs[c].payload # Nothing /\ runs[c].payload.code = "invalid_bundle" => meddled # {}

(* A bundle that is reused is one that was compared before, is of the guide *)
(* that the provider names now, and was no older than was allowed.          *)
ReusedIsCurrent ==
  \A c \in Running : \A i \in DOMAIN runs[c].taken :
    LET row == runs[c].taken[i]
    IN  row.status = "reused" =>
          /\ ~runs[c].order.force /\ row.at = row.identity.at /\ row.seen - row.at <= MaxAge
          /\ row.identity.provider = row.provider
          /\ \E j \in DOMAIN runs[c].index : runs[c].index[j].provider = row.provider /\ runs[c].index[j].guide = row.guide

(* That there are too few guides is said only when a provider answered that *)
(* it has none, and an outage only when everyone that brought none failed.  *)
OutageIsNotAbsence ==
  \A c \in Running :
    runs[c].at = "told" /\ runs[c].declined # <<>> =>
      (runs[c].payload.code = "insufficient_guides") = (Nothing \in FailuresOf(c) \/ ~AllServe(c))

(* What simc is said to have made of the builds: all that was asked for, of *)
(* every build that was handed over, or how much less; no build is lost     *)
(* from the account and none of the other game reaches simc.                *)
HandoffTold ==
  \A c \in Running :
    runs[c].payload # Nothing /\ runs[c].payload.status # "-" =>
      LET p == runs[c].payload
          legs == Legs(runs[c].order)
      IN  /\ Cardinality(p.handed) + Cardinality(p.excluded) + p.truncated = Cardinality(Urls(runs[c].inputs))
          /\ p.truncated > 0 => Cardinality(p.handed \cup p.excluded) = runs[c].order.limit
          /\ \A u \in p.handed : ~Reference[u].forever
          /\ (p.status = "ok") = (p.handed # {} /\ \A u \in p.handed, l \in legs : p.ok[u][l])
          /\ (p.code = "simc_handoff_failed") = (p.handed # {} /\ \A u \in p.handed, l \in legs : ~p.ok[u][l])
          /\ p.status = "partial" => \A l \in legs : \E u \in p.handed : p.ok[u][l]

(* What a comparison leaves and reports: a whole root, current bundles, and *)
(* outages and partial handoffs told apart from absence (guide_compare.py). *)
GuidesHold == RootHolds /\ ReusedIsCurrent /\ OutageIsNotAbsence /\ HandoffTold

(* _interleave_providers: "so --limit never drops a whole provider", with   *)
(* room for a build of each.                                                *)
LimitKeepsProviders ==
  \A c \in Running :
    runs[c].payload # Nothing /\ runs[c].payload.status # "-" /\ runs[c].order.limit >= Len(runs[c].inputs) =>
      \A i \in DOMAIN runs[c].inputs :
        Refs(runs[c].inputs, i) # {} =>
          Refs(runs[c].inputs, i) \cap Chosen(runs[c].inputs, runs[c].order.limit) # {}
=============================================================================
