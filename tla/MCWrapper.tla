----------------------------- MODULE MCWrapper -----------------------------
(* One command of the wrapper: a search's fan-out, with two providers that  *)
(* search, one cached in files and one in Redis, and one that only knows    *)
(* report references, in Redis as well; the page it merges; which of        *)
(* five providers a resolve, a passthrough or a composite reads, and what   *)
(* the resolve answers; a cooldown packet; or guide comparisons.            *)
EXTENDS FanOut, MCMergedPage, Discovery, MCPacket, MCGuideCompare, TLC

CONSTANTS wow, logs, icy, wcl, simc
VARIABLE part

MCAges == {[age |-> 1, ttl |-> 9], [age |-> 2, ttl |-> 5]}
MCFailures == {[code |-> "timeout", exit |-> 5], [code |-> "internal_error", exit |-> 1]}
MCMaxOps == (wiki :> 1) @@ (wow :> 2) @@ (logs :> 1)

MCSource == {wowhead, icy, raiderio, wcl, simc}
MCMode == (wowhead :> "profiled") @@ (icy :> "fixed") @@ (raiderio :> "fixed") @@ (wcl :> "profiled") @@ (simc :> "none")
MCCovers == (wowhead :> {"retail", "classic"}) @@ (icy :> {"retail"}) @@ (raiderio :> {"retail"}) @@ (wcl :> {"retail", "classic"}) @@ (simc :> {})
MCUnverified == (wowhead :> {}) @@ (icy :> {}) @@ (raiderio :> {}) @@ (wcl :> {"anniversary"}) @@ (simc :> {"anniversary"})
MCHome == [p \in MCSource |-> "retail"]
MCKinds == (wowhead :> {"item", "guide"}) @@ (icy :> {"guide"}) @@ (raiderio :> {"character"}) @@ (wcl :> {"report"}) @@ (simc :> {})
MCAlphabet == (icy :> 1) @@ (raiderio :> 2) @@ (simc :> 3) @@ (wcl :> 4) @@ (wowhead :> 5)

Match == [kind |-> "guide", score |-> 30, most |-> 60, covers |-> TRUE, boost |-> 0, anchor |-> FALSE,
          off |-> FALSE, fit |-> 0, exact |-> FALSE, resolved |-> FALSE, confidence |-> 2, capped |-> FALSE,
          fallback |-> TRUE]
Resolved == [Match EXCEPT !.score = 60, !.resolved = TRUE, !.confidence = 3, !.fallback = FALSE]
MCFound ==
  {Match, Resolved, [Resolved EXCEPT !.score = 120, !.boost = 12],
   [Resolved EXCEPT !.kind = "item", !.anchor = TRUE, !.exact = TRUE, !.fit = -10],
   [Resolved EXCEPT !.fit = -10, !.boost = 16], [Resolved EXCEPT !.score = 38, !.most = 0],
   [Match EXCEPT !.score = 70, !.most = 0, !.boost = 25, !.confidence = 1], [Match EXCEPT !.score = 70, !.covers = FALSE],
   [Match EXCEPT !.kind = "item", !.score = 61, !.capped = TRUE],
   [Match EXCEPT !.kind = "item", !.off = TRUE, !.score = 70],
   [Resolved EXCEPT !.kind = "report", !.boost = 28], [Match EXCEPT !.kind = "report"],
   [Resolved EXCEPT !.kind = "character", !.off = TRUE, !.exact = TRUE],
   [Resolved EXCEPT !.kind = "character", !.fit = 34, !.boost = 58],
   [Match EXCEPT !.kind = "character", !.off = TRUE, !.confidence = 1]}

FanOutIdle ==
  /\ included = {} /\ pc = [p \in Provider |-> "queued"] /\ ledger = [p \in Provider |-> EmptyLedger]
  /\ total = EmptyLedger /\ tripped = FALSE /\ answer = [p \in Provider |-> NoAnswer]
  /\ block = [p \in Provider |-> NoBlock] /\ envelope = NoEnvelope /\ ops = [p \in Provider |-> <<>>]
PageIdle ==
  /\ limit = 1 /\ lists = [p \in Lister |-> <<>>] /\ queue = lists /\ ordered = <<>> /\ filled = 0
  /\ capped = {} /\ deferred = {} /\ page = {} /\ turn = "interleaving"
DiscoveryIdle ==
  /\ asked = [name |-> "resolve", game |-> AnyGame, only |-> {}, kinds |-> {}, own |-> AnyGame,
              refers |-> AnyGame, surface |-> "pinned"]
  /\ left = [p \in Source |-> "-"] /\ matches = [p \in Source |-> Unasked]
  /\ outcome = NoOutcome /\ reads = {} /\ at = "begun"

PacketIdle == wanted = Flags /\ known = NothingKnown /\ truth = {} /\ stage = "idle"
GuidesIdle ==
  hour = 0 /\ manifest = Nothing /\ folders = [d \in Folder |-> Nothing] /\ meddled = {} /\ runs = Away(Running)

MCInit ==
  \/ part = "fanout" /\ Init /\ PageIdle /\ DiscoveryIdle /\ PacketIdle /\ GuidesIdle
  \/ part = "page" /\ FanOutIdle /\ PageInit /\ DiscoveryIdle /\ PacketIdle /\ GuidesIdle
  \/ /\ part = "discovery" /\ FanOutIdle /\ PageIdle /\ DiscoveryInit /\ PacketIdle /\ GuidesIdle
     /\ asked.kinds \in {{}, {"item"}, {"guide"}}
     /\ asked.name = "resolve" /\ asked.refers # AnyGame => asked.only = {} /\ asked.kinds = {}
  \/ part = "packet" /\ FanOutIdle /\ PageIdle /\ DiscoveryIdle /\ PacketInit /\ GuidesIdle
  \/ part = "guides" /\ FanOutIdle /\ PageIdle /\ DiscoveryIdle /\ PacketIdle /\ MCGuidesInit

MCNext ==
  /\ UNCHANGED part
  /\ \/ part = "fanout" /\ Next /\ UNCHANGED <<paging, discovering, packing, guiding>>
     \/ part = "page" /\ PageNext /\ UNCHANGED <<vars, discovering, packing, guiding>>
     \/ part = "discovery" /\ DiscoveryNext /\ UNCHANGED <<vars, paging, packing, guiding>>
     \/ part = "packet" /\ PacketNext /\ UNCHANGED <<vars, paging, discovering, guiding>>
     \/ part = "guides" /\ MCGuidesNext /\ UNCHANGED <<vars, paging, discovering, packing>>

MCSpec == MCInit /\ [][MCNext]_<<part, vars, paging, discovering, packing, guiding>>
=============================================================================
