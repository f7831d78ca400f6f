-------------------------- MODULE SimcBuildsProofs --------------------------
(***************************************************************************)
(* For all class and spec pairs, talents, ranks and builds, and however    *)
(* the checkout moves on meanwhile: SimcBuilds and TalentPackets answer of *)
(* the build they were asked about, tell a stale binary, keep the user's   *)
(* files, and vouch for no packet that is not the character's.             *)
(***************************************************************************)
EXTENDS TalentPackets, FiniteSetTheorems, TLAPS

CONSTANT Word \* what options, links and lists may call classes, specs and trees

Said == Word \X Word

(* What a packet may hold: its form's build is of that form. *)
Packets ==
  {p \in [status : {"unknown", "exact", "validated", "raw_only"}, form : {"none", "url", "export", "split"},
          build : Builds \cup {None}, pair : Pair \cup {Nobody}, rows : Seq(Nat \X Nat), validated : Pair \cup {Nobody}] :
     p.form # "none" => p.build \in Builds /\ p.build.form = p.form}

BuildCommands ==
  \/ \E name \in {"identify", "decode", "analyse", "harness"}, b \in Builds, hint \in Said, apl \in Said :
       decode_build(name, b, hint, apl)
  \/ \E b \in Builds, other \in Builds, hint \in Said : compare_builds(b, other, hint)
  \/ \E b \in Builds, other \in Builds, swaps \in Word, edits \in SUBSET (Entry \X Nat) :
       modify_build(b, swaps, other, edits)
  \/ \E b \in Builds, profile \in Pair, overwrite \in BOOLEAN : apply_build(b, profile, overwrite)
  \/ \E p \in Packets, file \in Word, save \in Word, describes \in BOOLEAN, validates \in BOOLEAN, forever \in BOOLEAN :
       resolve_talent_transport(p, file, save, describes, validates, forever)

BuildsInit == WorkspaceInit /\ command = Idle /\ out = None
BuildsNext == Maintains \/ UserWrites \/ BuildSteps \/ PacketSteps \/ BuildCommands
vars == <<workspace, command, out>>
BuildsSpec == BuildsInit /\ [][BuildsNext]_vars

-----------------------------------------------------------------------------
(* The workspace.                                                           *)

BinaryFile == [state : {"missing", "broken", "runs"}, baked : Nat, source : Nat, forever : BOOLEAN]

WorkspaceTyped ==
  /\ configured \in BOOLEAN /\ checkout \in [Root -> Nat] /\ engine \in [Root -> BinaryFile]
  /\ build \in [at : {"idle", "configured", "compiled", "built"}, target : {"-", "simc", "other"},
                baked : Nat, source : Nat, alone : BOOLEAN]

(* A binary is compiled after it was configured, from a checkout that only  *)
(* moves on.                                                                *)
BinariesInOrder ==
  \A r \in Root : engine[r].state = "runs" => engine[r].baked <= engine[r].source /\ engine[r].source <= checkout[r]

BuildInOrder ==
  /\ build.at \in {"configured", "compiled"} => build.baked <= checkout["managed"]
  /\ build.at = "compiled" => build.baked <= build.source /\ build.source <= checkout["managed"]
  /\ build.at # "idle" /\ build.alone => build.baked = checkout["managed"]
  /\ build.at = "built" /\ build.alone /\ build.target = "simc" => engine["managed"].baked = build.baked

WorkspaceInvariant == WorkspaceTyped /\ BinariesInOrder /\ BuildInOrder

-----------------------------------------------------------------------------
(* What a command holds.                                                    *)

Stages == {"idle", "confirm", "probe", "identified", "explain", "second", "decode", "swap", "edit", "verify",
           "write", "routed", "validate", "round_trip", "done"}

(* A build that is looked at: its talents may be any, its header may not. *)
Sound(b) ==
  /\ b.form \in {"none", "export", "url", "split", "packet"} /\ b.decodes \subseteq Pair
  /\ HasHash(b) => \E k \in Pair : b.decodes = {k}

CommandTyped ==
  /\ DOMAIN command = DOMAIN Idle
  /\ command.at \in Stages /\ command.root \in Root
  /\ command.steady \in BOOLEAN /\ command.wronged \in BOOLEAN /\ command.guessed \in BOOLEAN
  /\ command.rejoins \in BOOLEAN

Running == command.at \notin {"idle", "done"}
Identifying == command.at \in {"confirm", "probe", "identified"}

(* As long as nobody touched the workspace, the command's checkout is the   *)
(* one that would be looked up.                                             *)
AtHome == Running /\ command.steady => command.root = resolve_repo_root

(* While a build is identified: what was probed so far, and what is left. *)
Runs(b, k) ==
  /\ engine[command.root].state = "runs" /\ ~engine[command.root].forever
  /\ k \in b.decodes /\ engine[command.root].source = b.made

AllCandidates == Candidates(command.pair, command.build.form = "packet", command.guessed)

Identification ==
  /\ Identifying => Sound(command.build)
  /\ command.at \in {"idle", "confirm", "probe"} => command.confidence = None
  /\ command.at = "confirm" => /\ HasHash(command.build) /\ command.build.form # "packet" /\ command.matches = {}
                               /\ command.wronged = FALSE
  /\ command.at = "probe" =>
       /\ command.left \subseteq AllCandidates
       /\ command.steady => command.matches = {k \in AllCandidates \ command.left : Runs(command.build, k)}
       /\ command.matches \subseteq command.build.decodes
       /\ HasTalents(command.build)
       /\ command.build.form = "split" => /\ ~command.guessed /\ command.pair = command.asked

(* Of an identity told with high confidence. *)
HighIsRight ==
  command.confidence = "high" =>
    /\ Complete(command.pair)
    /\ HasHash(command.build) => command.pair \in command.build.decodes
    /\ command.build.form = "split" /\ ~Complete(command.asked) /\ command.steady =>
         {k \in command.build.decodes : Fits(k, command.asked)} = {command.pair}

(* Past its identification, a build is no other spec's than the APL's. *)
Accepted == command.at \notin {"confirm", "probe", "identified", "explain"} /\ (command.at = "done" => command.code = "answered")
AplFits == Accepted => ~OtherApl(command)

-----------------------------------------------------------------------------
(* What modify-build holds.                                                 *)

(* SimC keeps one talent of a choice node. *)
Encoded(talents) ==
  /\ talents \in [Entry -> Nat]
  /\ \A e, o \in Entry : e # o /\ Choice[e] = Choice[o] => talents[e] = 0 \/ talents[o] = 0

Modification ==
  command.name = "modify" =>
    /\ Running => command.build \in Builds /\ command.second \in Builds /\ command.edits \subseteq Entry \X Nat
    /\ command.at = "identified" /\ ~HasTalents(command.build) => ~Complete(command.pair)
    /\ command.at = "verify" => Encoded(command.export.talents)

-----------------------------------------------------------------------------
(* What a command holds that ran a binary too old for its build: it goes on *)
(* to say so, because the build is rejected until its own spec is tried.    *)

Old(r) == engine[r].state = "runs" /\ ~engine[r].forever /\ engine[r].source < checkout[r]

Rejected ==
  command.wronged /\ command.steady /\ ~command.guessed =>
    \/ command.at = "done" /\ command.code = "invalid_build" /\ command.hint
    \/ command.at = "explain" /\ Old(command.root)
    \/ /\ command.at = "probe" /\ Old(command.root)
       /\ HasHash(command.build) /\ engine[command.root].source < command.build.made
       /\ command.build.decodes \subseteq AllCandidates

-----------------------------------------------------------------------------
(* What talent packets hold.                                                *)

Routing == command.at \in {"routed", "validate", "round_trip"}

Shaped(p) ==
  /\ DOMAIN p = DOMAIN NoPacket /\ p.rows \in Seq(Nat \X Nat) /\ p.pair \in Pair \cup {Nobody}
  /\ p.form # "none" => /\ p.build.form = p.form /\ Sound(p.build)
                        /\ DOMAIN p.build = {"form", "path", "decodes", "made", "talents"}

(* A packet's build is the character whose rows it has. *)
Vouched(p) ==
  /\ p.status = "validated" /\ Cardinality(HeroTrees(p.rows)) <= 1
  /\ \A i \in DOMAIN p.rows : Tree[p.rows[i][1]] # "selection" => p.build.talents[p.rows[i][1]] = p.rows[i][2]
  /\ \A e \in Entry : p.build.talents[e] > 0 => \E i \in DOMAIN p.rows : p.rows[i][1] = e
  /\ Encoded(p.build.talents)

(* What else SimC gave back is of hero trees that no ranked row is of. *)
Returned(c) ==
  \A e \in Entry : c.export.talents[e] # c.packet.build.talents[e] =>
    Tree[e] = "hero" /\ HeroTree[e] \notin HeroTrees(c.packet.rows)

Validation ==
  /\ Routing => /\ command.name = "packet" /\ DOMAIN command.route = DOMAIN NoRoute
                /\ Shaped(command.packet) /\ command.route.upgraded \in BOOLEAN
  /\ command.at \in {"validate", "round_trip"} =>
       command.route.upgraded = FALSE /\ command.packet = command.route.source
  /\ command.at = "round_trip" => Transportable(command.packet) /\ Encoded(command.export.talents)
  /\ command.name = "packet" /\ command.route.upgraded => Returned(command)
  /\ command.name \in {"packet", "describe"} /\ command.route.upgraded => Vouched(command.packet)
  /\ command.at = "routed" /\ ~command.route.upgraded =>
       command.packet = command.route.source \/ command.packet.form = "none"
  /\ command.name = "describe" /\ command.route.out = None /\ command.route.file # None
       /\ command.route.cites = command.route.file => command.packet = command.route.source

Stations ==
  /\ command.at = "write" => command.name = "apply"
  /\ command.at = "edit" => command.name = "modify"

CommandInvariant ==
  /\ CommandTyped /\ AtHome /\ Identification /\ HighIsRight /\ AplFits
  /\ Modification /\ ModifiedAsAsked /\ Rejected /\ Validation /\ Stations

BuildsInvariant == WorkspaceInvariant /\ CommandInvariant

-----------------------------------------------------------------------------
(* The workspace, which commands never change.                              *)

LEMMA WorkspaceStarts == ASSUME WorkspaceInit PROVE WorkspaceInvariant
  <1>1. configured \in BOOLEAN /\ build = NoBuild /\ checkout = [r \in Root |-> 0]
    BY DEF WorkspaceInit
  <1>2. PICK e \in {NoEngine, Built(0, 0)} :
          engine = [r \in Root |-> IF r = "other" THEN [Built(0, 0) EXCEPT !.forever = TRUE] ELSE e]
    BY DEF WorkspaceInit
  <1>11. NoEngine \in BinaryFile /\ NoEngine.baked = 0 /\ NoEngine.source = 0
    BY DEF NoEngine, BinaryFile
  <1>12. Built(0, 0) \in BinaryFile /\ Built(0, 0).baked = 0 /\ Built(0, 0).source = 0
    BY DEF Built, BinaryFile
  <1>3. e \in BinaryFile /\ e.baked = 0 /\ e.source = 0
    BY <1>11, <1>12
  <1> DEFINE o == [Built(0, 0) EXCEPT !.forever = TRUE]
  <1>5. o \in BinaryFile /\ o.baked = 0 /\ o.source = 0
    BY DEF Built, BinaryFile
  <1>6. engine = [r \in Root |-> IF r = "other" THEN o ELSE e]
    BY <1>2
  <1> HIDE DEF o
  <1>7. engine \in [Root -> BinaryFile] /\ \A r \in Root : engine[r].baked = 0 /\ engine[r].source = 0
    BY <1>3, <1>5, <1>6
  <1>8. build \in [at : {"idle", "configured", "compiled", "built"}, target : {"-", "simc", "other"},
                   baked : Nat, source : Nat, alone : BOOLEAN]
    BY <1>1 DEF NoBuild
  <1>9. WorkspaceTyped /\ BinariesInOrder
    BY <1>1, <1>7, <1>8 DEF WorkspaceTyped, BinariesInOrder
  <1>10. BuildInOrder
    BY <1>1 DEF BuildInOrder, NoBuild
  <1> QED
    BY <1>9, <1>10 DEF WorkspaceInvariant

LEMMA WorkspaceKept ==
  ASSUME WorkspaceInvariant, Maintain
  PROVE  WorkspaceInvariant' /\ \A r \in Root : checkout[r] <= checkout'[r]
  <1> USE DEF WorkspaceInvariant, WorkspaceTyped, BinariesInOrder, BuildInOrder, Root
  <1>1. CASE repo_set_root
    BY <1>1 DEF repo_set_root
  <1>2. CASE sync_repo
    <2>1. /\ checkout' = [checkout EXCEPT !["managed"] = @ + 1] /\ build' = [build EXCEPT !.alone = FALSE]
          /\ configured' = configured /\ engine' = engine
      BY <1>2 DEF sync_repo
    <2> DEFINE BuildSet == [at : {"idle", "configured", "compiled", "built"}, target : {"-", "simc", "other"},
                            baked : Nat, source : Nat, alone : BOOLEAN]
    <2>6. build' \in BuildSet
      BY <2>1
    <2>7. checkout' \in [Root -> Nat]
      BY <2>1
    <2>2. WorkspaceTyped'
      BY <2>1, <2>6, <2>7
    <2>3. \A r \in Root : checkout[r] <= checkout'[r]
      BY <2>1
    <2>4. BinariesInOrder'
      BY <2>1, <2>3, <2>2 DEF BinaryFile
    <2>5. BuildInOrder'
      BY <2>1, <2>3
    <2> QED
      BY <2>2, <2>3, <2>4, <2>5
  <1>3. ASSUME NEW target \in {"simc", "other"}, Configure(target) PROVE WorkspaceInvariant' /\ checkout' = checkout
    <2>1. /\ build' = [at |-> "configured", target |-> target, baked |-> checkout["managed"], source |-> 0, alone |-> TRUE]
          /\ configured' = configured /\ checkout' = checkout /\ engine' = engine
      BY <1>3 DEF Configure, Configures
    <2>2. checkout["managed"] \in Nat
      OBVIOUS
    <2>3. build' \in [at : {"idle", "configured", "compiled", "built"}, target : {"-", "simc", "other"},
                      baked : Nat, source : Nat, alone : BOOLEAN]
      BY <2>1, <2>2
    <2>4. WorkspaceTyped' /\ BinariesInOrder'
      BY <2>1, <2>3
    <2>5. BuildInOrder'
      BY <2>1, <2>2
    <2> QED
      BY <2>1, <2>4, <2>5
  <1>4. CASE Compile
    <2>1. /\ build.at = "configured" /\ build' = [build EXCEPT !.at = "compiled", !.source = checkout["managed"]]
          /\ configured' = configured /\ checkout' = checkout /\ engine' = engine
      BY <1>4 DEF Compile
    <2>2. checkout["managed"] \in Nat
      OBVIOUS
    <2>3. build' \in [at : {"idle", "configured", "compiled", "built"}, target : {"-", "simc", "other"},
                      baked : Nat, source : Nat, alone : BOOLEAN]
      BY <2>1, <2>2
    <2>4. WorkspaceTyped' /\ BinariesInOrder'
      BY <2>1, <2>3
    <2>5. BuildInOrder'
      BY <2>1, <2>2
    <2> QED
      BY <2>1, <2>4, <2>5
  <1>5. CASE Link
    <2>1. /\ build.at = "compiled" /\ build' = [build EXCEPT !.at = "built"] /\ configured' = configured /\ checkout' = checkout
          /\ engine' = IF build.target = "simc" THEN [engine EXCEPT !["managed"] = Links] ELSE engine
      BY <1>5 DEF Link
    <2>2. /\ Links \in BinaryFile /\ Links.baked = build.baked /\ Links.source = build.source
      BY DEF Links, Built, BinaryFile
    <2>3. WorkspaceTyped'
      BY <2>1, <2>2
    <2>4. BinariesInOrder'
      BY <2>1, <2>2
    <2>5. BuildInOrder'
      BY <2>1, <2>2
    <2> QED
      BY <2>1, <2>3, <2>4, <2>5 DEF BinaryFile
  <1>6. CASE StopBuild
    <2>1. build' = NoBuild /\ configured' = configured /\ checkout' = checkout
      BY <1>6 DEF StopBuild
    <2>2. engine' = engine \/ engine' = [engine EXCEPT !["managed"] = Torn]
      BY <1>6 DEF StopBuild
    <2>3. Torn \in BinaryFile /\ Torn.state = "broken"
      BY DEF Torn, NoEngine, BinaryFile
    <2>4. WorkspaceTyped' /\ BinariesInOrder'
      BY <2>1, <2>2, <2>3 DEF NoBuild
    <2>5. BuildInOrder'
      BY <2>1 DEF NoBuild
    <2> QED
      BY <2>1, <2>4, <2>5
  <1> QED
    BY <1>1, <1>2, <1>3, <1>4, <1>5, <1>6 DEF Maintain

(* What a binary is said to be is right.                                    *)
LEMMA StaleIsRight == ASSUME WorkspaceInvariant PROVE StaleIsTrue
  <1> USE DEF WorkspaceInvariant, WorkspaceTyped, BinariesInOrder, BuildInOrder, Root
  <1>1. ASSUME NEW r \in Root, binary_matches_checkout(r) = "yes"
        PROVE  engine[r].state = "runs" /\ engine[r].baked = checkout[r]
    BY <1>1 DEF binary_matches_checkout
  <1>2. ASSUME NEW r \in Root, binary_matches_checkout(r) = "no"
        PROVE  engine[r].state = "runs" /\ engine[r].baked # checkout[r]
    BY <1>2 DEF binary_matches_checkout
  <1>3. ASSUME NEW r \in Root, binary_matches_checkout(r) = "yes" PROVE engine[r].source = checkout[r]
    BY <1>1, <1>3 DEF BinaryFile
  <1>4. build.at = "built" /\ build.alone /\ build.target = "simc" => ~stale_hint("managed")
    BY <1>2 DEF stale_hint
  <1> QED
    BY <1>3, <1>4 DEF StaleIsTrue

LEMMA StaysKeepsWorkspace == ASSUME WorkspaceInvariant, UNCHANGED workspace PROVE WorkspaceInvariant'
  BY DEF WorkspaceInvariant, WorkspaceTyped, BinariesInOrder, BuildInOrder, workspace

-----------------------------------------------------------------------------
(* What the invariant says of an ended or a running command.                *)

LEMMA PairsAreComplete == \A k \in Pair : Complete(k) /\ k # Nobody
  BY BuildsAssumption DEF Complete, None, Nobody

LEMMA Consequences == ASSUME BuildsInvariant PROVE BuildsHold /\ StaleHolds /\ PacketsHold
  <1> USE DEF BuildsInvariant, CommandInvariant
  <1>1. IdentityHolds
    BY DEF HighIsRight, AplFits, Accepted, OtherApl, IdentityHolds, Answered
  <1>2. StaleRejectionsTold
    BY DEF Rejected, StaleRejectionsTold, StaleBinaryTold
  <1>3. PacketsHold
    BY DEF Validation, Vouched, Returned, Encoded, PacketsHold, Answered
  <1> QED
    BY <1>1, <1>2, <1>3, StaleIsRight DEF BuildsHold, StaleHolds

(* Running a build on a pair, and what a command does about it.             *)
LEMMA RunCases ==
  ASSUME BuildsInvariant, NEW b, NEW k
  PROVE  /\ Run(b, k) \in {"unsupported", "not_ready", "ok", "rejected"}
         /\ Run(b, k) = "ok" <=> Runs(b, k)
         /\ Run(b, k) = "rejected" =>
              engine[command.root].state = "runs" /\ ~engine[command.root].forever /\ ~Runs(b, k)
         /\ Run(b, k) \in {"unsupported", "not_ready"} =>
              ~(engine[command.root].state = "runs" /\ ~engine[command.root].forever)
  <1> DEFINE e == engine[command.root]
  <1>1. e.state \in {"missing", "broken", "runs"} /\ e.forever \in BOOLEAN
    BY DEF BuildsInvariant, WorkspaceInvariant, WorkspaceTyped, BinaryFile, CommandInvariant, CommandTyped
  <1>2. CASE e.state = "runs" /\ e.forever
    <2>1. Run(b, k) = "unsupported"
      BY <1>2 DEF Run
    <2> QED
      BY <1>2, <2>1 DEF Runs
  <1>3. CASE e.state # "runs"
    <2>1. Run(b, k) = "not_ready"
      BY <1>3 DEF Run
    <2> QED
      BY <1>3, <2>1 DEF Runs
  <1>4. CASE e.state = "runs" /\ ~e.forever /\ Runs(b, k)
    <2>1. Run(b, k) = "ok"
      BY <1>4 DEF Run, Runs
    <2> QED
      BY <1>4, <2>1 DEF Runs
  <1>5. CASE e.state = "runs" /\ ~e.forever /\ ~Runs(b, k)
    <2>1. Run(b, k) = "rejected"
      BY <1>5 DEF Run, Runs
    <2> QED
      BY <1>5, <2>1 DEF Runs
  <1> QED
    BY <1>1, <1>2, <1>3, <1>4, <1>5

(* A binary that wrongs a build is older than its checkout.                 *)
LEMMA WrongsAreOld ==
  ASSUME BuildsInvariant, NEW b, NEW k, Wrongs(b, k)
  PROVE  Old(command.root) /\ engine[command.root].source < b.made /\ HasHash(b) /\ k \in b.decodes
  BY RunCases DEF Wrongs, Old

(* An old binary does not match its checkout.                               *)
LEMMA OldIsStale == ASSUME WorkspaceInvariant, NEW r \in Root, Old(r) PROVE stale_hint(r) /\ game_variant(r) # "forever"
  <1>1. engine[r].state = "runs" /\ ~engine[r].forever /\ engine[r].baked # checkout[r]
    BY DEF Old, WorkspaceInvariant, WorkspaceTyped, BinariesInOrder, BinaryFile
  <1> QED
    BY <1>1 DEF stale_hint, binary_matches_checkout, game_variant

-----------------------------------------------------------------------------
(* Steps that leave what was identified as it is.                           *)

Kept ==
  /\ UNCHANGED workspace /\ DOMAIN command' = DOMAIN Idle
  /\ command'.name = command.name /\ command'.root = command.root /\ command'.build = command.build
  /\ command'.second = command.second /\ command'.apl = command.apl /\ command'.edits = command.edits
  /\ command'.swaps = command.swaps /\ command'.asked = command.asked /\ command'.pair = command.pair
  /\ command'.guessed = command.guessed /\ command'.confidence = command.confidence
  /\ command'.packet = command.packet /\ command'.route = command.route /\ command'.steady = command.steady
  /\ command.name = "packet" => command'.export = command.export

(* Such a step that leads on.                                               *)
Progress ==
  /\ Kept /\ command'.wronged = command.wronged /\ command'.rejoins = command.rejoins
  /\ command'.at \in Stages \ {"idle", "confirm", "probe", "identified", "explain", "routed", "validate", "round_trip"}

(* Such a step that fails, or is to explain why the build was rejected.     *)
Failure(W) ==
  /\ Kept
  /\ \/ /\ command'.at = "done" /\ command'.code # "answered" /\ command'.wronged = command.wronged
        /\ command'.rejoins = command.rejoins
        /\ ~(command.wronged /\ command.steady /\ ~command.guessed)
     \/ /\ command'.at = "explain" /\ command'.wronged = (command.wronged \/ W) /\ command'.rejoins \in BOOLEAN

LEMMA KeptIdentity ==
  ASSUME BuildsInvariant, Kept, Running, command'.at \notin {"idle", "confirm", "probe", "identified"}
  PROVE  AtHome' /\ Identification' /\ HighIsRight'
  <1> USE DEF BuildsInvariant, CommandInvariant, Kept
  <1>1. AtHome'
    BY DEF AtHome, Running, resolve_repo_root, workspace
  <1>2. Identification'
    BY DEF Identification, Identifying
  <1>3. HighIsRight'
    BY DEF HighIsRight
  <1> QED
    BY <1>1, <1>2, <1>3

LEMMA KeptPacket ==
  ASSUME BuildsInvariant, command'.at \notin {"routed", "validate", "round_trip"},
         command'.name = command.name, command'.packet = command.packet, command'.route = command.route,
         command.name = "packet" => command'.export = command.export
  PROVE  Validation'
  BY DEF BuildsInvariant, CommandInvariant, Validation, Routing, Vouched, Returned

LEMMA FailureKeeps ==
  ASSUME BuildsInvariant, Running, NEW W \in BOOLEAN, Failure(W), W => Old(command.root)
  PROVE  BuildsInvariant'
  <1> USE DEF Failure
  <1>1. command'.at \in {"done", "explain"} /\ Kept
    OBVIOUS
  <1>2. WorkspaceInvariant'
    BY <1>1, StaysKeepsWorkspace DEF BuildsInvariant, Kept
  <1>3. AtHome' /\ Identification' /\ HighIsRight'
    BY <1>1, KeptIdentity
  <1>4. Validation'
    BY <1>1, KeptPacket DEF Kept
  <1> USE DEF BuildsInvariant, CommandInvariant
  <1>5. CommandTyped'
    BY DEF CommandTyped, Kept, Stages
  <1>6. AplFits' /\ ModifiedAsAsked' /\ Stations'
    BY DEF AplFits, Accepted, ModifiedAsAsked, Answered, Stations
  <1>7. Modification'
    BY DEF Modification, Kept, Running
  <1>8. Rejected'
    <2>1. PICK r \in Root : r = command.root
      BY DEF CommandTyped
    <2>4. Old(r)' <=> Old(r)
      BY DEF Kept, workspace, Old
    <2>2. CASE command'.at = "done"
      BY <1>1, <2>2 DEF Rejected, Kept
    <2>3. CASE command'.at = "explain"
      <3>1. command'.wronged /\ command'.steady /\ ~command'.guessed => Old(r)
        BY <2>1, <2>3 DEF Rejected, Kept, Running
      <3>2. command'.root = r
        BY <2>1 DEF Kept
      <3> QED
        BY <2>4, <2>3, <3>1, <3>2 DEF Rejected
    <2> QED
      BY <1>1, <2>2, <2>3
  <1> QED
    BY <1>2, <1>3, <1>4, <1>5, <1>6, <1>7, <1>8

-----------------------------------------------------------------------------
(* Commands that run the binary.                                            *)

(* What a command that is to go on does when it runs the binary first.      *)
LEMMA AfterCases ==
  ASSUME BuildsInvariant, UNCHANGED workspace, NEW b, NEW k, NEW on, NEW rejoins \in BOOLEAN, After(b, k, on, rejoins),
         command.wronged /\ command.steady /\ ~command.guessed => Old(command.root)
  PROVE  \/ Runs(b, k) /\ command' = on
         \/ Failure(Wrongs(b, k))
  <1>1. CASE Run(b, k) = "ok"
    BY <1>1, RunCases DEF After, Goes
  <1>2. CASE Run(b, k) = "rejected"
    <2>1. command' = [[command EXCEPT !.wronged = @ \/ Wrongs(b, k)] EXCEPT !.at = "explain", !.rejoins = rejoins]
      BY <1>2 DEF After, Goes, Ran
    <2>2. Kept /\ command'.at = "explain" /\ command'.wronged = (command.wronged \/ Wrongs(b, k)) /\ command'.rejoins = rejoins
      BY <2>1 DEF BuildsInvariant, CommandInvariant, CommandTyped, Kept, Idle
    <2> QED
      BY <2>2 DEF Failure
  <1>3. CASE Run(b, k) \in {"unsupported", "not_ready"}
    <2>1. command' = [command EXCEPT !.at = "done", !.code = Run(b, k)]
      BY <1>3 DEF After, Goes, Ends
    <2>2. /\ Kept /\ command'.at = "done" /\ command'.code = Run(b, k) /\ command'.wronged = command.wronged
          /\ command'.rejoins = command.rejoins
      BY <2>1 DEF BuildsInvariant, CommandInvariant, CommandTyped, Kept, Idle
    <2>3. ~(command.wronged /\ command.steady /\ ~command.guessed)
      BY <1>3, RunCases DEF Old
    <2> QED
      BY <1>3, <2>2, <2>3 DEF Failure
  <1> QED
    BY <1>1, <1>2, <1>3, RunCases

(* So it either goes on, or fails and the invariant is kept.                *)
LEMMA AfterKeeps ==
  ASSUME BuildsInvariant, UNCHANGED workspace, Running, command.at # "probe", command.at # "explain",
         NEW b, NEW k, NEW on, NEW rejoins \in BOOLEAN, After(b, k, on, rejoins)
  PROVE  (Runs(b, k) /\ command' = on) \/ BuildsInvariant'
  <1>1. command.wronged /\ command.steady /\ ~command.guessed => Old(command.root)
    BY DEF BuildsInvariant, CommandInvariant, Rejected, Running
  <1>2. Wrongs(b, k) \in BOOLEAN /\ (Wrongs(b, k) => Old(command.root))
    BY WrongsAreOld DEF Wrongs
  <1> QED
    BY <1>1, <1>2, AfterCases, FailureKeeps

(* A step that leads on past the identification.                            *)
LEMMA ProgressKeeps ==
  ASSUME BuildsInvariant, Progress, Running, command.at \notin {"probe", "explain"},
         AplFits', ModifiedAsAsked', Stations',
         command.name = "modify" /\ command'.at = "verify" => Encoded(command'.export.talents)
  PROVE  BuildsInvariant'
  <1> USE DEF Progress, BuildsInvariant, CommandInvariant
  <1>1. WorkspaceInvariant'
    BY StaysKeepsWorkspace DEF Kept
  <1>2. AtHome' /\ Identification' /\ HighIsRight'
    BY KeptIdentity DEF BuildsInvariant
  <1>3. Validation'
    BY KeptPacket DEF Kept
  <1>4. CommandTyped'
    BY DEF CommandTyped, Kept
  <1>5. Modification'
    BY DEF Modification, Kept, Running
  <1>6. Rejected'
    BY DEF Rejected, Kept, Running
  <1> QED
    BY <1>1, <1>2, <1>3, <1>4, <1>5, <1>6

(* What comes of a command that only its place and code are changed of.     *)
LEMMA EndsIsProgress ==
  ASSUME BuildsInvariant, UNCHANGED workspace, NEW code, Ends(command, code)
  PROVE  Progress /\ command'.at = "done" /\ command'.code = code /\ command'.export = command.export
  BY DEF BuildsInvariant, CommandInvariant, CommandTyped, Kept, Progress, Ends, Goes, Idle, Stages

LEMMA MovesIsProgress ==
  ASSUME BuildsInvariant, UNCHANGED workspace, NEW place \in {"second", "swap", "decode", "edit", "verify", "write"},
         command' = [command EXCEPT !.at = place]
  PROVE  Progress /\ command'.at = place /\ command'.export = command.export
  BY DEF BuildsInvariant, CommandInvariant, CommandTyped, Kept, Progress, Idle, Stages

(* A command that fails by itself keeps the invariant.                      *)
LEMMA EndsKeeps ==
  ASSUME BuildsInvariant, UNCHANGED workspace, Running, command.at \notin {"probe", "explain"}, NEW code,
         Ends(command, code), code # "answered" \/ (command.name # "modify" /\ ~OtherApl(command))
  PROVE  BuildsInvariant'
  <1>1. Progress /\ command'.at = "done" /\ command'.code = code
    BY EndsIsProgress
  <1>2. AplFits'
    BY <1>1 DEF AplFits, Accepted, OtherApl, Progress, Kept
  <1>3. ModifiedAsAsked' /\ Stations'
    BY <1>1 DEF ModifiedAsAsked, Answered, Stations, Progress, Kept
  <1> QED
    BY <1>1, <1>2, <1>3, ProgressKeeps

LEMMA MovesKeeps ==
  ASSUME BuildsInvariant, UNCHANGED workspace, Running, command.at \notin {"probe", "explain"},
         NEW place \in {"second", "swap", "decode", "edit", "verify", "write"}, command' = [command EXCEPT !.at = place],
         ~OtherApl(command), place = "write" => command.name = "apply", place = "edit" => command.name = "modify",
         place # "verify"
  PROVE  BuildsInvariant'
  <1>1. Progress /\ command'.at = place
    BY MovesIsProgress
  <1>2. AplFits'
    BY <1>1 DEF AplFits, OtherApl, Progress, Kept
  <1>3. ModifiedAsAsked' /\ Stations'
    BY <1>1 DEF ModifiedAsAsked, Answered, Stations, Progress, Kept
  <1> QED
    BY <1>1, <1>2, <1>3, ProgressKeeps

-----------------------------------------------------------------------------
(* One lemma per step of a command.                                         *)

LEMMA StaysIs == ASSUME Stays PROVE UNCHANGED workspace
  BY DEF Stays

LEMMA ExplainKeeps == ASSUME BuildsInvariant, Explain PROVE BuildsInvariant'
  <1> DEFINE root == IF command.rejoins THEN resolve_repo_root ELSE command.root
  <1>1. /\ command.at = "explain" /\ UNCHANGED workspace /\ Running
        /\ IF command.rejoins /\ game_variant(root) = "forever" THEN Ends(command, "unsupported")
           ELSE Ends([command EXCEPT !.hint = stale_hint(root)], "invalid_build")
    BY DEF Explain, Stays, Running
  <1> USE DEF BuildsInvariant, CommandInvariant
  <1>2. command.wronged /\ command.steady /\ ~command.guessed => Old(command.root) /\ command.root = root
    BY <1>1 DEF Rejected, AtHome
  <1>3. command.root \in Root
    BY DEF CommandTyped
  <1>4. command.wronged /\ command.steady /\ ~command.guessed => stale_hint(root) /\ game_variant(root) # "forever"
    BY <1>2, <1>3, OldIsStale
  <1> HIDE DEF root
  <1>5. CASE command.rejoins /\ game_variant(root) = "forever"
    <2>1. Progress /\ command'.at = "done" /\ command'.code = "unsupported"
      BY <1>1, <1>5, EndsIsProgress
    <2>2. Failure(FALSE)
      BY <1>4, <1>5, <2>1 DEF Failure, Progress
    <2> QED
      BY <1>1, <2>2, FailureKeeps
  <1>6. CASE ~(command.rejoins /\ game_variant(root) = "forever")
    <2>1. command' = [[command EXCEPT !.hint = stale_hint(root)] EXCEPT !.at = "done", !.code = "invalid_build"]
      BY <1>1, <1>6 DEF Ends, Goes
    <2>2. Progress /\ command'.at = "done" /\ command'.code = "invalid_build" /\ (stale_hint(root) => command'.hint)
      BY <1>1, <2>1 DEF CommandTyped, Kept, Progress, Idle, Stages
    <2>3. AtHome' /\ Identification' /\ HighIsRight'
      BY <1>1, <2>2, KeptIdentity DEF Progress
    <2>4. Validation'
      BY <2>2, KeptPacket DEF Progress, Kept
    <2>5. WorkspaceInvariant'
      BY <1>1, StaysKeepsWorkspace
    <2>6. CommandTyped' /\ Modification'
      BY <2>2 DEF Progress, Kept, CommandTyped, Modification, Running
    <2>7. AplFits' /\ ModifiedAsAsked' /\ Stations'
      BY <2>2 DEF AplFits, Accepted, ModifiedAsAsked, Answered, Stations
    <2>8. Rejected'
      BY <1>4, <2>2 DEF Rejected, Progress, Kept
    <2> QED
      BY <2>3, <2>4, <2>5, <2>6, <2>7, <2>8
  <1> QED
    BY <1>5, <1>6

LEMMA LoadOtherKeeps == ASSUME BuildsInvariant, load_other_build PROVE BuildsInvariant'
  <1> DEFINE place == IF command.name = "modify" THEN "swap" ELSE "decode"
             on == [command EXCEPT !.at = place]
  <1>1. command.at = "second" /\ UNCHANGED workspace /\ Running
    BY DEF load_other_build, Stays, Running
  <1>2. \/ Ends(command, "invalid_query") \/ command' = on \/ After(command.second, command.pair, on, FALSE)
    BY DEF load_other_build, Goes
  <1>3. ~OtherApl(command)
    BY <1>1 DEF BuildsInvariant, CommandInvariant, AplFits, Accepted
  <1>4. CASE Ends(command, "invalid_query")
    BY <1>1, <1>4, EndsKeeps
  <1>5. CASE command' = on
    BY <1>1, <1>3, <1>5, MovesKeeps
  <1>6. CASE After(command.second, command.pair, on, FALSE)
    <2>1. command' = on \/ BuildsInvariant'
      BY <1>1, <1>6, AfterKeeps
    <2> QED
      BY <1>5, <2>1
  <1> QED
    BY <1>2, <1>4, <1>5, <1>6

LEMMA DecodeKeeps == ASSUME BuildsInvariant, Decode PROVE BuildsInvariant'
  <1> DEFINE place == CASE command.name = "modify"  -> IF command.swaps = None THEN "edit" ELSE "second"
                        [] command.name = "compare" -> "swap"
                        [] OTHER                    -> "write"
             moves == [command EXCEPT !.at = place]
             ends == [command EXCEPT !.at = "done", !.code = "answered"]
             on == CASE command.name = "modify"  -> [command EXCEPT !.at = IF command.swaps = None THEN "edit" ELSE "second"]
                     [] command.name = "compare" -> [command EXCEPT !.at = "swap"]
                     [] command.name = "apply"   -> [command EXCEPT !.at = "write"]
                     [] OTHER                    -> ends
             rejoins == command.name \in {"modify", "compare", "analyse"}
  <1>1. command.at = "decode" /\ UNCHANGED workspace /\ Running /\ After(command.build, command.pair, on, rejoins)
    BY DEF Decode, Stays, Running
  <1>2. ~OtherApl(command)
    BY <1>1 DEF BuildsInvariant, CommandInvariant, AplFits, Accepted
  <1>3. (command.name \in {"modify", "compare", "apply"} /\ on = moves) \/ (command.name # "modify" /\ on = ends)
    OBVIOUS
  <1>4. /\ place \in {"edit", "second", "swap", "write"}
        /\ (command.name \in {"modify", "compare"} => place # "write") /\ (place = "edit" => command.name = "modify")
    OBVIOUS
  <1>5. CASE command.name \in {"modify", "compare", "apply"} /\ command' = moves
    BY <1>1, <1>2, <1>4, <1>5, MovesKeeps
  <1>6. CASE command.name # "modify" /\ command' = ends
    BY <1>1, <1>2, <1>6, EndsKeeps DEF Ends, Goes
  <1>7. rejoins \in BOOLEAN
    OBVIOUS
  <1> HIDE DEF on, rejoins
  <1>8. command' = on \/ BuildsInvariant'
    BY <1>1, <1>7, AfterKeeps
  <1> QED
    BY <1>3, <1>5, <1>6, <1>8

LEMMA DecodeOtherKeeps == ASSUME BuildsInvariant, DecodeOther PROVE BuildsInvariant'
  <1> DEFINE on == IF command.name = "modify" THEN [command EXCEPT !.at = "edit"]
                   ELSE [command EXCEPT !.at = "done", !.code = "answered"]
  <1>1. command.at = "swap" /\ UNCHANGED workspace /\ Running /\ After(command.second, command.pair, on, TRUE)
    BY DEF DecodeOther, Stays, Running
  <1>2. ~OtherApl(command)
    BY <1>1 DEF BuildsInvariant, CommandInvariant, AplFits, Accepted
  <1>3. CASE command.name = "modify" /\ command' = [command EXCEPT !.at = "edit"]
    BY <1>1, <1>2, <1>3, MovesKeeps
  <1>4. CASE command.name # "modify" /\ command' = [command EXCEPT !.at = "done", !.code = "answered"]
    BY <1>1, <1>2, <1>4, EndsKeeps DEF Ends, Goes
  <1>5. command' = on \/ BuildsInvariant'
    BY <1>1, AfterKeeps
  <1> QED
    BY <1>3, <1>4, <1>5

LEMMA WriteKeeps == ASSUME BuildsInvariant, write_profile PROVE BuildsInvariant'
  <1>1. command.at = "write" /\ UNCHANGED workspace /\ Running
    BY DEF write_profile, Running
  <1>2. Ends(command, "answered") \/ Ends(command, "output_exists")
    BY DEF write_profile
  <1>3. ~OtherApl(command) /\ command.name = "apply"
    BY <1>1 DEF BuildsInvariant, CommandInvariant, AplFits, Accepted, Stations
  <1> QED
    BY <1>1, <1>2, <1>3, EndsKeeps

-----------------------------------------------------------------------------
(* modify-build.                                                            *)

(* What is misread is of one talent, or of one tiered node.                 *)
LEMMA MisreadOnce ==
  ASSUME NEW talents, NEW misread \in Misreadings(talents)
  PROVE  /\ \A e \in DOMAIN misread : e \in Entry /\ misread[e] \in Nat
         /\ (\A e \in DOMAIN misread : misread[e] = 0) \/ DOMAIN misread \in Tiered
  <1> DEFINE most(node) == Max({MaxRank[e] : e \in node})
  <1>1. CASE misread = <<>>
    BY <1>1
  <1>2. ASSUME NEW o \in Entry, misread = [x \in {o} |-> 0] PROVE TRUE /\ DOMAIN misread = {o} /\ misread[o] = 0
    BY <1>2
  <1>3. ASSUME NEW node \in Tiered, misread \in [node -> 0..most(node)]
        PROVE  DOMAIN misread = node /\ node \subseteq Entry /\ \A e \in node : misread[e] \in 0..most(node)
    BY <1>3, BuildsAssumption
  <1>4. \A top : \A n \in 0..top : n \in Nat
    OBVIOUS
  <1> HIDE DEF most
  <1>5. CASE \E o \in Entry : misread = [x \in {o} |-> 0]
    BY <1>2, <1>5
  <1>6. CASE \E node \in Tiered : misread \in [node -> 0..most(node)]
    BY <1>3, <1>4, <1>6
  <1> QED
    BY <1>1, <1>5, <1>6 DEF Misreadings, most

(* What SimC encodes has one talent of each choice node at most.            *)
LEMMA EncodedOnce ==
  ASSUME NEW talents \in [Entry -> Nat], NEW misread \in Misreadings(talents), NEW granted \in SUBSET Keystone
  PROVE  Encoded(SimcEncodes(talents, misread, granted))
  <1> DEFINE new == SimcEncodes(talents, misread, granted)
  <1>1. ASSUME NEW m \in Nat, NEW n \in Nat PROVE Min({m, n}) \in Nat /\ (m = 0 => Min({m, n}) = 0)
    <2>1. CASE m <= n
      <3>1. \E x \in {m, n} : \A y \in {m, n} : x <= y
        BY <2>1
      <3>2. Min({m, n}) \in {m, n} /\ \A y \in {m, n} : Min({m, n}) <= y
        BY <3>1 DEF Min
      <3> QED
        BY <3>2
    <2>2. CASE n <= m
      <3>1. \E x \in {m, n} : \A y \in {m, n} : x <= y
        BY <2>2
      <3>2. Min({m, n}) \in {m, n} /\ \A y \in {m, n} : Min({m, n}) <= y
        BY <3>1 DEF Min
      <3> QED
        BY <3>2
    <2> QED
      BY <2>1, <2>2
  <1>2. ASSUME NEW e \in Entry PROVE Min({talents[e], MaxRank[e]}) \in Nat /\ (talents[e] = 0 => Min({talents[e], MaxRank[e]}) = 0)
    <2>1. talents[e] \in Nat /\ MaxRank[e] \in Nat
      BY BuildsAssumption
    <2> QED
      BY <1>1, <2>1
  <1>3. new \in [Entry -> Nat]
    BY <1>2, MisreadOnce, BuildsAssumption DEF SimcEncodes
  <1>4. ASSUME NEW e \in Entry, NEW o \in Entry, o < e, Choice[o] = Choice[e] PROVE new[e] = 0 \/ new[o] = 0
    <2>1. {e, o} \cap (Keystone \cup UNION Tiered) = {}
      BY <1>4, BuildsAssumption
    <2>2. {e, o} \cap granted = {} /\ \A x \in {e, o} : x \in DOMAIN misread => misread[x] = 0
      BY <2>1, MisreadOnce
    <2>3. \A x \in {e, o} : x \in DOMAIN misread => new[x] = 0
      BY <2>2 DEF SimcEncodes
    <2>4. CASE {e, o} \cap DOMAIN misread = {} /\ talents[o] > 0
      BY <1>4, <2>2, <2>4 DEF SimcEncodes
    <2>5. CASE {e, o} \cap DOMAIN misread = {} /\ talents[o] = 0
      BY <1>2, <2>2, <2>5 DEF SimcEncodes
    <2> QED
      BY <2>3, <2>4, <2>5
  <1> HIDE DEF new
  <1>5. \A e, o \in Entry : e # o => o < e \/ e < o
    BY BuildsAssumption
  <1>6. \A e, o \in Entry : e # o /\ Choice[e] = Choice[o] => new[e] = 0 \/ new[o] = 0
    BY <1>4, <1>5
  <1> QED
    BY <1>3, <1>6 DEF Encoded, new

LEMMA WantedIsTalents ==
  ASSUME command.build \in Builds, command.second \in Builds, command.edits \subseteq Entry \X Nat
  PROVE  Wanted(command) \in [Entry -> Nat]
  <1>1. command.build.talents \in [Entry -> Nat] /\ command.second.talents \in [Entry -> Nat]
    BY BuildsAssumption
  <1>2. ASSUME NEW e \in Entry PROVE Source(command, e) \in Nat
    BY <1>1 DEF Source
  <1>3. ASSUME NEW e \in Entry, e \in Edited(command)
        PROVE  (CHOOSE edit \in command.edits : edit[1] = e)[2] \in Nat
    <2>1. PICK x \in command.edits : x[1] = e
      BY <1>3 DEF Edited
    <2>2. (CHOOSE edit \in command.edits : edit[1] = e) \in command.edits
      BY <2>1
    <2> QED
      BY <2>2
  <1> QED
    BY <1>2, <1>3 DEF Wanted

LEMMA EncodeKeeps == ASSUME BuildsInvariant, encode_build PROVE BuildsInvariant'
  <1>1. command.at = "edit" /\ UNCHANGED workspace /\ Running
    BY DEF encode_build, Stays, Running
  <1>2. ~OtherApl(command)
    BY <1>1 DEF BuildsInvariant, CommandInvariant, AplFits, Accepted
  <1>3. \/ Ends(command, "invalid_argument") \/ Ends(command, "not_ready")
        \/ \E misread \in Misreadings(Wanted(command)), granted \in SUBSET Keystone :
             command' = [command EXCEPT !.at = "verify",
               !.export = [command.build EXCEPT !.form = "export", !.decodes = {command.pair}, !.made = engine[command.root].source,
                             !.talents = SimcEncodes(Wanted(command), misread, granted)]]
    BY DEF encode_build, Goes
  <1>4. CASE Ends(command, "invalid_argument") \/ Ends(command, "not_ready")
    BY <1>1, <1>4, EndsKeeps
  <1>5. ASSUME NEW misread \in Misreadings(Wanted(command)), NEW granted \in SUBSET Keystone, NEW export,
               export = [command.build EXCEPT !.form = "export", !.decodes = {command.pair}, !.made = engine[command.root].source,
                           !.talents = SimcEncodes(Wanted(command), misread, granted)],
               command' = [command EXCEPT !.at = "verify", !.export = export]
        PROVE  BuildsInvariant'
    <2>1. Progress /\ command'.at = "verify" /\ command'.export = export
      BY <1>1, <1>5 DEF BuildsInvariant, CommandInvariant, CommandTyped, Stations, Kept, Progress, Idle, Stages
    <2>2. AplFits' /\ ModifiedAsAsked' /\ Stations'
      BY <1>2, <2>1 DEF AplFits, OtherApl, Progress, Kept, ModifiedAsAsked, Answered, Stations
    <2>3. ASSUME command.name = "modify" PROVE Encoded(command'.export.talents)
      <3>1. command.build \in Builds /\ command.second \in Builds /\ command.edits \subseteq Entry \X Nat
        BY <1>1, <2>3 DEF BuildsInvariant, CommandInvariant, Modification
      <3>2. export.talents = SimcEncodes(Wanted(command), misread, granted)
        BY <1>5, <3>1, BuildsAssumption
      <3> QED
        BY <2>1, <3>1, <3>2, WantedIsTalents, EncodedOnce
    <2> QED
      BY <1>1, <2>1, <2>2, <2>3, ProgressKeeps
  <1> QED
    BY <1>3, <1>4, <1>5

(* What is verified to have its edits and nothing else is what was wanted.  *)
LEMMA VerifiedIsWanted ==
  ASSUME command.export.talents \in [Entry -> Nat], unrequested_changes(command) = {}, unapplied_edits(command) = {}
  PROVE  command.export.talents = Wanted(command)
  <1>1. ASSUME NEW e \in Entry, e \in Edited(command) PROVE command.export.talents[e] = Wanted(command)[e]
    <2>1. PICK x \in command.edits : x[1] = e
      BY <1>1 DEF Edited
    <2> DEFINE y == CHOOSE edit \in command.edits : edit[1] = e
    <2>2. y \in command.edits /\ y[1] = e
      BY <2>1
    <2>3. Wanted(command)[e] = y[2]
      BY <1>1 DEF Wanted
    <2> HIDE DEF y
    <2>4. command.export.talents[y[1]] = y[2]
      BY <2>2 DEF unapplied_edits
    <2> QED
      BY <2>2, <2>3, <2>4
  <1>2. ASSUME NEW e \in Entry, e \notin Edited(command) PROVE command.export.talents[e] = Wanted(command)[e]
    BY <1>2 DEF unrequested_changes, Wanted
  <1>3. DOMAIN Wanted(command) = Entry /\ Wanted(command) = [e \in Entry |-> Wanted(command)[e]]
    BY DEF Wanted
  <1> QED
    BY <1>1, <1>2, <1>3

LEMMA VerifyKeeps == ASSUME BuildsInvariant, verify PROVE BuildsInvariant'
  <1> DEFINE matches == unrequested_changes(command) = {} /\ unapplied_edits(command) = {}
             on == [command EXCEPT !.at = "done", !.code = IF matches THEN "answered" ELSE "encode_mismatch"]
  <1>1. command.at = "verify" /\ UNCHANGED workspace /\ Running /\ After(command.export, command.pair, on, TRUE)
    BY DEF verify, Stays, Running
  <1>2. ~OtherApl(command)
    BY <1>1 DEF BuildsInvariant, CommandInvariant, AplFits, Accepted
  <1>3. CASE command' = on
    <2>1. Ends(command, IF matches THEN "answered" ELSE "encode_mismatch")
      BY <1>3 DEF Ends, Goes
    <2>2. Progress /\ command'.at = "done" /\ command'.export = command.export
      BY <1>1, <2>1, EndsIsProgress
    <2>3. command'.code = "answered" => matches
      BY <1>1, <2>1, EndsIsProgress
    <2>4. AplFits' /\ Stations'
      BY <1>2, <2>2 DEF AplFits, OtherApl, Progress, Kept, Stations
    <2>5. Wanted(command)' = Wanted(command)
      BY <2>2 DEF Wanted, Edited, Source, Progress, Kept
    <2>6. ASSUME command.name = "modify", matches
          PROVE  command.export.talents = Wanted(command) /\ Encoded(command.export.talents)
      <3>1. Encoded(command.export.talents)
        BY <1>1, <2>6 DEF BuildsInvariant, CommandInvariant, Modification
      <3>2. command.export.talents \in [Entry -> Nat]
        BY <3>1 DEF Encoded
      <3> QED
        BY <2>6, <3>1, <3>2, VerifiedIsWanted
    <2> HIDE DEF matches, on
    <2>7. ModifiedAsAsked'
      BY <2>2, <2>3, <2>5, <2>6 DEF ModifiedAsAsked, Answered, Encoded, Progress, Kept
    <2> QED
      BY <1>1, <2>2, <2>4, <2>7, ProgressKeeps
  <1> HIDE DEF on
  <1>4. command' = on \/ BuildsInvariant'
    BY <1>1, AfterKeeps
  <1> QED
    BY <1>3, <1>4

-----------------------------------------------------------------------------
(* Identification.                                                          *)

LEMMA IdentifiedKeeps == ASSUME BuildsInvariant, Identified PROVE BuildsInvariant'
  <1> DEFINE c == command
             talents == HasTalents(c.build)
             unnamed == ~Complete(c.pair)
             unfit == \/ OtherApl(c)
                      \/ c.name \in {"decode", "apply", "describe"} /\ ~talents
                      \/ c.name = "identify" /\ c.confidence = "none" /\ ~talents
                      \/ c.name \notin {"identify", "analyse"} /\ unnamed
                      \/ c.name = "analyse" /\ talents /\ unnamed
                      \/ c.name = "apply" /\ c.pair # c.profile
  <1>1. command.at = "identified" /\ UNCHANGED workspace /\ Running
    BY DEF Identified, Stays, Running
  <1>2. \/ unfit /\ Ends(command, "invalid_query")
        \/ ~unfit /\ (c.name \in {"identify", "harness"} \/ ~talents) /\ Ends(command, "answered")
        \/ ~unfit /\ command' = [command EXCEPT !.at = "second"]
        \/ ~unfit /\ command' = [command EXCEPT !.at = "decode"]
    BY DEF Identified, Goes
  <1>3. CASE unfit /\ Ends(command, "invalid_query")
    BY <1>1, <1>3, EndsKeeps
  <1>4. CASE ~unfit /\ (c.name \in {"identify", "harness"} \/ ~talents) /\ Ends(command, "answered")
    <2>1. command.name # "modify"
      BY <1>1, <1>4 DEF BuildsInvariant, CommandInvariant, Modification
    <2> QED
      BY <1>1, <1>4, <2>1, EndsKeeps
  <1>5. CASE ~unfit /\ command' = [command EXCEPT !.at = "second"]
    BY <1>1, <1>5, MovesKeeps
  <1>6. CASE ~unfit /\ command' = [command EXCEPT !.at = "decode"]
    BY <1>1, <1>6, MovesKeeps
  <1> QED
    BY <1>2, <1>3, <1>4, <1>5, <1>6

(* What a step of the identification leaves alone.                          *)
Reading ==
  /\ UNCHANGED workspace /\ DOMAIN command' = DOMAIN Idle
  /\ command'.name = command.name /\ command'.root = command.root /\ command'.build = command.build
  /\ command'.second = command.second /\ command'.apl = command.apl /\ command'.edits = command.edits
  /\ command'.asked = command.asked /\ command'.guessed = command.guessed /\ command'.steady = command.steady
  /\ command'.packet = command.packet /\ command'.route = command.route /\ command'.rejoins = command.rejoins
  /\ command'.export = command.export /\ command'.at \in {"identified", "probe"}

LEMMA ReadingKeeps ==
  ASSUME BuildsInvariant, Running, command.at \in {"confirm", "probe"}, Reading,
         command'.wronged \in BOOLEAN, Identification', HighIsRight', Rejected'
  PROVE  BuildsInvariant'
  <1> USE DEF BuildsInvariant, CommandInvariant, Reading
  <1>1. WorkspaceInvariant'
    BY StaysKeepsWorkspace
  <1>2. CommandTyped'
    BY DEF CommandTyped, Stages
  <1>3. AtHome'
    BY DEF AtHome, Running, resolve_repo_root, workspace
  <1>4. AplFits' /\ ModifiedAsAsked' /\ Stations'
    BY DEF AplFits, Accepted, ModifiedAsAsked, Answered, Stations
  <1>5. Modification'
    BY DEF Modification, Identification, Running, HasTalents, HasHash
  <1>6. Validation'
    BY KeptPacket
  <1> QED
    BY <1>1, <1>2, <1>3, <1>4, <1>5, <1>6

(* An export's header is a candidate wherever its own spec was to be tried. *)
LEMMA SpecFitsItself == ASSUME NEW k \in Pair PROVE Fits(k, k) /\ Fits(k, Nobody)
  BY DEF Fits, Nobody

LEMMA UnconfirmedKeeps == ASSUME BuildsInvariant, unconfirmed_identity PROVE BuildsInvariant'
  <1> DEFINE b == command.build
             pair == command.pair
             named == IF b.form = "url" THEN Nobody ELSE pair
  <1>1. command.at = "confirm" /\ UNCHANGED workspace /\ Running
    BY DEF unconfirmed_identity, Stays, Running
  <1> USE DEF BuildsInvariant, CommandInvariant
  <1>2. /\ Sound(b) /\ HasHash(b) /\ b.form # "packet" /\ command.matches = {} /\ command.wronged = FALSE
        /\ command.confidence = None
    BY <1>1 DEF Identification, Identifying
  <1>3. PICK k \in Pair : b.decodes = {k}
    BY <1>2 DEF Sound
  <1>4. HasTalents(b) /\ b.form # "split"
    BY <1>2 DEF HasTalents, HasHash
  <1>5. \/ Run(b, pair) = "ok" /\ command' = [command EXCEPT !.at = "identified", !.confidence = "high"]
        \/ Run(b, pair) = "rejected" /\ command.guessed /\ Ends(Ran(b, pair), "invalid_query")
        \/ /\ Run(b, pair) = "rejected" /\ ~command.guessed
           /\ command' = [Ran(b, pair) EXCEPT !.at = "probe", !.pair = named, !.left = Candidates(named, FALSE, FALSE)]
        \/ Run(b, pair) \notin {"ok", "rejected"} /\ Ends(command, Run(b, pair))
    BY RunCases DEF unconfirmed_identity, Goes
  <1>6. CASE Run(b, pair) = "ok" /\ command' = [command EXCEPT !.at = "identified", !.confidence = "high"]
    <2>1. pair \in b.decodes /\ Complete(pair)
      BY <1>3, <1>6, RunCases, PairsAreComplete DEF Runs
    <2>2. /\ Reading /\ command'.at = "identified" /\ command'.pair = pair /\ command'.wronged = FALSE
          /\ command'.confidence = "high"
      BY <1>1, <1>2, <1>6 DEF CommandTyped, Reading, Idle
    <2>3. Identification'
      BY <1>2, <2>2 DEF Identification, Identifying, Reading
    <2>4. HighIsRight' /\ Rejected'
      BY <1>4, <2>1, <2>2 DEF HighIsRight, Rejected, Reading
    <2> QED
      BY <1>1, <2>2, <2>3, <2>4, ReadingKeeps
  <1>7. CASE Run(b, pair) = "rejected" /\ command.guessed /\ Ends(Ran(b, pair), "invalid_query")
    <2>1. command' = [[command EXCEPT !.wronged = @ \/ Wrongs(b, pair)] EXCEPT !.at = "done", !.code = "invalid_query"]
      BY <1>7 DEF Ends, Ran, Goes
    <2>2. Kept /\ command'.at = "done" /\ command'.code = "invalid_query" /\ command'.wronged \in BOOLEAN
          /\ command'.rejoins = command.rejoins
      BY <1>1, <2>1 DEF CommandTyped, Kept, Idle
    <2>3. AtHome' /\ Identification' /\ HighIsRight' /\ Validation' /\ WorkspaceInvariant'
      BY <1>1, <2>2, KeptIdentity, KeptPacket, StaysKeepsWorkspace DEF Kept
    <2>4. CommandTyped' /\ Modification'
      BY <2>2 DEF CommandTyped, Modification, Kept, Running, Stages
    <2>5. AplFits' /\ ModifiedAsAsked' /\ Stations' /\ Rejected'
      BY <1>7, <2>2 DEF AplFits, Accepted, ModifiedAsAsked, Answered, Stations, Rejected, Kept
    <2> QED
      BY <2>3, <2>4, <2>5
  <1>8. CASE /\ Run(b, pair) = "rejected" /\ ~command.guessed
             /\ command' = [Ran(b, pair) EXCEPT !.at = "probe", !.pair = named, !.left = Candidates(named, FALSE, FALSE)]
    <2>1. command' = [[command EXCEPT !.wronged = @ \/ Wrongs(b, pair)]
                       EXCEPT !.at = "probe", !.pair = named, !.left = Candidates(named, FALSE, FALSE)]
      BY <1>8 DEF Ran
    <2>2. /\ Reading /\ command'.at = "probe" /\ command'.pair = named /\ command'.left = Candidates(named, FALSE, FALSE)
          /\ command'.wronged = (FALSE \/ Wrongs(b, pair)) /\ command'.confidence = None /\ command'.matches = {}
      BY <1>1, <1>2, <2>1 DEF CommandTyped, Reading, Idle
    <2>3. AllCandidates' = Candidates(named, FALSE, FALSE)
      BY <1>2, <1>8, <2>2 DEF AllCandidates, Reading, Candidates
    <2>4. Identification'
      <3>1. {k1 \in AllCandidates' \ command'.left : Runs(command.build, k1)'} = {}
        BY <2>2, <2>3
      <3> HIDE DEF named
      <3> QED
        BY <1>2, <1>4, <2>2, <2>3, <3>1 DEF Identification, Identifying, Reading
    <2>5. HighIsRight'
      BY <2>2 DEF HighIsRight, None
    <2>6. ASSUME Wrongs(b, pair) PROVE Old(command.root) /\ engine[command.root].source < b.made /\ k \in Candidates(named, FALSE, FALSE)
      <3>1. Old(command.root) /\ engine[command.root].source < b.made /\ pair = k
        BY <1>3, <2>6, WrongsAreOld
      <3>2. Fits(k, named)
        BY <3>1, SpecFitsItself
      <3> QED
        BY <3>1, <3>2 DEF Candidates
    <2>7. Rejected'
      <3>1. command'.wronged => Old(command.root)' /\ engine'[command'.root].source < command'.build.made
        BY <2>2, <2>6 DEF Reading, Old, workspace
      <3>2. command'.wronged => command'.build.decodes \subseteq AllCandidates'
        BY <1>3, <2>2, <2>3, <2>6 DEF Reading
      <3> QED
        BY <1>2, <2>2, <3>1, <3>2 DEF Rejected, Reading
    <2>8. command'.wronged \in BOOLEAN
      BY <2>2 DEF Wrongs
    <2> QED
      BY <1>1, <2>2, <2>4, <2>5, <2>7, <2>8, ReadingKeeps
  <1>9. CASE Run(b, pair) \notin {"ok", "rejected"} /\ Ends(command, Run(b, pair))
    <2>1. Run(b, pair) # "answered"
      BY RunCases
    <2> QED
      BY <1>1, <1>9, <2>1, EndsKeeps
  <1> QED
    BY <1>5, <1>6, <1>7, <1>8, <1>9

LEMMA ProbeKeeps == ASSUME BuildsInvariant, NEW k \in Pair, probe_build_matches(k) PROVE BuildsInvariant'
  <1> DEFINE b == command.build
  <1>1. command.at = "probe" /\ UNCHANGED workspace /\ Running /\ k \in command.left
    BY DEF probe_build_matches, Stays, Running
  <1> USE DEF BuildsInvariant, CommandInvariant
  <1>2. /\ Sound(b) /\ HasTalents(b) /\ command.confidence = None /\ command.left \subseteq AllCandidates
        /\ command.matches \subseteq b.decodes
        /\ command.steady => command.matches = {x \in AllCandidates \ command.left : Runs(b, x)}
        /\ b.form = "split" => ~command.guessed /\ command.pair = command.asked
    BY <1>1 DEF Identification, Identifying
  <1>3. CASE Run(b, k) \in {"ok", "rejected"}
    <2> DEFINE left == command.left \ {k}
               matches == command.matches \cup {x \in {k} : Run(b, x) = "ok"}
    <2>1. command' = [[command EXCEPT !.wronged = @ \/ Wrongs(b, k)] EXCEPT !.left = @ \ {k},
                        !.matches = @ \cup {x \in {k} : Run(b, k) = "ok"}]
      BY <1>3 DEF probe_build_matches, Ran, Goes
    <2>2. /\ Reading /\ command'.at = "probe" /\ command'.pair = command.pair /\ command'.left = left
          /\ command'.wronged = (command.wronged \/ Wrongs(b, k)) /\ command'.confidence = None /\ command'.matches = matches
      BY <1>1, <1>2, <2>1 DEF CommandTyped, Reading, Idle
    <2>3. AllCandidates' = AllCandidates
      BY <2>2 DEF AllCandidates, Reading
    <2>4. \A x : Runs(command.build, x)' <=> Runs(b, x)
      BY <2>2 DEF Runs, Reading, workspace
    <2>5. Runs(b, k) <=> Run(b, k) = "ok"
      BY RunCases
    <2>6. matches \subseteq b.decodes
      BY <1>2, <2>5 DEF Runs
    <2>7. command.steady => matches = {x \in AllCandidates \ left : Runs(b, x)}
      BY <1>1, <1>2, <2>5
    <2>8. left \subseteq AllCandidates
      BY <1>2
    <2> HIDE DEF left, matches
    <2>9. Identification'
      BY <1>2, <2>2, <2>3, <2>4, <2>6, <2>7, <2>8 DEF Identification, Identifying, Reading
    <2>10. HighIsRight'
      BY <2>2 DEF HighIsRight, None
    <2>11. ASSUME Wrongs(b, k)
           PROVE  Old(command.root) /\ HasHash(b) /\ engine[command.root].source < b.made /\ b.decodes \subseteq AllCandidates
      <3>1. Old(command.root) /\ HasHash(b) /\ engine[command.root].source < b.made /\ k \in b.decodes
        BY <2>11, WrongsAreOld
      <3>2. b.decodes = {k}
        BY <1>2, <3>1 DEF Sound
      <3> QED
        BY <1>1, <1>2, <3>1, <3>2
    <2>12. command.wronged /\ command.steady /\ ~command.guessed =>
             Old(command.root) /\ HasHash(b) /\ engine[command.root].source < b.made /\ b.decodes \subseteq AllCandidates
      BY <1>1 DEF Rejected
    <2>13. Rejected'
      <3>1. command'.wronged /\ command'.steady /\ ~command'.guessed =>
              Old(command.root) /\ HasHash(b) /\ engine[command.root].source < b.made /\ b.decodes \subseteq AllCandidates
        BY <2>2, <2>11, <2>12 DEF Reading
      <3>2. Old(command.root) => Old(command.root)'
        BY <2>2 DEF Old, Reading, workspace
      <3> QED
        BY <2>2, <2>3, <3>1, <3>2 DEF Rejected, Reading, workspace
    <2>14. command'.wronged \in BOOLEAN
      BY <2>2 DEF Wrongs, CommandTyped
    <2> QED
      BY <1>1, <2>2, <2>9, <2>10, <2>13, <2>14, ReadingKeeps
  <1>4. CASE Run(b, k) \notin {"ok", "rejected"}
    <2>1. Ends(command, Run(b, k))
      BY <1>4 DEF probe_build_matches
    <2>2. Progress /\ command'.at = "done" /\ command'.code = Run(b, k)
      BY <1>1, <2>1, EndsIsProgress
    <2>3. ~(engine[command.root].state = "runs" /\ ~engine[command.root].forever) /\ Run(b, k) # "answered"
      BY <1>4, RunCases
    <2>4. ~(command.wronged /\ command.steady /\ ~command.guessed)
      BY <1>1, <2>3 DEF Rejected, Old
    <2>5. Failure(FALSE)
      BY <2>2, <2>3, <2>4 DEF Failure, Progress
    <2> QED
      BY <1>1, <2>5, FailureKeeps
  <1> QED
    BY <1>3, <1>4

LEMMA OnlyMatchIs ==
  ASSUME NEW matches \in SUBSET Pair, OnlyMatch(matches)
  PROVE  \E k \in Pair : matches = {k} /\ (CHOOSE x \in matches : TRUE) = k
  <1>1. IsFiniteSet(matches)
    BY FS_Subset, BuildsAssumption
  <1>2. PICK k : matches = {k}
    BY <1>1, FS_Singleton DEF OnlyMatch
  <1> QED
    BY <1>2

(* When all were probed, a build that a binary is too old for had no match, *)
(* and its own spec was among them.                                         *)
LEMMA RejectKeeps == ASSUME BuildsInvariant, raise_rejected_export PROVE BuildsInvariant'
  <1> DEFINE b == command.build
             only == CHOOSE k \in command.matches : TRUE
             low == IF command.matches = {} THEN "none" ELSE "low"
             named == IF b.form = "packet" THEN Nobody ELSE command.pair
             unknown == [command EXCEPT !.at = "identified", !.confidence = low, !.pair = named]
             bad == command.wronged /\ command.steady /\ ~command.guessed
  <1>1. command.at = "probe" /\ command.left = {} /\ UNCHANGED workspace /\ Running
    BY DEF raise_rejected_export, Stays, Running
  <1> USE DEF BuildsInvariant, CommandInvariant
  <1>2. /\ Sound(b) /\ HasTalents(b) /\ command.matches \subseteq b.decodes /\ b.decodes \subseteq Pair
        /\ command.steady => command.matches = {x \in AllCandidates : Runs(b, x)}
        /\ b.form = "split" => ~command.guessed /\ command.pair = command.asked
    BY <1>1 DEF Identification, Identifying, Sound
  <1>3. bad => /\ Old(command.root) /\ HasHash(b) /\ engine[command.root].source < b.made
               /\ b.decodes \subseteq AllCandidates
    BY <1>1 DEF Rejected
  <1>4. bad => \A x : ~Runs(b, x)
    BY <1>3 DEF Runs, WorkspaceInvariant, WorkspaceTyped, BinaryFile, CommandTyped
  <1>5. bad => command.matches = {} /\ NamesItsSpec(command)
    <2>1. bad => command.matches = {}
      BY <1>2, <1>4
    <2>2. bad => Header(b) \in b.decodes
      BY <1>2, <1>3 DEF Sound, Header
    <2> QED
      BY <1>3, <2>1, <2>2 DEF NamesItsSpec, AllCandidates
  <1>6. \/ OnlyMatch(command.matches)
             /\ command' = [command EXCEPT !.at = "identified", !.pair = only, !.confidence = "high"]
        \/ NamesItsSpec(command) /\ After(b, Header(b), unknown, FALSE)
        \/ ~NamesItsSpec(command) /\ command' = unknown
    BY DEF raise_rejected_export, Goes
  <1>7. ASSUME OnlyMatch(command.matches),
               command' = [command EXCEPT !.at = "identified", !.pair = only, !.confidence = "high"]
        PROVE  BuildsInvariant'
    <2>1. PICK k \in Pair : command.matches = {k} /\ only = k
      BY <1>2, <1>7, OnlyMatchIs
    <2>2. ~bad
      BY <1>5, <2>1
    <2>3. /\ Reading /\ command'.at = "identified" /\ command'.pair = k /\ command'.confidence = "high"
          /\ command'.wronged = command.wronged
      BY <1>1, <1>7, <2>1 DEF CommandTyped, Reading, Idle
    <2>4. Identification' /\ Rejected' /\ command'.wronged \in BOOLEAN
      BY <1>2, <2>2, <2>3 DEF Identification, Identifying, Reading, Rejected, CommandTyped
    <2>5. ASSUME b.form = "split", command.steady PROVE {x \in b.decodes : Fits(x, command.asked)} = {k}
      <3>1. AllCandidates = {x \in Pair : Fits(x, command.asked)}
        BY <1>2, <2>5 DEF AllCandidates, Candidates
      <3>2. Runs(b, k) /\ k \in AllCandidates
        BY <1>2, <2>1, <2>5
      <3>3. \A x \in b.decodes : Runs(b, x)
        BY <3>2 DEF Runs
      <3>4. \A x \in b.decodes : Fits(x, command.asked) => x = k
        BY <1>2, <2>1, <2>5, <3>1, <3>3
      <3> QED
        BY <1>2, <2>1, <3>1, <3>2, <3>4
    <2>6. HighIsRight'
      BY <1>2, <2>1, <2>3, <2>5, PairsAreComplete DEF HighIsRight, Reading
    <2> QED
      BY <1>1, <2>3, <2>4, <2>6, ReadingKeeps
  <1>8. ASSUME ~bad, command' = unknown PROVE BuildsInvariant'
    <2>1. /\ Reading /\ command'.at = "identified" /\ command'.confidence = low
          /\ command'.wronged = command.wronged
      BY <1>1, <1>8 DEF CommandTyped, Reading, Idle
    <2>2. Identification' /\ Rejected' /\ command'.wronged \in BOOLEAN
      BY <1>2, <1>8, <2>1 DEF Identification, Identifying, Reading, Rejected, CommandTyped
    <2>3. HighIsRight'
      BY <2>1 DEF HighIsRight
    <2> QED
      BY <1>1, <2>1, <2>2, <2>3, ReadingKeeps
  <1>9. ASSUME NamesItsSpec(command), After(b, Header(b), unknown, FALSE) PROVE BuildsInvariant'
    <2> HIDE DEF unknown
    <2>1. bad => Old(command.root)
      BY <1>3
    <2>2. \/ Runs(b, Header(b)) /\ command' = unknown
          \/ Failure(Wrongs(b, Header(b)))
      BY <1>1, <1>9, <2>1, AfterCases
    <2>3. Wrongs(b, Header(b)) \in BOOLEAN /\ (Wrongs(b, Header(b)) => Old(command.root))
      BY WrongsAreOld DEF Wrongs
    <2> QED
      BY <1>1, <1>4, <1>8, <2>2, <2>3, FailureKeeps
  <1> QED
    BY <1>5, <1>6, <1>7, <1>8, <1>9

-----------------------------------------------------------------------------
(* Commands that start from a build.                                        *)

LEMMA BuildsAreSound == ASSUME NEW b \in Builds PROVE Sound(b)
  <1>1. b \in [form : {"none", "export", "url", "split", "packet"}, path : Pair \cup {<<"-", "-">>},
               decodes : SUBSET Pair, made : Nat, talents : [Entry -> Nat]]
    BY BuildsAssumption
  <1>2. HasHash(b) => \E k \in Pair : b.decodes = {k}
    BY BuildsAssumption DEF HasHash
  <1> QED
    BY <1>1, <1>2 DEF Sound

(* What a command knows of its build at first.                              *)
Begun(c) ==
  /\ DOMAIN c = DOMAIN Idle /\ c.root = resolve_repo_root /\ c.steady = TRUE /\ c.wronged = FALSE /\ c.rejoins = FALSE
  /\ c.guessed \in BOOLEAN /\ c.matches = {} /\ c.at \in {"done", "confirm", "probe", "identified"}
  /\ Sound(c.build)
  /\ c.at = "done" => c.code # "answered"
  /\ c.at \in {"confirm", "probe"} => c.confidence = None
  /\ c.at = "confirm" => HasHash(c.build) /\ c.build.form # "packet"
  /\ c.at = "probe" => /\ HasTalents(c.build) /\ c.left = Candidates(c.pair, c.build.form = "packet", c.guessed)
                       /\ c.build.form = "split" => ~c.guessed /\ c.pair = c.asked
  /\ c.confidence = "high" => Complete(c.pair) /\ ~HasHash(c.build) /\ c.pair = c.asked

LEMMA Identifies ==
  ASSUME NEW name, NEW b, NEW hint, NEW apl, Sound(b)
  PROVE  LET c == identify_build(name, b, hint, apl)
         IN Begun(c) /\ c.name = name /\ c.build = b /\ c.packet = None /\ c.route = None
              /\ (b.form # "packet" => c.pair = with_apl_guess(merge_build_specs(b, hint), apl))
  <1> DEFINE root == resolve_repo_root
             packet == b.form = "packet"
             asked == IF packet THEN Nobody ELSE merge_build_specs(b, hint)
             pair == with_apl_guess(asked, apl)
             guessed == pair # asked
             c0 == [Idle EXCEPT !.name = name, !.root = root, !.build = b, !.apl = apl,
                        !.asked = asked, !.pair = pair, !.guessed = guessed]
             c == identify_build(name, b, hint, apl)
             left == Candidates(pair, packet, guessed)
             level == IF guessed THEN "medium" ELSE "high"
             F == game_variant(root) = "forever"
             H == check_class_spec_hint(asked)
             N == ~packet /\ Complete(pair)
             held == /\ Begun(c) /\ c.name = name /\ c.build = b /\ c.packet = None /\ c.route = None
                     /\ b.form # "packet" => c.pair = with_apl_guess(merge_build_specs(b, hint), apl)
  <1> SUFFICES held
    OBVIOUS
  <1>1. guessed => Complete(pair)
    BY PairsAreComplete DEF with_apl_guess
  <1>2. guessed \in BOOLEAN /\ packet \in BOOLEAN
    OBVIOUS
  <1>3. ~packet => pair = with_apl_guess(merge_build_specs(b, hint), apl)
    OBVIOUS
  <1>4. \/ F /\ c = [c0 EXCEPT !.at = "done", !.code = "unsupported"]
        \/ ~F /\ ~H /\ c = [c0 EXCEPT !.at = "done", !.code = "invalid_query"]
        \/ ~F /\ H /\ N /\ HasHash(b) /\ c = [c0 EXCEPT !.at = "confirm"]
        \/ ~F /\ H /\ N /\ ~HasHash(b) /\ c = [c0 EXCEPT !.at = "identified", !.confidence = level]
        \/ ~F /\ H /\ ~N /\ HasTalents(b) /\ c = [c0 EXCEPT !.at = "probe", !.left = left]
        \/ ~F /\ H /\ ~N /\ ~HasTalents(b) /\ c = [c0 EXCEPT !.at = "identified", !.confidence = "none"]
    <2>1. CASE F
      BY <2>1 DEF identify_build
    <2>2. CASE ~F /\ ~H
      BY <2>2 DEF identify_build
    <2>3. CASE ~F /\ H /\ N
      BY <2>3 DEF identify_build
    <2>4. CASE ~F /\ H /\ ~N
      BY <2>4 DEF identify_build
    <2> QED
      BY <2>1, <2>2, <2>3, <2>4
  <1>5. pair = asked \/ guessed
    OBVIOUS
  <1>6. level = "high" => ~guessed
    OBVIOUS
  <1> HIDE DEF root, asked, pair, guessed, c, left, level, F, H
  <1>12. /\ DOMAIN c0 = DOMAIN Idle /\ c0.name = name /\ c0.root = root /\ c0.build = b /\ c0.pair = pair /\ c0.asked = asked
         /\ c0.guessed = guessed /\ c0.steady = TRUE /\ c0.wronged = FALSE /\ c0.rejoins = FALSE /\ c0.matches = {}
         /\ c0.confidence = None /\ c0.packet = None /\ c0.route = None
    BY DEF Idle
  <1> HIDE DEF c0
  <1>13. ASSUME NEW code, c = [c0 EXCEPT !.at = "done", !.code = code], code # "answered" PROVE held
    BY <1>2, <1>3, <1>12, <1>13 DEF Begun, Idle, None, root
  <1>8. CASE c = [c0 EXCEPT !.at = "confirm"] /\ N /\ HasHash(b)
    BY <1>2, <1>3, <1>8, <1>12 DEF Begun, Idle, None, root
  <1>9. CASE c = [c0 EXCEPT !.at = "identified", !.confidence = level] /\ N /\ ~HasHash(b)
    <2>1. /\ c.at = "identified" /\ c.confidence = level /\ DOMAIN c = DOMAIN Idle /\ c.name = name /\ c.root = root
          /\ c.build = b /\ c.pair = pair /\ c.asked = asked /\ c.guessed = guessed /\ c.steady = TRUE /\ c.wronged = FALSE
          /\ c.rejoins = FALSE /\ c.matches = {} /\ c.packet = None /\ c.route = None
      BY <1>9, <1>12 DEF Idle
    <2> QED
      BY <1>2, <1>3, <1>5, <1>6, <1>9, <2>1 DEF Begun, root
  <1>10. CASE c = [c0 EXCEPT !.at = "probe", !.left = left] /\ ~N /\ HasTalents(b)
    <2>1. b.form = "split" => ~guessed /\ pair = asked
      BY <1>1, <1>5, <1>10
    <2>2. /\ c.at = "probe" /\ c.left = left /\ c.confidence = None /\ DOMAIN c = DOMAIN Idle /\ c.name = name /\ c.root = root
          /\ c.build = b /\ c.pair = pair /\ c.asked = asked /\ c.guessed = guessed /\ c.steady = TRUE /\ c.wronged = FALSE
          /\ c.rejoins = FALSE /\ c.matches = {} /\ c.packet = None /\ c.route = None
      BY <1>10, <1>12 DEF Idle
    <2> QED
      BY <1>2, <1>3, <1>10, <2>1, <2>2 DEF Begun, None, root, left
  <1>11. CASE c = [c0 EXCEPT !.at = "identified", !.confidence = "none"]
    <2>1. /\ c.at = "identified" /\ c.confidence = "none" /\ DOMAIN c = DOMAIN Idle /\ c.name = name /\ c.root = root
          /\ c.build = b /\ c.pair = pair /\ c.asked = asked /\ c.guessed = guessed /\ c.steady = TRUE /\ c.wronged = FALSE
          /\ c.rejoins = FALSE /\ c.matches = {} /\ c.packet = None /\ c.route = None
      BY <1>11, <1>12 DEF Idle
    <2> QED
      BY <1>2, <1>3, <2>1 DEF Begun, root
  <1> QED
    BY <1>4, <1>8, <1>9, <1>10, <1>11, <1>13

LEMMA BeginsKeep ==
  ASSUME BuildsInvariant, UNCHANGED workspace, NEW c, Begun(c), command' = c, Modification', Validation'
  PROVE  BuildsInvariant'
  <1> USE DEF BuildsInvariant, CommandInvariant, Begun
  <1>1. WorkspaceInvariant'
    BY StaysKeepsWorkspace
  <1>2. CommandTyped'
    BY DEF CommandTyped, Stages, Root, resolve_repo_root
  <1>3. AtHome'
    BY DEF AtHome, resolve_repo_root, workspace
  <1>4. AplFits' /\ ModifiedAsAsked' /\ Stations' /\ Rejected'
    BY DEF AplFits, Accepted, ModifiedAsAsked, Answered, Stations, Rejected
  <1>5. HighIsRight'
    BY DEF HighIsRight
  <1>6. command'.at = "probe" => command'.left = AllCandidates'
    BY DEF AllCandidates
  <1>7. Identification'
    BY <1>6 DEF Identification, Identifying
  <1> QED
    BY <1>1, <1>2, <1>3, <1>4, <1>5, <1>7

LEMMA StartsKeep ==
  ASSUME BuildsInvariant, NEW c, Begun(c), Starts(c), c.name \notin {"modify", "packet", "describe"}
  PROVE  BuildsInvariant'
  <1>1. UNCHANGED workspace /\ command' = c
    BY DEF Starts, Stays, Goes
  <1>2. Modification' /\ Validation'
    BY <1>1 DEF Begun, Modification, Validation, Routing
  <1> QED
    BY <1>1, <1>2, BeginsKeep

LEMMA DecodeBuildKeeps ==
  ASSUME BuildsInvariant, NEW name \in {"identify", "decode", "analyse", "harness"}, NEW b \in Builds, NEW hint, NEW apl,
         decode_build(name, b, hint, apl)
  PROVE  BuildsInvariant'
  <1> DEFINE c == identify_build(name, b, hint, apl)
  <1>1. Begun(c) /\ c.name = name
    BY BuildsAreSound, Identifies
  <1>2. Starts(c)
    BY DEF decode_build
  <1> HIDE DEF c
  <1> QED
    BY <1>1, <1>2, StartsKeep

LEMMA CompareKeeps ==
  ASSUME BuildsInvariant, NEW b \in Builds, NEW other \in Builds, NEW hint, compare_builds(b, other, hint)
  PROVE  BuildsInvariant'
  <1> DEFINE c0 == identify_build("compare", b, hint, Nobody)
             c == [c0 EXCEPT !.second = other]
  <1>1. Begun(c0) /\ c0.name = "compare"
    BY BuildsAreSound, Identifies
  <1>2. Starts(c)
    BY DEF compare_builds
  <1> HIDE DEF c0
  <1>3. Begun(c) /\ c.name = "compare"
    BY <1>1 DEF Begun, Idle
  <1> HIDE DEF c
  <1> QED
    BY <1>2, <1>3, StartsKeep

LEMMA ApplyKeeps ==
  ASSUME BuildsInvariant, NEW b \in Builds, NEW profile, NEW overwrite, apply_build(b, profile, overwrite)
  PROVE  BuildsInvariant'
  <1> DEFINE c0 == identify_build("apply", b, Nobody, Nobody)
             c1 == [c0 EXCEPT !.profile = profile, !.overwrite = overwrite]
             c2 == [c1 EXCEPT !.at = "done", !.code = "output_exists"]
  <1>1. Begun(c0) /\ c0.name = "apply"
    BY BuildsAreSound, Identifies
  <1>2. Starts(c1) \/ Starts(c2)
    BY DEF apply_build
  <1> HIDE DEF c0
  <1>3. Begun(c1) /\ c1.name = "apply"
    BY <1>1 DEF Begun, Idle
  <1>4. Begun(c2) /\ c2.name = "apply"
    BY <1>1 DEF Begun, Idle
  <1> HIDE DEF c1, c2
  <1> QED
    BY <1>2, <1>3, <1>4, StartsKeep

(* No spec is guessed for a build of no talents that nothing says of whom.  *)
LEMMA NothingIsNobodys ==
  ASSUME NEW b \in Builds, ~HasTalents(b)
  PROVE  with_apl_guess(merge_build_specs(b, Nobody), Nobody) = Nobody
  <1>1. b.path = <<None, None>>
    BY BuildsAssumption DEF HasTalents, None
  <1>2. merge_build_specs(b, Nobody) = lookup_spec(Nobody)
    BY <1>1 DEF merge_build_specs, Or, Nobody
  <1>3. {k \in Pair : k[2] = Nobody[2]} = {}
    BY BuildsAssumption DEF Nobody, None
  <1>4. lookup_spec(Nobody) = Nobody
    BY <1>3, FS_EmptySet DEF lookup_spec
  <1>5. <<Or(Nobody[1], Nobody[1]), Or(Nobody[2], Nobody[2])>> = Nobody
    BY DEF Or, Nobody
  <1>6. Nobody \notin Pair
    BY PairsAreComplete
  <1> QED
    BY <1>2, <1>4, <1>5, <1>6 DEF with_apl_guess

LEMMA ModifyKeeps ==
  ASSUME BuildsInvariant, NEW b \in Builds, NEW other \in Builds, NEW swaps, NEW edits \in SUBSET (Entry \X Nat),
         modify_build(b, swaps, other, edits)
  PROVE  BuildsInvariant'
  <1> DEFINE c0 == identify_build("modify", b, Nobody, Nobody)
             c == [c0 EXCEPT !.second = other, !.swaps = swaps, !.edits = edits]
  <1>1. /\ Begun(c0) /\ c0.name = "modify" /\ c0.build = b
        /\ b.form # "packet" => c0.pair = with_apl_guess(merge_build_specs(b, Nobody), Nobody)
    BY BuildsAreSound, Identifies
  <1>2. ~HasTalents(b) => ~Complete(c0.pair)
    BY <1>1, NothingIsNobodys DEF HasTalents, Complete, Nobody
  <1>3. Starts(c)
    BY DEF modify_build
  <1> HIDE DEF c0
  <1>4. /\ Begun(c) /\ c.name = "modify" /\ c.build = b /\ c.second = other /\ c.edits = edits /\ c.pair = c0.pair
    BY <1>1 DEF Begun, Idle
  <1> HIDE DEF c
  <1>5. UNCHANGED workspace /\ command' = c
    BY <1>3 DEF Starts, Stays, Goes
  <1>6. Modification' /\ Validation'
    BY <1>2, <1>4, <1>5 DEF Begun, Modification, Validation, Routing, Running
  <1> QED
    BY <1>4, <1>5, <1>6, BeginsKeep

-----------------------------------------------------------------------------
(* Steps that only end or start something.                                  *)

LEMMA StutterKeeps == ASSUME BuildsInvariant, UNCHANGED <<workspace, command>> PROVE BuildsInvariant'
  <1> USE DEF BuildsInvariant, CommandInvariant, workspace
  <1>1. WorkspaceInvariant'
    BY StaysKeepsWorkspace
  <1>2. CommandTyped' /\ AtHome' /\ AplFits' /\ Modification' /\ ModifiedAsAsked' /\ Stations'
    BY DEF CommandTyped, AtHome, Running, resolve_repo_root, AplFits, Accepted, OtherApl, Modification, ModifiedAsAsked,
           Answered, Wanted, Edited, Source, Stations
  <1>3. Identification'
    BY DEF Identification, Identifying, AllCandidates, Runs
  <1>4. HighIsRight' /\ Validation'
    BY DEF HighIsRight, Validation, Routing, Vouched
  <1>5. Rejected'
    BY DEF Rejected, Old, AllCandidates
  <1> QED
    BY <1>1, <1>2, <1>3, <1>4, <1>5

(* A command that holds nothing but a place, a name and a root.             *)
LEMMA BareKeeps ==
  ASSUME WorkspaceInvariant, UNCHANGED workspace, DOMAIN command' = DOMAIN Idle, command'.root \in Root,
         command'.at \in {"idle", "done"}, command'.name \in {None, "sim"}, command'.confidence = None,
         command'.apl = Nobody, command'.wronged = FALSE, command'.steady = TRUE, command'.guessed = FALSE,
         command'.rejoins = FALSE
  PROVE  BuildsInvariant'
  <1>1. WorkspaceInvariant'
    BY StaysKeepsWorkspace
  <1>2. CommandTyped' /\ AtHome'
    BY DEF CommandTyped, Stages, AtHome, Running
  <1>3. Identification' /\ HighIsRight'
    BY DEF Identification, Identifying, HighIsRight, None
  <1>4. AplFits'
    BY PairsAreComplete DEF AplFits, OtherApl
  <1>5. Modification' /\ ModifiedAsAsked' /\ Stations' /\ Rejected'
    BY DEF Modification, ModifiedAsAsked, Answered, Stations, Rejected, None
  <1>6. Validation'
    BY DEF Validation, Routing, None
  <1> QED
    BY <1>1, <1>2, <1>3, <1>4, <1>5, <1>6 DEF BuildsInvariant, CommandInvariant

LEMMA SimulateKeeps == ASSUME BuildsInvariant, simulate PROVE BuildsInvariant'
  <1> DEFINE root == resolve_repo_root
             c == [Idle EXCEPT !.name = "sim", !.root = root, !.at = "done"]
  <1>1. UNCHANGED workspace
    BY DEF simulate, Starts, Stays
  <1>2. command' = [c EXCEPT !.code = "answered", !.forever = engine[root].forever] \/ command' = [c EXCEPT !.code = "not_ready"]
    BY DEF simulate, Starts, Goes
  <1>3. root \in Root
    BY DEF resolve_repo_root, Root
  <1> HIDE DEF root
  <1>5. /\ DOMAIN c = DOMAIN Idle /\ c.root = root /\ c.at = "done" /\ c.name = "sim" /\ c.confidence = None /\ c.apl = Nobody
        /\ c.wronged = FALSE /\ c.steady = TRUE /\ c.guessed = FALSE /\ c.rejoins = FALSE
    BY DEF Idle
  <1> HIDE DEF c
  <1>4. /\ DOMAIN command' = DOMAIN Idle /\ command'.root = root /\ command'.at = "done" /\ command'.name = "sim"
        /\ command'.confidence = None /\ command'.apl = Nobody /\ command'.wronged = FALSE /\ command'.steady = TRUE
        /\ command'.guessed = FALSE /\ command'.rejoins = FALSE
    BY <1>2, <1>5 DEF Idle
  <1> QED
    BY <1>1, <1>3, <1>4, BareKeeps DEF BuildsInvariant

LEMMA ForgetKeeps == ASSUME BuildsInvariant, Forget PROVE BuildsInvariant'
  <1>1. UNCHANGED workspace /\ command' = Idle
    BY DEF Forget, Stays
  <1>2. /\ DOMAIN command' = DOMAIN Idle /\ command'.root \in Root /\ command'.at = "idle" /\ command'.name = None
        /\ command'.confidence = None /\ command'.apl = Nobody /\ command'.wronged = FALSE /\ command'.steady = TRUE
        /\ command'.guessed = FALSE /\ command'.rejoins = FALSE
    BY <1>1 DEF Idle, Root
  <1> QED
    BY <1>1, <1>2, BareKeeps DEF BuildsInvariant

LEMMA BuildsStart == ASSUME BuildsInit PROVE BuildsInvariant
  <1>1. WorkspaceInvariant /\ command = Idle
    BY WorkspaceStarts DEF BuildsInit
  <1>2. /\ DOMAIN command = DOMAIN Idle /\ command.root \in Root /\ command.at = "idle" /\ command.name = None
        /\ command.confidence = None /\ command.apl = Nobody /\ command.wronged = FALSE /\ command.steady = TRUE
        /\ command.guessed = FALSE /\ command.rejoins = FALSE
    BY <1>1 DEF Idle, Root
  <1>3. CommandTyped /\ AtHome /\ Identification /\ HighIsRight
    BY <1>2 DEF CommandTyped, Stages, AtHome, Running, Identification, Identifying, HighIsRight, None
  <1>4. AplFits
    BY <1>2, PairsAreComplete DEF AplFits, OtherApl
  <1>5. Modification /\ ModifiedAsAsked /\ Stations /\ Rejected /\ Validation
    BY <1>2 DEF Modification, ModifiedAsAsked, Answered, Stations, Rejected, Validation, Routing, None
  <1> QED
    BY <1>1, <1>3, <1>4, <1>5 DEF BuildsInvariant, CommandInvariant

-----------------------------------------------------------------------------
(* The other terminal.                                                      *)

LEMMA MaintainsKeeps == ASSUME BuildsInvariant, Maintains PROVE BuildsInvariant'
  <1> USE DEF BuildsInvariant, CommandInvariant
  <1>1. Maintain
    BY DEF Maintains
  <1>2. WorkspaceInvariant' /\ \A r \in Root : checkout[r] <= checkout'[r]
    BY <1>1, WorkspaceKept
  <1>3. CASE ~Running
    <2>1. command' = command /\ command.at \in {"idle", "done"}
      BY <1>3 DEF Maintains, Running
    <2>2. CommandTyped' /\ AtHome' /\ Identification' /\ HighIsRight' /\ AplFits'
      BY <2>1 DEF CommandTyped, AtHome, Running, Identification, Identifying, HighIsRight, AplFits, Accepted, OtherApl
    <2>3. Modification' /\ ModifiedAsAsked' /\ Stations'
      BY <2>1 DEF Modification, Running, ModifiedAsAsked, Answered, Wanted, Edited, Source, Stations
    <2>4. Rejected' /\ Validation'
      BY <2>1 DEF Rejected, Validation, Routing, Vouched
    <2> QED
      BY <1>2, <2>2, <2>3, <2>4
  <1>4. CASE Running
    <2> DEFINE stays == <<configured, engine>>' = <<configured, engine>>
    <2>1. command' = [command EXCEPT !.steady = @ /\ stays]
      BY <1>4 DEF Maintains, Running
    <2>2. PICK r \in Root : r = command.root
      BY DEF CommandTyped
    <2>3. /\ DOMAIN command' = DOMAIN Idle /\ command'.steady = (command.steady /\ stays) /\ command'.root = r
          /\ command'.name = command.name /\ command'.at = command.at /\ command'.build = command.build
          /\ command'.second = command.second /\ command'.apl = command.apl /\ command'.edits = command.edits
          /\ command'.swaps = command.swaps /\ command'.asked = command.asked /\ command'.pair = command.pair
          /\ command'.guessed = command.guessed /\ command'.left = command.left /\ command'.matches = command.matches
          /\ command'.confidence = command.confidence /\ command'.packet = command.packet
          /\ command'.route = command.route /\ command'.export = command.export /\ command'.rejoins = command.rejoins
          /\ command'.wronged = command.wronged /\ command'.code = command.code /\ command'.hint = command.hint
      BY <2>1, <2>2 DEF CommandTyped, Idle
    <2>4. command'.steady => command.steady /\ configured' = configured /\ engine' = engine
      BY <2>3
    <2>5. command'.steady \in BOOLEAN
      BY <2>3
    <2> HIDE DEF stays
    <2>6. CommandTyped'
      BY <2>2, <2>3, <2>5 DEF CommandTyped
    <2>7. AtHome'
      BY <1>4, <2>2, <2>3, <2>4 DEF AtHome, Running, resolve_repo_root
    <2>8. AllCandidates' = AllCandidates
      BY <2>3 DEF AllCandidates
    <2>9. Identification'
      <3>1. command'.at = "probe" /\ command'.steady =>
              command'.matches = {k \in AllCandidates' \ command'.left : Runs(command.build, k)'}
        BY <2>2, <2>3, <2>4, <2>8 DEF Identification, Runs
      <3> QED
        BY <2>3, <2>8, <3>1 DEF Identification, Identifying
    <2>10. HighIsRight'
      BY <2>3, <2>4 DEF HighIsRight
    <2>11. AplFits' /\ Modification' /\ Stations'
      BY <2>3 DEF AplFits, Accepted, OtherApl, Modification, Running, Stations
    <2>12. ModifiedAsAsked'
      BY <1>4, <2>3 DEF ModifiedAsAsked, Answered, Running
    <2>13. Validation'
      BY <2>3 DEF Validation, Routing, Vouched, Returned
    <2>14. command'.steady /\ Old(r) => Old(r)'
      <3>1. engine[r].source \in Nat /\ checkout[r] \in Nat /\ checkout'[r] \in Nat
        BY <1>2 DEF WorkspaceInvariant, WorkspaceTyped, BinaryFile
      <3> QED
        BY <1>2, <2>4, <3>1 DEF Old
    <2>15. Rejected'
      BY <1>4, <2>2, <2>3, <2>4, <2>8, <2>14 DEF Rejected, Running
    <2> QED
      BY <1>2, <2>6, <2>7, <2>9, <2>10, <2>11, <2>12, <2>13, <2>15
  <1> QED
    BY <1>3, <1>4

-----------------------------------------------------------------------------
(* Talent packets.                                                          *)

LEMMA PacketsAreShaped == ASSUME NEW p \in Packets PROVE Shaped(p)
  <1>1. /\ DOMAIN p = DOMAIN NoPacket /\ p.rows \in Seq(Nat \X Nat) /\ p.pair \in Pair \cup {Nobody}
        /\ p.form # "none" => p.build \in Builds /\ p.build.form = p.form
    BY DEF Packets, NoPacket
  <1>2. \A b \in Builds : Sound(b) /\ DOMAIN b = {"form", "path", "decodes", "made", "talents"}
    BY BuildsAreSound, BuildsAssumption
  <1> QED
    BY <1>1, <1>2 DEF Shaped

(* The build that a packet carries may be identified.                       *)
LEMMA CarriedIsSound ==
  ASSUME NEW p, Shaped(p), Describable(p)
  PROVE  Sound(build_spec_from_packet(p))
  <1> DEFINE b == p.build
  <1>1. p.form # "none" /\ b.form = p.form /\ Sound(b) /\ DOMAIN b = {"form", "path", "decodes", "made", "talents"}
    BY DEF Describable, Shaped
  <1>2. CASE p.form = "url"
    BY <1>1, <1>2 DEF build_spec_from_packet
  <1>3. CASE p.form = "export"
    <2>1. build_spec_from_packet(p) = [b EXCEPT !.form = "packet", !.path = Nobody]
      BY <1>3 DEF build_spec_from_packet
    <2>2. \E k \in Pair : b.decodes = {k}
      BY <1>1, <1>3 DEF Sound, HasHash
    <2> QED
      BY <1>1, <2>1, <2>2 DEF Sound
  <1>4. CASE p.form = "split"
    <2>1. build_spec_from_packet(p) = [b EXCEPT !.path = p.pair]
      BY <1>4 DEF build_spec_from_packet
    <2> QED
      BY <1>1, <1>4, <2>1 DEF Sound, HasHash
  <1> QED
    BY <1>2, <1>3, <1>4 DEF Describable

(* Rows that name every entry once say the rank of each.                    *)
LEMMA RowsAreRanks ==
  ASSUME NEW rows \in Seq(Nat \X Nat), resolve_transport_rows(rows)
  PROVE  /\ split_transport_forms(rows) \in [Entry -> Nat]
         /\ \A i \in DOMAIN rows : Tree[rows[i][1]] # "selection" => split_transport_forms(rows)[rows[i][1]] = rows[i][2]
         /\ \A e \in Entry : split_transport_forms(rows)[e] > 0 => \E i \in DOMAIN rows : rows[i][1] = e
  <1> DEFINE own(e) == {i \in DOMAIN rows : rows[i][1] = e /\ Tree[e] # "selection"}
             ranks == split_transport_forms(rows)
  <1>1. ASSUME NEW i \in Nat PROVE Max({i}) = i
    BY DEF Max
  <1>2. ASSUME NEW i \in DOMAIN rows
        PROVE  (Tree[rows[i][1]] # "selection" => own(rows[i][1]) = {i}) /\ rows[i][1] \in Entry /\ rows[i][2] \in Nat /\ i \in Nat
    BY DEF resolve_transport_rows
  <1>3. ranks = [e \in Entry |-> IF own(e) = {} THEN 0 ELSE rows[Max(own(e))][2]]
    BY DEF split_transport_forms
  <1>4. ASSUME NEW i \in DOMAIN rows, Tree[rows[i][1]] # "selection" PROVE ranks[rows[i][1]] = rows[i][2]
    <2>1. own(rows[i][1]) = {i} /\ Max({i}) = i /\ rows[i][1] \in Entry
      BY <1>1, <1>2, <1>4
    <2> HIDE DEF own
    <2> QED
      BY <1>3, <2>1
  <1>5. ASSUME NEW e \in Entry PROVE ranks[e] \in Nat /\ (ranks[e] > 0 => \E i \in DOMAIN rows : rows[i][1] = e)
    <2>1. CASE own(e) = {}
      <3>1. ranks[e] = 0
        BY <1>3, <2>1
      <3> QED
        BY <3>1
    <2>2. CASE own(e) # {}
      <3>1. PICK i \in DOMAIN rows : rows[i][1] = e /\ Tree[e] # "selection"
        BY <2>2
      <3>2. ranks[e] = rows[i][2] /\ rows[i][2] \in Nat
        BY <1>2, <1>4, <3>1
      <3> QED
        BY <3>1, <3>2
    <2> QED
      BY <2>1, <2>2
  <1>6. DOMAIN ranks = Entry /\ ranks = [e \in Entry |-> ranks[e]]
    BY <1>3
  <1> HIDE DEF ranks
  <1>7. ranks \in [Entry -> Nat]
    BY <1>5, <1>6
  <1> QED
    BY <1>4, <1>5, <1>7 DEF ranks

(* What handling a packet leaves alone.                                     *)
Handling ==
  /\ UNCHANGED workspace /\ DOMAIN command' = DOMAIN Idle
  /\ command'.name = command.name /\ command'.root = command.root /\ command'.build = command.build
  /\ command'.apl = command.apl /\ command'.asked = command.asked /\ command'.pair = command.pair
  /\ command'.guessed = command.guessed /\ command'.confidence = command.confidence
  /\ command'.steady = command.steady /\ command'.wronged = command.wronged /\ command'.rejoins = command.rejoins
  /\ command'.at \in {"routed", "round_trip", "done"}

LEMMA HandlingKeeps == ASSUME BuildsInvariant, Routing, Handling, Validation' PROVE BuildsInvariant'
  <1> USE DEF BuildsInvariant, CommandInvariant, Handling, Routing
  <1>1. WorkspaceInvariant'
    BY StaysKeepsWorkspace
  <1>2. CommandTyped'
    BY DEF CommandTyped, Stages
  <1>3. AtHome' /\ Identification' /\ HighIsRight'
    BY DEF AtHome, Running, resolve_repo_root, workspace, Identification, Identifying, HighIsRight
  <1>4. AplFits'
    BY DEF AplFits, Accepted, OtherApl
  <1>5. Modification' /\ ModifiedAsAsked' /\ Stations'
    BY DEF Validation, Modification, ModifiedAsAsked, Answered, Stations
  <1>6. Rejected'
    BY DEF Rejected
  <1> QED
    BY <1>1, <1>2, <1>3, <1>4, <1>5, <1>6

LEMMA NotValidatedKeeps ==
  ASSUME BuildsInvariant, UNCHANGED workspace, command.at \in {"validate", "round_trip"}, command' = not_validated(command)
  PROVE  BuildsInvariant'
  <1> DEFINE new == refresh_talent_transport_packet(command.packet, "none", None, Nobody)
  <1>1. /\ Routing /\ Shaped(command.packet) /\ command.route.upgraded = FALSE /\ DOMAIN command.route = DOMAIN NoRoute
        /\ command.name = "packet" /\ DOMAIN command = DOMAIN Idle
    BY DEF BuildsInvariant, CommandInvariant, CommandTyped, Validation, Routing
  <1>2. Shaped(new) /\ new.form = "none"
    BY <1>1 DEF Shaped, NoPacket, refresh_talent_transport_packet
  <1>3. command' = [command EXCEPT !.at = "routed", !.packet = new]
    BY DEF not_validated
  <1> HIDE DEF new
  <1>4. Handling /\ command'.at = "routed" /\ command'.packet = new /\ command'.route = command.route
    BY <1>1, <1>3 DEF Handling, Idle
  <1>5. Validation'
    BY <1>1, <1>2, <1>4 DEF Validation, Routing, Handling
  <1> QED
    BY <1>1, <1>4, <1>5, HandlingKeeps

(* A command that ends with the packet it has.                              *)
LEMMA PacketEnds ==
  ASSUME BuildsInvariant, UNCHANGED workspace, Routing, NEW code, Ends(command, code)
  PROVE  BuildsInvariant'
  <1>1. Progress /\ command'.at = "done"
    BY EndsIsProgress
  <1>2. Handling /\ command'.packet = command.packet /\ command'.route = command.route
    BY <1>1 DEF Progress, Kept, Handling
  <1>3. Validation'
    BY <1>1, <1>2, KeptPacket DEF Progress, Kept
  <1> QED
    BY <1>2, <1>3, HandlingKeeps

LEMMA ValidateKeeps == ASSUME BuildsInvariant, validate_talent_transport PROVE BuildsInvariant'
  <1> DEFINE p == command.packet
             wants == split_transport_forms(p.rows)
             exported(misread, granted) == [Split(p, SimcEncodes(wants, misread, granted)) EXCEPT !.form = "export"]
  <1>1. command.at = "validate" /\ UNCHANGED workspace /\ Routing
    BY DEF validate_talent_transport, Stays, Routing
  <1>2. \/ Ends(command, "unsupported") \/ Ends(command, "invalid_query") \/ command' = not_validated(command)
        \/ /\ Transportable(p)
           /\ \E misread \in Misreadings(wants), granted \in SUBSET Keystone :
                command' = [command EXCEPT !.at = "round_trip", !.export = exported(misread, granted)]
    BY DEF validate_talent_transport, Goes
  <1>3. ASSUME NEW misread \in Misreadings(wants), NEW granted \in SUBSET Keystone, Transportable(p),
               command' = [command EXCEPT !.at = "round_trip", !.export = exported(misread, granted)]
        PROVE  BuildsInvariant'
    <2>1. /\ Shaped(p) /\ command.route.upgraded = FALSE /\ DOMAIN command.route = DOMAIN NoRoute
          /\ command.name = "packet" /\ DOMAIN command = DOMAIN Idle /\ command.packet = command.route.source
      BY <1>1 DEF BuildsInvariant, CommandInvariant, CommandTyped, Validation, Routing
    <2>2. wants \in [Entry -> Nat]
      BY <1>3, <2>1, RowsAreRanks DEF Shaped, Transportable
    <2>3. exported(misread, granted).talents = SimcEncodes(wants, misread, granted)
      BY DEF Split
    <2>4. Encoded(exported(misread, granted).talents)
      BY <2>2, <2>3, EncodedOnce
    <2> HIDE DEF exported
    <2>5. /\ Handling /\ command'.at = "round_trip" /\ command'.packet = p /\ command'.route = command.route
          /\ command'.export = exported(misread, granted)
      BY <1>1, <1>3, <2>1 DEF Handling, Idle
    <2>6. Transportable(command.packet)'
      BY <1>3, <2>5
    <2>7. Validation'
      BY <2>1, <2>4, <2>5, <2>6 DEF Validation, Routing, Handling
    <2> QED
      BY <1>1, <2>5, <2>7, HandlingKeeps
  <1> QED
    BY <1>1, <1>2, <1>3, PacketEnds, NotValidatedKeeps

(* A packet whose rows SimC gave back as they were is the character's.      *)
LEMMA RoundTripKeeps == ASSUME BuildsInvariant, round_trip PROVE BuildsInvariant'
  <1> DEFINE p == command.packet
             ranks == split_transport_forms(p.rows)
             split == Split(p, ranks)
             new == refresh_talent_transport_packet(p, "split", split, p.pair)
             route == [command.route EXCEPT !.upgraded = TRUE]
  <1>1. command.at = "round_trip" /\ UNCHANGED workspace /\ Routing
    BY DEF round_trip, Stays, Routing
  <1>2. \/ compare_round_trip(command) /\ command' = [command EXCEPT !.at = "routed", !.packet = new, !.route = route]
        \/ command' = not_validated(command)
    BY DEF round_trip, Goes
  <1>3. /\ Shaped(p) /\ DOMAIN command.route = DOMAIN NoRoute /\ command.name = "packet" /\ DOMAIN command = DOMAIN Idle
        /\ Transportable(p) /\ Encoded(command.export.talents)
    BY <1>1 DEF BuildsInvariant, CommandInvariant, CommandTyped, Validation, Routing
  <1>4. ASSUME compare_round_trip(command),
               command' = [command EXCEPT !.at = "routed", !.packet = new, !.route = route]
        PROVE  BuildsInvariant'
    <2>1. DOMAIN p = DOMAIN NoPacket /\ p.rows \in Seq(Nat \X Nat) /\ p.pair \in Pair /\ p.pair # Nobody
      BY <1>3, PairsAreComplete DEF Shaped, Transportable
    <2>2. /\ split.form = "split" /\ split.talents = ranks /\ split.decodes = {p.pair}
          /\ DOMAIN split = {"form", "path", "decodes", "made", "talents"}
      BY DEF Split
    <2> HIDE DEF split
    <2>3. Sound(split)
      BY <2>1, <2>2 DEF Sound, HasHash
    <2> DEFINE n0 == [p EXCEPT !.form = "split", !.build = split, !.validated = p.pair]
    <2>11. /\ DOMAIN n0 = DOMAIN NoPacket /\ n0.form = "split" /\ n0.build = split /\ n0.validated = p.pair
           /\ n0.rows = p.rows /\ n0.pair = p.pair
      BY <2>1 DEF NoPacket
    <2>12. new = [n0 EXCEPT !.status = talent_transport_status(n0)]
      BY DEF refresh_talent_transport_packet
    <2> HIDE DEF n0, new
    <2>13. talent_transport_status(n0) = "validated"
      BY <2>1, <2>11 DEF talent_transport_status
    <2>4. /\ new.status = "validated" /\ new.form = "split" /\ new.build = split /\ new.rows = p.rows /\ new.pair = p.pair
          /\ DOMAIN new = DOMAIN NoPacket
      BY <2>11, <2>12, <2>13 DEF NoPacket
    <2>5. Shaped(new)
      BY <2>1, <2>2, <2>3, <2>4 DEF Shaped
    <2>6. /\ \A i \in DOMAIN p.rows : Tree[p.rows[i][1]] # "selection" => ranks[p.rows[i][1]] = p.rows[i][2]
          /\ \A e \in Entry : ranks[e] > 0 => \E i \in DOMAIN p.rows : p.rows[i][1] = e
          /\ ranks \in [Entry -> Nat]
      BY <1>3, <2>1, RowsAreRanks DEF Transportable
    <2>14. \A e \in Entry : ranks[e] = IF Granted(command, e) THEN 0 ELSE command.export.talents[e]
      BY <1>4 DEF compare_round_trip
    <2>7. Encoded(ranks)
      BY <1>3, <2>6, <2>14 DEF Encoded
    <2>15. ASSUME NEW e \in Entry, command.export.talents[e] # ranks[e]
           PROVE  Tree[e] = "hero" /\ HeroTree[e] \notin HeroTrees(p.rows)
      BY <2>14, <2>15 DEF Granted, SelectedTrees, HeroTrees, OfHeroTrees
    <2> HIDE DEF ranks
    <2>8. Vouched(new)
      BY <1>3, <2>2, <2>4, <2>6, <2>7 DEF Vouched, Transportable
    <2>9. /\ Handling /\ command'.at = "routed" /\ command'.packet = new /\ command'.route.upgraded = TRUE
          /\ DOMAIN command'.route = DOMAIN NoRoute /\ command'.export = command.export
      BY <1>1, <1>3, <1>4 DEF Handling, Idle, NoRoute
    <2>16. Returned(command)'
      BY <2>2, <2>4, <2>9, <2>15 DEF Returned
    <2>10. Validation'
      BY <1>3, <2>5, <2>8, <2>9, <2>16 DEF Validation, Routing, Handling
    <2> QED
      BY <1>1, <2>9, <2>10, HandlingKeeps
  <1> QED
    BY <1>1, <1>2, <1>4, NotValidatedKeeps

LEMMA DescribeKeeps == ASSUME BuildsInvariant, describe_build PROVE BuildsInvariant'
  <1> DEFINE p == command.packet
             b == build_spec_from_packet(p)
             c0 == identify_build("describe", b, Nobody, Nobody)
             cites == described_packet_path(command.route)
             route == [command.route EXCEPT !.cites = cites]
             started == [c0 EXCEPT !.packet = p, !.route = route]
             told == [command EXCEPT !.route = [command.route EXCEPT !.cites = command.route.out]]
  <1>1. command.at = "routed" /\ UNCHANGED workspace /\ Routing
    BY DEF describe_build, Stays, Routing
  <1>2. \/ Ends(told, "answered") \/ Ends(command, "invalid_packet")
        \/ Describable(p) /\ command' = started
    BY DEF describe_build, Goes
  <1>3. /\ Shaped(p) /\ DOMAIN command.route = DOMAIN NoRoute /\ command.name = "packet" /\ DOMAIN command = DOMAIN Idle
        /\ command.route.upgraded \in BOOLEAN /\ (command.route.upgraded => Vouched(p) /\ Returned(command))
        /\ ~command.route.upgraded => p = command.route.source \/ p.form = "none"
    BY <1>1 DEF BuildsInvariant, CommandInvariant, CommandTyped, Validation, Routing
  <1>4. ASSUME Ends(told, "answered") PROVE BuildsInvariant'
    <2>1. command' = [told EXCEPT !.at = "done", !.code = "answered"]
      BY <1>4 DEF Ends, Goes
    <2>2. /\ Handling /\ command'.at = "done" /\ command'.packet = p /\ command'.route.upgraded = command.route.upgraded
          /\ command'.export = command.export
      BY <1>1, <1>3, <2>1 DEF Handling, Idle, NoRoute
    <2>3. Validation'
      BY <1>3, <2>2 DEF Validation, Returned, Routing, Handling
    <2> QED
      BY <1>1, <2>2, <2>3, HandlingKeeps
  <1>5. ASSUME Describable(p), command' = started PROVE BuildsInvariant'
    <2>1. Begun(c0) /\ c0.name = "describe"
      BY <1>3, <1>5, CarriedIsSound, Identifies
    <2> HIDE DEF c0
    <2>2. route.upgraded = command.route.upgraded /\ route.file = command.route.file /\ route.source = command.route.source
          /\ route.out = command.route.out /\ route.cites = cites
      BY <1>3 DEF NoRoute
    <2> HIDE DEF route, cites
    <2>3. /\ Begun(started) /\ started.name = "describe" /\ started.packet = p /\ started.route = route
      BY <2>1 DEF Begun, Idle
    <2> HIDE DEF started
    <2>4. route.out = None /\ route.file # None /\ route.cites = route.file => p = route.source
      BY <1>3, <1>5, <2>2 DEF described_packet_path, Describable, cites
    <2>5. Validation' /\ Modification'
      BY <1>3, <1>5, <2>2, <2>3, <2>4 DEF Validation, Routing, Modification, Begun
    <2> QED
      BY <1>1, <1>5, <2>3, <2>5, BeginsKeep
  <1> QED
    BY <1>1, <1>2, <1>4, <1>5, PacketEnds

LEMMA ResolveKeeps ==
  ASSUME BuildsInvariant, NEW p \in Packets, NEW file, NEW save, NEW describes, NEW validates, NEW forever,
         resolve_talent_transport(p, file, save, describes, validates, forever)
  PROVE  BuildsInvariant'
  <1> DEFINE route == [NoRoute EXCEPT !.file = file, !.out = save, !.source = p, !.describes = describes]
             c == [Idle EXCEPT !.name = "packet", !.root = resolve_repo_root, !.at = "routed", !.packet = p, !.route = route]
  <1>1. UNCHANGED workspace
    BY DEF resolve_talent_transport, Starts, Stays
  <1>2. \/ \E code \in {"unsupported", "invalid_packet"} : command' = [c EXCEPT !.at = "done", !.code = code]
        \/ command' = [c EXCEPT !.at = "validate"] \/ command' = c
    BY DEF resolve_talent_transport, Starts, Goes
  <1>3. route.upgraded = FALSE /\ route.source = p /\ DOMAIN route = DOMAIN NoRoute
    BY DEF NoRoute
  <1> HIDE DEF route
  <1>4. /\ DOMAIN c = DOMAIN Idle /\ c.root = resolve_repo_root /\ c.at = "routed" /\ c.name = "packet" /\ c.packet = p
        /\ c.route = route /\ c.confidence = None /\ c.apl = Nobody /\ c.wronged = FALSE /\ c.steady = TRUE
        /\ c.guessed = FALSE /\ c.rejoins = FALSE
    BY DEF Idle
  <1> HIDE DEF c
  <1>5. /\ DOMAIN command' = DOMAIN Idle /\ command'.root = resolve_repo_root /\ command'.at \in {"routed", "validate", "done"}
        /\ command'.name = "packet" /\ command'.packet = p /\ command'.route = route /\ command'.confidence = None
        /\ command'.apl = Nobody /\ command'.wronged = FALSE /\ command'.steady = TRUE
        /\ command'.guessed = FALSE /\ command'.rejoins = FALSE
    BY <1>2, <1>4 DEF Idle
  <1>6. WorkspaceInvariant'
    BY <1>1, StaysKeepsWorkspace DEF BuildsInvariant
  <1>7. CommandTyped' /\ AtHome'
    BY <1>1, <1>5 DEF CommandTyped, Stages, Root, AtHome, resolve_repo_root, workspace
  <1>8. Identification' /\ HighIsRight'
    BY <1>5 DEF Identification, Identifying, HighIsRight, None
  <1>9. AplFits'
    BY <1>5, PairsAreComplete DEF AplFits, OtherApl
  <1>10. Modification' /\ ModifiedAsAsked' /\ Stations' /\ Rejected'
    BY <1>5 DEF Modification, ModifiedAsAsked, Answered, Stations, Rejected
  <1>11. Validation'
    BY <1>3, <1>5, PacketsAreShaped DEF Validation, Routing
  <1> QED
    BY <1>6, <1>7, <1>8, <1>9, <1>10, <1>11 DEF BuildsInvariant, CommandInvariant

-----------------------------------------------------------------------------
(* The theorems.                                                            *)

LEMMA CommandsKeep == ASSUME BuildsInvariant, BuildCommands PROVE BuildsInvariant'
  BY DecodeBuildKeeps, CompareKeeps, ModifyKeeps, ApplyKeeps, ResolveKeeps DEF BuildCommands

LEMMA StepsKeep == ASSUME BuildsInvariant, BuildSteps \/ PacketSteps PROVE BuildsInvariant'
  BY ExplainKeeps, UnconfirmedKeeps, ProbeKeeps, RejectKeeps, IdentifiedKeeps, LoadOtherKeeps, DecodeKeeps, DecodeOtherKeeps,
     EncodeKeeps, VerifyKeeps, WriteKeeps, SimulateKeeps, ForgetKeeps, ValidateKeeps, RoundTripKeeps, DescribeKeeps
     DEF BuildSteps, PacketSteps

LEMMA NextKeeps == ASSUME BuildsInvariant, [BuildsNext]_vars PROVE BuildsInvariant'
  BY CommandsKeep, StepsKeep, MaintainsKeeps, StutterKeeps DEF BuildsNext, UserWrites, vars

THEOREM BuildsInvariantHolds == BuildsSpec => []BuildsInvariant
  BY BuildsStart, NextKeeps, PTL DEF BuildsSpec

(* A build command answers of the build it was asked about: an identity is  *)
(* told with high confidence only if the hash decodes as it, or it is the   *)
(* only spec that fits, and no APL's other; what modify-build emits has the *)
(* edits that were asked for and nothing else (identify_build,              *)
(* modify_build).                                                           *)
THEOREM BuildsAlwaysHold == BuildsSpec => []BuildsHold
  BY BuildsInvariantHolds, Consequences, PTL

(* A binary is never called stale when it is not, nor the other way round,  *)
(* and a build that was rejected because the binary is too old for it is    *)
(* told to be, by whatever path the command came to run the binary          *)
(* (binary_matches_checkout, _build_error).                                 *)
THEOREM StaleAlwaysTold == BuildsSpec => []StaleHolds
  BY BuildsInvariantHolds, Consequences, PTL

(* A validated packet holds the ranks of the character it is of, each of    *)
(* its rows and nothing else, of one hero tree and with one talent of a     *)
(* choice node; SimC gave back nothing else but talents of hero trees that  *)
(* no ranked row is of; a description cites no file but the one with the    *)
(* packet it describes (_compare_round_trip, _described_packet_path).       *)
THEOREM PacketsAlwaysHold == BuildsSpec => []PacketsHold
  BY BuildsInvariantHolds, Consequences, PTL

-----------------------------------------------------------------------------
(* The profile at --out.                                                    *)

LEMMA OnlyWritesApply ==
  ASSUME [BuildsNext]_vars, out = "theirs", out' = "applied"
  PROVE  command.overwrite
  <1>1. out' # out /\ out' \notin {None, "theirs"}
    BY DEF None
  <1>2. ~Maintains /\ ~UserWrites /\ ~(UNCHANGED vars)
    BY <1>1 DEF Maintains, UserWrites, vars
  <1>3. ~Stays
    BY <1>1 DEF Stays
  <1>4. ~PacketSteps
    BY <1>3 DEF PacketSteps, validate_talent_transport, round_trip, describe_build
  <1>7. \A c : ~Starts(c)
    BY <1>3 DEF Starts
  <1>8. /\ \A name, b, hint, apl : ~decode_build(name, b, hint, apl)
        /\ \A b, other, hint : ~compare_builds(b, other, hint)
        /\ \A b, swaps, other, edits : ~modify_build(b, swaps, other, edits)
    BY <1>7 DEF decode_build, compare_builds, modify_build
  <1>9. ASSUME NEW b, NEW profile, NEW overwrite, apply_build(b, profile, overwrite) PROVE FALSE
    BY <1>3, <1>9 DEF apply_build, Starts
  <1>10. ASSUME NEW p, NEW file, NEW save, NEW describes, NEW validates, NEW forever,
                resolve_talent_transport(p, file, save, describes, validates, forever)
         PROVE  FALSE
    BY <1>3, <1>10 DEF resolve_talent_transport, Starts
  <1>5. ~BuildCommands
    BY <1>8, <1>9, <1>10 DEF BuildCommands
  <1>6. BuildSteps => write_profile
    BY <1>3 DEF BuildSteps, Explain, unconfirmed_identity, probe_build_matches, raise_rejected_export, Identified,
       load_other_build, Decode, DecodeOther, encode_build, verify, simulate, Forget, Starts
  <1> QED
    BY <1>1, <1>2, <1>4, <1>5, <1>6 DEF BuildsNext, write_profile, Publishes, None

(* Whatever the user puts at --out while apply-build runs, it is replaced   *)
(* only with --overwrite (write_profile).                                   *)
THEOREM TheirsAlwaysStay == BuildsSpec => TheirsStays
  <1>1. [BuildsNext]_vars => [out = "theirs" /\ out' = "applied" => command.overwrite]_<<out, command>>
    BY OnlyWritesApply
  <1> QED
    BY <1>1, PTL DEF BuildsSpec, TheirsStays
=============================================================================
