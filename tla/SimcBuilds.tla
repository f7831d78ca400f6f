---------------------------- MODULE SimcBuilds ------------------------------
(**************************************************************************)
(* Talent builds in simc_cli (build_input.py, build_services.py, main.py, *)
(* profile_build.py): whose build it is, what it holds, and builds made   *)
(* from builds.  Each run of the binary is a step, and another terminal   *)
(* syncs and builds meanwhile.                                            *)
(**************************************************************************)
EXTENDS Integers, Sequences, FiniteSets, FiniteSetsExt

-----------------------------------------------------------------------------
(****************************************************************************)
(* The SimulationCraft checkouts that simc_cli works in: repo.py and run.py *)
(* with the repo, checkout, sync, build, doctor and version commands.  One  *)
(* terminal syncs and builds the managed checkout, step by step, while      *)
(* others use what is there; the other checkout stays as it is.             *)
(****************************************************************************)
CONSTANT LastRevision \* how far upstream gets

ASSUME LastRevision \in Nat

VARIABLES
  configured, \* whether repo.json names the other checkout
  checkout,   \* the revision each checkout is at
  engine,     \* the binary of each checkout
  build       \* the build in the managed checkout

workspace == <<configured, checkout, engine, build>>
Root == {"managed", "other"}

(* A binary knows the revision that was configured; what it was compiled    *)
(* from is the code.  The other checkout holds the Forever branch.          *)
NoEngine == [state |-> "missing", baked |-> 0, source |-> 0, forever |-> FALSE]
Built(baked, source) == [state |-> "runs", baked |-> baked, source |-> source, forever |-> FALSE]
Torn == [NoEngine EXCEPT !.state = "broken"]

NoBuild == [at |-> "idle", target |-> "-", baked |-> 0, source |-> 0, alone |-> FALSE]

WorkspaceInit ==
  /\ configured \in BOOLEAN
  /\ checkout = [r \in Root |-> 0]
  /\ engine \in {[r \in Root |-> IF r = "other" THEN [Built(0, 0) EXCEPT !.forever = TRUE] ELSE e] :
                 e \in {NoEngine, Built(0, 0)}}
  /\ build = NoBuild

resolve_repo_root == IF configured THEN "other" ELSE "managed"

(* What is told of a binary and its checkout. *)
binary_matches_checkout(r) ==
  IF engine[r].state # "runs" THEN "unknown" ELSE IF engine[r].baked = checkout[r] THEN "yes" ELSE "no"

stale_hint(r) == binary_matches_checkout(r) = "no"
game_variant(r) ==
  IF engine[r].state # "runs" THEN "unknown" ELSE IF engine[r].forever THEN "forever" ELSE "retail"

-----------------------------------------------------------------------------

repo_set_root == configured' = ~configured /\ UNCHANGED <<checkout, engine, build>>

(* A sync of a dirty worktree, or with nothing to pull, does nothing. *)
sync_repo ==
  /\ checkout["managed"] < LastRevision
  /\ checkout' = [checkout EXCEPT !["managed"] = @ + 1]
  /\ build' = [build EXCEPT !.alone = FALSE]
  /\ UNCHANGED <<configured, engine>>

(* Every build is configured anew, which is where it learns its revision. *)
Configures == checkout["managed"]

Configure(target) ==
  /\ build.at \in {"idle", "built"}
  /\ build' = [at |-> "configured", target |-> target, baked |-> Configures, source |-> 0, alone |-> TRUE]
  /\ UNCHANGED <<configured, checkout, engine>>

Compile ==
  /\ build.at = "configured"
  /\ build' = [build EXCEPT !.at = "compiled", !.source = checkout["managed"]]
  /\ UNCHANGED <<configured, checkout, engine>>

\* Mutant: the revision is read when the binary is linked.
LinksNow == Built(checkout["managed"], build.source)

Links == Built(build.baked, build.source)

Link ==
  /\ build.at = "compiled"
  /\ engine' = IF build.target = "simc" THEN [engine EXCEPT !["managed"] = Links] ELSE engine
  /\ build' = [build EXCEPT !.at = "built"]
  /\ UNCHANGED <<configured, checkout>>

(* A build that fails, or is killed: in the middle of linking it leaves a   *)
(* file that does not run.                                                  *)
StopBuild ==
  /\ build.at \in {"configured", "compiled"}
  /\ engine' \in {engine} \cup
       IF build.at = "compiled" /\ build.target = "simc" THEN {[engine EXCEPT !["managed"] = Torn]} ELSE {}
  /\ build' = NoBuild
  /\ UNCHANGED <<configured, checkout>>

Maintain ==
  \/ repo_set_root \/ sync_repo \/ (\E target \in {"simc", "other"} : Configure(target))
  \/ Compile \/ Link \/ StopBuild

-----------------------------------------------------------------------------

(* A build that no sync disturbed is never reported stale, and a binary     *)
(* that is reported as its checkout's was compiled from it, however syncs,  *)
(* builds and killed builds follow each other (build_repo, doctor).         *)
StaleIsTrue ==
  /\ build.at = "built" /\ build.alone /\ build.target = "simc" => ~stale_hint("managed")
  /\ \A r \in Root : binary_matches_checkout(r) = "yes" => engine[r].source = checkout[r]

-----------------------------------------------------------------------------

CONSTANTS
  Pair,            \* the class and spec pairs SimC knows
  Entry, MaxRank,  \* talents, by entry
  Tree, HeroTree,  \* the tree of each: class, spec, hero or selection; its hero tree, if it is of one
  Choice,          \* the choice node of each, which is its own if it is on none
  Tiered,          \* the nodes whose ranks are spread over several entries
  Keystone,        \* what SimC grants of hero trees, taken or not
  Builds           \* what users hold

(* An export says in its header whose it is, and a build that is none came  *)
(* without a link.  Tiered and granted talents are on no choice node.       *)
ASSUME BuildsAssumption ==
  /\ IsFiniteSet(Pair) /\ \A k \in Pair : "-" \notin {k[1], k[2]}
  /\ Entry \subseteq Nat /\ DOMAIN Tree = Entry /\ DOMAIN HeroTree = Entry /\ MaxRank \in [Entry -> Nat]
  /\ DOMAIN Choice = Entry /\ Tiered \subseteq SUBSET Entry /\ Keystone \subseteq Entry
  /\ \A e \in Keystone \cup UNION Tiered, o \in Entry : Choice[e] = Choice[o] => e = o
  /\ Builds \subseteq [form : {"none", "export", "url", "split", "packet"}, path : Pair \cup {<<"-", "-">>},
                       decodes : SUBSET Pair, made : Nat, talents : [Entry -> Nat]]
  /\ \A b \in Builds : /\ b.form \in {"export", "url", "packet"} => \E k \in Pair : b.decodes = {k}
                       /\ b.form = "none" => b.path = <<"-", "-">>

VARIABLES
  command, \* what runs in the analyst's terminal
  out      \* the profile at --out

None == "-"
Nobody == <<None, None>>

Idle == [name |-> None, at |-> "idle", root |-> "managed", build |-> None, second |-> None,
         apl |-> Nobody, profile |-> Nobody, edits |-> {}, swaps |-> None, overwrite |-> FALSE,
         asked |-> Nobody, pair |-> Nobody, guessed |-> FALSE, left |-> {}, matches |-> {}, confidence |-> None,
         packet |-> None, route |-> None, export |-> None, rejoins |-> FALSE, wronged |-> FALSE, steady |-> TRUE,
         forever |-> FALSE, code |-> None, hint |-> FALSE]

Goes(c) == command' = c
Stays == UNCHANGED <<workspace, out>>
Ends(c, code) == Goes([c EXCEPT !.at = "done", !.code = code])

HasHash(b) == b.form \in {"export", "url", "packet"}
HasTalents(b) == b.form # "none"
Header(b) == CHOOSE pair \in b.decodes : TRUE
Complete(pair) == None \notin {pair[1], pair[2]}

-----------------------------------------------------------------------------
(* Running the binary (require_retail_engine, run_simc).                   *)

Run(b, pair) ==
  LET e == engine[command.root]
  IN CASE e.state = "runs" /\ e.forever                              -> "unsupported"
       [] e.state # "runs"                                           -> "not_ready"
       [] e.state = "runs" /\ ~e.forever /\ pair \in b.decodes /\ e.source = b.made -> "ok"
       [] OTHER                                                      -> "rejected"

(* A build's own spec is rejected by a binary that is too old for it. *)
Wrongs(b, pair) ==
  Run(b, pair) = "rejected" /\ HasHash(b) /\ pair \in b.decodes
    /\ b.made = checkout[command.root] /\ engine[command.root].source < b.made

Ran(b, pair) == [command EXCEPT !.wronged = @ \/ Wrongs(b, pair)]

(* What a command does about a run: it goes on, it tells of the binary that *)
(* rejected the build after looking at it again, or it fails.               *)
After(b, pair, goesOn, rejoins) ==
  CASE Run(b, pair) = "ok"       -> Goes(goesOn)
    [] Run(b, pair) = "rejected" -> Goes([Ran(b, pair) EXCEPT !.at = "explain", !.rejoins = rejoins])
    [] OTHER                     -> Ends(command, Run(b, pair))

(* build_error; some commands look up the checkout again for it. *)
Explain ==
  LET root == IF command.rejoins THEN resolve_repo_root ELSE command.root
  IN /\ command.at = "explain" /\ Stays
     /\ IF command.rejoins /\ game_variant(root) = "forever" THEN Ends(command, "unsupported")
        ELSE Ends([command EXCEPT !.hint = stale_hint(root)], "invalid_build")

-----------------------------------------------------------------------------
(* Whose build it is.                                                       *)

Or(a, b) == IF a # None THEN a ELSE b

(* A spec that one class has names the class too. *)
lookup_spec(pair) ==
  LET owners == {k \in Pair : k[2] = pair[2]}
  IN IF pair[1] = None /\ Cardinality(owners) = 1 THEN CHOOSE k \in owners : TRUE ELSE pair

(* Options win over a talent-calc path; packets take no options. *)
merge_build_specs(b, hint) ==
  lookup_spec(<<Or(hint[1], b.path[1]), Or(hint[2], b.path[2])>>)

check_class_spec_hint(pair) == \E k \in Pair : \A i \in {1, 2} : pair[i] \in {None, k[i]}

with_apl_guess(pair, apl) ==
  LET guess == <<Or(pair[1], apl[1]), Or(pair[2], apl[2])>>
  IN IF guess \in Pair THEN guess ELSE pair

Fits(pair, partial) == \A i \in {1, 2} : partial[i] \in {None, pair[i]}

(* An export in a packet is read by whom it decodes as, whatever the packet *)
(* says, except for an APL's name.                                          *)
Candidates(pair, packet, guessed) == {k \in Pair : (packet /\ ~guessed) \/ Fits(k, pair)}

identify_build(name, b, hint, apl) ==
  LET root == resolve_repo_root
      packet == b.form = "packet"
      asked == IF packet THEN Nobody ELSE merge_build_specs(b, hint)
      pair == with_apl_guess(asked, apl)
      guessed == pair # asked
      c == [Idle EXCEPT !.name = name, !.root = root, !.build = b, !.apl = apl,
                        !.asked = asked, !.pair = pair, !.guessed = guessed]
  IN CASE game_variant(root) = "forever"     -> [c EXCEPT !.at = "done", !.code = "unsupported"]
       [] game_variant(root) # "forever" /\ ~check_class_spec_hint(asked) ->
            [c EXCEPT !.at = "done", !.code = "invalid_query"]
       [] game_variant(root) # "forever" /\ check_class_spec_hint(asked) /\ ~packet /\ Complete(pair) ->
            IF HasHash(b) THEN [c EXCEPT !.at = "confirm"]
            ELSE [c EXCEPT !.at = "identified", !.confidence = IF guessed THEN "medium" ELSE "high"]
       [] OTHER -> IF HasTalents(b)
                   THEN [c EXCEPT !.at = "probe", !.left = Candidates(pair, packet, guessed)]
                   ELSE [c EXCEPT !.at = "identified", !.confidence = "none"]

(* A hash is decoded as the pair it came with.  A pair from a talent-calc's *)
(* path is only a guess, an APL's may not be another spec's.                *)
unconfirmed_identity ==
  LET b == command.build
      pair == command.pair
      named == IF b.form = "url" THEN Nobody ELSE pair
  IN /\ command.at = "confirm" /\ Stays
     /\ CASE Run(b, pair) = "ok" -> Goes([command EXCEPT !.at = "identified", !.confidence = "high"])
          [] Run(b, pair) = "rejected" ->
               IF command.guessed THEN Ends(Ran(b, pair), "invalid_query")
               ELSE Goes([Ran(b, pair) EXCEPT !.at = "probe", !.pair = named, !.left = Candidates(named, FALSE, FALSE)])
          [] OTHER -> Ends(command, Run(b, pair))

probe_build_matches(k) ==
  /\ command.at = "probe" /\ k \in command.left /\ Stays
  /\ CASE Run(command.build, k) \in {"ok", "rejected"} ->
            Goes([Ran(command.build, k) EXCEPT !.left = @ \ {k},
                    !.matches = @ \cup {x \in {k} : Run(command.build, k) = "ok"}])
       [] OTHER -> Ends(command, Run(command.build, k))

\* Mutant: the first match is as good as the only one.
FirstMatch(matches) == matches # {}

OnlyMatch(matches) == Cardinality(matches) = 1

(* A hash that nobody's tree takes is told to be rejected by its own spec,  *)
(* which is run once more for its message.                                  *)
NamesItsSpec(c) ==
  c.matches = {} /\ HasHash(c.build) /\ Header(c.build) \in Candidates(c.pair, c.build.form = "packet", c.guessed)

raise_rejected_export ==
  LET c == command
      b == c.build
      unknown == [c EXCEPT !.at = "identified", !.confidence = IF c.matches = {} THEN "none" ELSE "low",
                           !.pair = IF b.form = "packet" THEN Nobody ELSE @]
  IN /\ c.at = "probe" /\ c.left = {} /\ Stays
     /\ IF OnlyMatch(c.matches)
        THEN Goes([c EXCEPT !.at = "identified", !.pair = CHOOSE k \in c.matches : TRUE, !.confidence = "high"])
        ELSE IF NamesItsSpec(c) THEN After(b, Header(b), unknown, FALSE) ELSE Goes(unknown)

(* An APL of another spec than the build's. *)
OtherApl(c) == c.apl \in Pair /\ Complete(c.pair) /\ c.apl # c.pair

(* What a command does once its build is identified. *)
Identified ==
  LET c == command
      talents == HasTalents(c.build)
      unnamed == ~Complete(c.pair)
      unfit == \/ OtherApl(c)
               \/ c.name \in {"decode", "apply", "describe"} /\ ~talents
               \/ c.name = "identify" /\ c.confidence = "none" /\ ~talents
               \/ c.name \notin {"identify", "analyse"} /\ unnamed
               \/ c.name = "analyse" /\ talents /\ unnamed
               \/ c.name = "apply" /\ c.pair # c.profile
  IN /\ c.at = "identified" /\ Stays
     /\ CASE unfit                                             -> Ends(c, "invalid_query")
          [] ~unfit /\ (c.name \in {"identify", "harness"} \/ ~talents) -> Ends(c, "answered")
          [] ~unfit /\ talents /\ c.name = "compare"           -> Goes([c EXCEPT !.at = "second"])
          [] OTHER                                             -> Goes([c EXCEPT !.at = "decode"])

-----------------------------------------------------------------------------
(* Commands that start from a build.                                        *)

Starts(c) == command.at = "idle" /\ Stays /\ Goes(c)

decode_build(name, b, hint, apl) ==
  /\ b.form = "packet" => hint = Nobody
  /\ (name = "analyse" => apl # Nobody) /\ (name = "harness" => apl = Nobody)
  /\ Starts(identify_build(name, b, hint, apl))

compare_builds(b, other, hint) ==
  Starts([identify_build("compare", b, hint, Nobody) EXCEPT !.second = other])

modify_build(b, swaps, other, edits) ==
  /\ swaps # None \/ edits # {}
  /\ Starts([identify_build("modify", b, Nobody, Nobody) EXCEPT !.second = other, !.swaps = swaps, !.edits = edits])

apply_build(b, profile, overwrite) ==
  LET c == [identify_build("apply", b, Nobody, Nobody) EXCEPT !.profile = profile, !.overwrite = overwrite]
  IN Starts(IF out # None /\ ~overwrite THEN [c EXCEPT !.at = "done", !.code = "output_exists"] ELSE c)

(* Raw simulations are for either game, and say which. *)
simulate ==
  LET root == resolve_repo_root
      c == [Idle EXCEPT !.name = "sim", !.root = root, !.at = "done"]
  IN Starts(IF engine[root].state = "runs" THEN [c EXCEPT !.code = "answered", !.forever = engine[root].forever]
            ELSE [c EXCEPT !.code = "not_ready"])

(* The other build of a comparison or a swap is asked for as the base's.    *)
(* One that another spec's header names is no swap, and no comparison.      *)
load_other_build ==
  LET c == command
      on == [c EXCEPT !.at = IF c.name = "modify" THEN "swap" ELSE "decode"]
  IN /\ c.at = "second" /\ Stays
     /\ IF Run(c.second, c.pair) = "rejected" /\ Header(c.second) # c.pair
        THEN IF c.name = "modify" THEN Ends(c, "invalid_query") ELSE Goes(on)
        ELSE After(c.second, c.pair, on, FALSE)

Decode ==
  LET c == command
      on == CASE c.name = "modify"  -> [c EXCEPT !.at = IF c.swaps = None THEN "edit" ELSE "second"]
              [] c.name = "compare" -> [c EXCEPT !.at = "swap"]
              [] c.name = "apply"   -> [c EXCEPT !.at = "write"]
              [] OTHER              -> [c EXCEPT !.at = "done", !.code = "answered"]
  IN c.at = "decode" /\ Stays /\ After(c.build, c.pair, on, c.name \in {"modify", "compare", "analyse"})

DecodeOther ==
  LET c == command
      on == IF c.name = "modify" THEN [c EXCEPT !.at = "edit"] ELSE [c EXCEPT !.at = "done", !.code = "answered"]
  IN c.at = "swap" /\ Stays /\ After(c.second, c.pair, on, TRUE)

-----------------------------------------------------------------------------
(* modify-build                                                             *)

(* The build each tree is to come from, and what is asked of it. *)
Source(c, e) == IF c.swaps = Tree[e] THEN c.second.talents[e] ELSE c.build.talents[e]
Edited(c) == {edit[1] : edit \in c.edits}
Wanted(c) == [e \in Entry |->
  IF e \in Edited(c) THEN (CHOOSE edit \in c.edits : edit[1] = e)[2] ELSE Source(c, e)]

choice_conflicts(c) ==
  \E edit \in c.edits, e \in Entry :
    /\ edit[2] > 0 /\ e # edit[1] /\ Choice[e] = Choice[edit[1]]
    /\ Source(c, e) > 0 /\ <<e, 0>> \notin c.edits

(* On the way through SimC a talent may be lost, and a tiered node's ranks  *)
(* lost or spread over its entries in another way.                          *)
Misreadings(talents) ==
  LET taken == {e \in Entry : talents[e] > 0}
  IN {<<>>} \cup {[x \in {e} |-> 0] : e \in taken}
       \cup UNION {[node -> 0..Max({MaxRank[e] : e \in node})] : node \in {n \in Tiered : n \cap taken # {}}}

(* SimC keeps one entry of a choice node and no rank above the highest, and *)
(* adds the keystones of hero trees.                                        *)
SimcEncodes(talents, misread, granted) ==
  [e \in Entry |->
    IF e \in DOMAIN misread THEN misread[e]
    ELSE IF e \in granted THEN MaxRank[e]
    ELSE IF \E o \in Entry : o < e /\ Choice[o] = Choice[e] /\ talents[o] > 0 THEN 0
    ELSE Min({talents[e], MaxRank[e]})]

encode_build ==
  LET c == command
  IN /\ c.at = "edit" /\ Stays
     /\ CASE choice_conflicts(c) -> Ends(c, "invalid_argument")
          [] ~choice_conflicts(c) /\ engine[c.root].state = "runs" ->
               \E misread \in Misreadings(Wanted(c)), granted \in SUBSET Keystone :
                 Goes([c EXCEPT !.at = "verify",
                        !.export = [c.build EXCEPT !.form = "export", !.decodes = {c.pair}, !.made = engine[c.root].source,
                                      !.talents = SimcEncodes(Wanted(c), misread, granted)]])
          [] OTHER -> Ends(c, "not_ready")

unrequested_changes(c) == {e \in Entry \ Edited(c) : c.export.talents[e] # Source(c, e)}
unapplied_edits(c) == {edit \in c.edits : c.export.talents[edit[1]] # edit[2]}

verify ==
  LET c == command
      matches == unrequested_changes(c) = {} /\ unapplied_edits(c) = {}
      on == [c EXCEPT !.at = "done", !.code = IF matches THEN "answered" ELSE "encode_mismatch"]
  IN c.at = "verify" /\ Stays /\ After(c.export, c.pair, on, TRUE)

-----------------------------------------------------------------------------
(* apply-build                                                              *)

\* Mutant: whatever has come to be at --out in the meantime is replaced.
Replaces(c) == TRUE

(* Without --overwrite the profile is linked, which fails over a file. *)
Publishes(c) == c.overwrite \/ out = None

write_profile ==
  LET c == command
  IN /\ c.at = "write" /\ UNCHANGED workspace
     /\ IF Publishes(c) THEN out' = "applied" /\ Ends(c, "answered")
        ELSE out' = out /\ Ends(c, "output_exists")

(* The user keeps files there too. *)
UserWrites ==
  /\ out' \in {None, "theirs"} \ {out}
  /\ UNCHANGED <<workspace, command>>

Forget == command.at = "done" /\ command' = Idle /\ Stays

-----------------------------------------------------------------------------

BuildSteps ==
  \/ Explain \/ unconfirmed_identity \/ (\E k \in Pair : probe_build_matches(k)) \/ raise_rejected_export
  \/ Identified \/ load_other_build \/ Decode \/ DecodeOther \/ encode_build \/ verify \/ write_profile
  \/ simulate \/ Forget

(* Whatever a command has seen of the workspace may be no more what it was. *)
Maintains ==
  /\ Maintain /\ UNCHANGED out
  /\ command' = IF command.at \in {"idle", "done"} THEN command
                ELSE [command EXCEPT !.steady = @ /\ <<configured, engine>>' = <<configured, engine>>]

-----------------------------------------------------------------------------

Answered(c) == c.at = "done" /\ c.code = "answered"

(* An identity told with high confidence is one the hash decodes as, or the *)
(* only one asked for that split talents decode as (were all probed by one  *)
(* binary), and never another than an APL's - whatever options, links,      *)
(* packets and APL names come together (identify_build).                    *)
IdentityHolds ==
  LET c == command
      b == c.build
  IN Answered(c) /\ c.confidence = "high" =>
       /\ HasHash(b) => c.pair \in b.decodes
       /\ b.form = "split" /\ ~Complete(c.asked) /\ c.steady => {k \in b.decodes : Fits(k, c.asked)} = {c.pair}
       /\ c.apl \in Pair => c.pair = c.apl

(* A build that modify-build emits is the one that was asked for: each tree *)
(* from its source, each edit at its rank, and nothing else, though SimC    *)
(* clamps, drops and loses talents and is rebuilt meanwhile (modify_build:  *)
(* "Every requested edit landed and nothing else changed").                 *)
ModifiedAsAsked ==
  LET c == command
  IN Answered(c) /\ c.name = "modify" =>
       /\ c.export.talents = Wanted(c)
       /\ \A e, o \in Entry : e # o /\ Choice[e] = Choice[o] => c.export.talents[e] = 0 \/ c.export.talents[o] = 0

(* What a build command answers is of the build it was asked about: who it  *)
(* is of, and what was changed in it (identify_build, modify_build).        *)
BuildsHold == IdentityHolds /\ ModifiedAsAsked

(* A command that fails because the binary is too old for a valid build     *)
(* says so ("The sentence a decode failure should carry when the binary     *)
(* predates its own checkout").                                             *)
StaleBinaryTold ==
  LET c == command
  IN c.at = "done" /\ c.wronged /\ c.steady => c.code = "invalid_build" /\ c.hint

(* It does by whatever path it came to run the binary, but for an identity  *)
(* that was completed from an APL's name (_build_error).                    *)
StaleRejectionsTold == ~command.guessed => StaleBinaryTold

(* What is said of a binary's age is right: a rejection that is its fault   *)
(* says so, and none is called stale that is not.                           *)
StaleHolds == StaleRejectionsTold /\ StaleIsTrue

(* Without --overwrite, no file that is at --out is ever replaced.          *)
TheirsStays == [][out = "theirs" /\ out' = "applied" => command.overwrite]_<<out, command>>
=============================================================================
