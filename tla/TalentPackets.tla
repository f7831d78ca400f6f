---------------------------- MODULE TalentPackets ----------------------------
(****************************************************************************)
(* Talent transport packets: warcraft_core/identity.py and                  *)
(* talent_transport.py, simc validate-talent-transport, and the wrapper's   *)
(* talent-packet and talent-describe (talent_routing.py), which take a      *)
(* packet from a file or a provider, have SimulationCraft validate the rows *)
(* it has for a character, and describe the build it then carries.          *)
(****************************************************************************)
EXTENDS SimcBuilds

(* A packet has one transport form, the rows of a character, and for whom   *)
(* they were validated.                                                     *)
NoPacket == [status |-> "unknown", form |-> "none", build |-> None, pair |-> Nobody, rows |-> <<>>, validated |-> Nobody]

talent_transport_status(p) ==
  CASE p.form \in {"url", "export"}                    -> "exact"
    [] p.form = "split" /\ p.validated # Nobody        -> "validated"
    [] ~(p.form \in {"url", "export"} \/ (p.form = "split" /\ p.validated # Nobody)) /\ p.rows # <<>> -> "raw_only"
    [] OTHER                                           -> "unknown"

validate_talent_transport_packet(p) ==
  /\ p.status = talent_transport_status(p)
  /\ p.form = "url" /\ p.pair # Nobody => p.pair = p.build.path
  /\ p.form = "split" /\ p.validated # Nobody => p.pair = p.validated

refresh_talent_transport_packet(p, form, b, validated) ==
  LET new == [p EXCEPT !.form = form, !.build = b, !.validated = validated]
  IN [new EXCEPT !.status = talent_transport_status(new)]

(* The build a packet carries for SimC; what it was not validated as is not *)
(* its identity.                                                            *)
build_spec_from_packet(p) ==
  CASE p.form = "url"    -> p.build
    [] p.form = "export" -> [p.build EXCEPT !.form = "packet", !.path = Nobody]
    [] OTHER             -> [p.build EXCEPT !.path = p.pair]

Describable(p) == p.form \in {"url", "export"} \/ (p.form = "split" /\ p.status = "validated")

-----------------------------------------------------------------------------
(* The rows of a character.                                                 *)

(* Hero talents, and what selects their tree.                               *)
OfHeroTrees(rows) == {i \in DOMAIN rows : Tree[rows[i][1]] \in {"hero", "selection"}}
SelectedTrees(rows) == {HeroTree[rows[i][1]] : i \in OfHeroTrees(rows)} \ {None}
HeroTrees(rows) == {HeroTree[rows[i][1]] : i \in {k \in OfHeroTrees(rows) : rows[k][2] > 0}} \ {None}

resolve_transport_rows(rows) ==
  \A i \in DOMAIN rows :
    /\ rows[i][1] \in Entry /\ rows[i][2] \in 0..MaxRank[rows[i][1]]
    /\ \A j \in DOMAIN rows : rows[i][1] = rows[j][1] => i = j

(* SimC keeps the last rank it is given for an entry, and is given none of  *)
(* a selection.                                                             *)
split_transport_forms(rows) ==
  [e \in Entry |-> LET own == {i \in DOMAIN rows : rows[i][1] = e /\ Tree[e] # "selection"}
                   IN IF own = {} THEN 0 ELSE rows[Max(own)][2]]

Transportable(p) ==
  /\ p.pair \in Pair /\ resolve_transport_rows(p.rows) /\ Cardinality(HeroTrees(p.rows)) <= 1
  /\ \E e \in Entry : split_transport_forms(p.rows)[e] > 0

Split(p, talents) ==
  [form |-> "split", path |-> Nobody, decodes |-> {p.pair}, made |-> engine[command.root].source, talents |-> talents]

-----------------------------------------------------------------------------
(* Commands.                                                                *)

(* The file that holds the packet that is described. *)
described_packet_path(c) ==
  IF c.out # None THEN c.out ELSE IF c.upgraded THEN None ELSE c.file

NoRoute == [file |-> None, out |-> None, describes |-> FALSE, source |-> NoPacket, upgraded |-> FALSE, cites |-> None]

(* Where a packet comes from: a file may hold anything, a talent-calc link  *)
(* is exact, a report has the rows of an actor.  Nothing of Forever's is    *)
(* taken.                                                                   *)
resolve_talent_transport(p, file, save, describes, validates, forever) ==
  LET c == [Idle EXCEPT !.name = "packet", !.root = resolve_repo_root, !.at = "routed",
                        !.packet = p, !.route = [NoRoute EXCEPT !.file = file, !.out = save, !.source = p, !.describes = describes]]
  IN Starts(CASE forever -> [c EXCEPT !.at = "done", !.code = "unsupported"]
              [] ~forever /\ ~validate_talent_transport_packet(p) -> [c EXCEPT !.at = "done", !.code = "invalid_packet"]
              [] OTHER -> IF validates /\ p.status = "raw_only" THEN [c EXCEPT !.at = "validate"] ELSE c)

(* Whatever keeps the rows from being validated, the packet then has none   *)
(* but raw rows.                                                            *)
not_validated(c) == [c EXCEPT !.at = "routed", !.packet = refresh_talent_transport_packet(@, "none", None, Nobody)]

validate_talent_transport ==
  LET c == command
      p == c.packet
      wants == split_transport_forms(p.rows)
  IN /\ c.at = "validate" /\ Stays
     /\ CASE game_variant(c.root) = "forever" -> Ends(c, "unsupported")
          [] game_variant(c.root) # "forever" /\ p.pair = Nobody -> Ends(c, "invalid_query")
          [] game_variant(c.root) # "forever" /\ p.pair # Nobody
               /\ Transportable(p) /\ engine[c.root].state = "runs" ->
               \E misread \in Misreadings(wants), granted \in SUBSET Keystone :
                 Goes([c EXCEPT !.at = "round_trip",
                        !.export = [Split(p, SimcEncodes(wants, misread, granted)) EXCEPT !.form = "export"]])
          [] OTHER -> Goes(not_validated(c))

\* Mutant: no hero talent is compared.
Compares(c) == \A e \in Entry : Tree[e] # "hero" => c.export.talents[e] = split_transport_forms(c.packet.rows)[e]

(* What comes back of a hero tree that no row is of was granted by SimC. *)
Granted(c, e) == Tree[e] = "hero" /\ HeroTree[e] \notin SelectedTrees(c.packet.rows) \cup {None}

compare_round_trip(c) ==
  \A e \in Entry : split_transport_forms(c.packet.rows)[e] = IF Granted(c, e) THEN 0 ELSE c.export.talents[e]

round_trip ==
  LET c == command
      p == c.packet
      split == Split(p, split_transport_forms(p.rows))
      new == refresh_talent_transport_packet(p, "split", split, p.pair)
  IN /\ c.at = "round_trip" /\ Stays
     /\ IF Run(c.export, p.pair) = "ok" /\ compare_round_trip(c)
        THEN Goes([c EXCEPT !.at = "routed", !.packet = new, !.route.upgraded = TRUE])
        ELSE Goes(not_validated(c))

(* The packet is done with, or described by the checkout there is now. *)
describe_build ==
  LET c == command
      started == [identify_build("describe", build_spec_from_packet(c.packet), Nobody, Nobody)
                    EXCEPT !.packet = c.packet, !.route = [c.route EXCEPT !.cites = described_packet_path(c.route)]]
  IN /\ c.at = "routed" /\ Stays
     /\ CASE ~c.route.describes -> Ends([c EXCEPT !.route.cites = c.route.out], "answered")
          [] c.route.describes /\ Describable(c.packet) -> Goes(started)
          [] OTHER -> Ends(c, "invalid_packet")

PacketSteps == validate_talent_transport \/ round_trip \/ describe_build

-----------------------------------------------------------------------------

(* A validated packet carries the character whose rows it has, rank by    *)
(* rank, of one hero tree, and with one talent of a choice node though    *)
(* with all of a tiered one, whatever SimC clamps, drops, loses, spreads  *)
(* or grants and the rows repeat; SimC gave back no other talents but of  *)
(* hero trees that no ranked row is of; and the file that a description   *)
(* cites holds the packet that was described (_compare_round_trip,        *)
(* _described_packet_path).                                               *)
PacketsHold ==
  LET c == command
      p == c.packet
  IN /\ c.at = "done" /\ c.name \in {"packet", "describe"} /\ c.route.upgraded =>
          /\ p.status = "validated" /\ Cardinality(HeroTrees(p.rows)) <= 1
          /\ \A i \in DOMAIN p.rows : Tree[p.rows[i][1]] # "selection" => p.build.talents[p.rows[i][1]] = p.rows[i][2]
          /\ \A e \in Entry : p.build.talents[e] > 0 => \E i \in DOMAIN p.rows : p.rows[i][1] = e
          /\ \A e, o \in Entry : e # o /\ Choice[e] = Choice[o] => p.build.talents[e] = 0 \/ p.build.talents[o] = 0
          /\ \A e \in Entry : c.name = "packet" /\ c.export.talents[e] # p.build.talents[e] =>
               Tree[e] = "hero" /\ HeroTree[e] \notin HeroTrees(p.rows)
     /\ Answered(c) /\ c.name = "describe" /\ c.route.cites = c.route.file /\ c.route.file # None /\ c.route.out = None =>
          p = c.route.source
=============================================================================
