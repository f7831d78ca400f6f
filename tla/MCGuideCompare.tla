--------------------------- MODULE MCGuideCompare ---------------------------
(* Two commands over one root, or a third alone; three guide providers of *)
(* which one does not serve the expansion, five builds of which two are   *)
(* of the other game or without a code.                                   *)
EXTENDS GuideCompare, TLC

CONSTANTS c1, c2, c3, wh, method, iv, g1, g2, m1

MCGuides == (wh :> {g1, g2}) @@ (method :> {m1})
MCContents ==
  (g1 :> [sections |-> {"talents", "rotation"}, refs |-> {1, 2, 4}, declares |-> TRUE]) @@
  (g2 :> [sections |-> {"rotation"}, refs |-> {}, declares |-> FALSE]) @@
  (m1 :> [sections |-> {"rotation"}, refs |-> {2, 3, 5}, declares |-> TRUE])
MCReference ==
  (1 :> [type |-> "wowhead_talent_calc", code |-> TRUE, forever |-> FALSE]) @@
  (2 :> [type |-> "wow_talent_export", code |-> TRUE, forever |-> FALSE]) @@
  (3 :> [type |-> "wowhead_talent_calc", code |-> TRUE, forever |-> TRUE]) @@
  (4 :> [type |-> "icyveins_calc", code |-> TRUE, forever |-> FALSE]) @@
  (5 :> [type |-> "wowhead_talent_calc", code |-> FALSE, forever |-> FALSE])
(* Every build of the second guide is in the first one too. *)
MCSameBuilds == [MCContents EXCEPT ![g1].refs = {1, 2, 3, 4}, ![m1].refs = {4}]
MCOlder == <<[provider |-> wh, guide |-> g1], [provider |-> method, guide |-> m1]>>
MCOutages == {[code |-> "timeout", exit |-> 5]}
Comparing == [providers |-> <<wh, method>>, force |-> FALSE, simc |-> FALSE, decode |-> FALSE, describe |-> FALSE, limit |-> 9]
MCOrders ==
  (c1 :> {Comparing, [Comparing EXCEPT !.force = TRUE]}) @@ (c2 :> {Comparing, [Comparing EXCEPT !.simc = TRUE, !.limit = 1]}) @@
  (c3 :> {[Comparing EXCEPT !.simc = TRUE, !.decode = TRUE, !.limit = 3], [Comparing EXCEPT !.providers = <<wh, iv>>]})

(* Two commands race over the root with nothing else going on; or one runs  *)
(* alone while time passes and somebody else writes to a bundle.            *)
Away(cs) == [c \in Running |-> IF c \in cs THEN [Unstarted EXCEPT !.at = "killed"] ELSE Unstarted]
RunsAlone == runs[c3].at # "killed"

MCGuidesInit == GuidesOnDisk /\ runs \in {Away({c1, c2}), Away({c3})}
MCGuidesNext == GuideCommands \/ (RunsAlone /\ GuideSurroundings)
MCGuidesSpec == MCGuidesInit /\ [][MCGuidesNext]_guiding
=============================================================================
