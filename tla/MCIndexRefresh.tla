--------------------------- MODULE MCIndexRefresh ---------------------------
(* A site of a menu page, a page that moves, and the page it moves to.    *)
EXTENDS IndexRefresh

CONSTANTS menuUrl, formerUrl, laterUrl

MCUrl == {menuUrl, formerUrl, laterUrl}
MCMoves == {<<formerUrl, laterUrl>>}
Shipped(u) == [status |-> "ok", to |-> NoUrl, first |-> 0, last |-> 0]
MCBundled == [rows |-> [u \in MCUrl |-> IF u \in {menuUrl, formerUrl} THEN Shipped(u) ELSE Absent],
              frontier |-> {}, refreshed |-> 0]

(* A smaller site for two refreshes at once.                               *)
MCTwoUrl == {menuUrl, formerUrl}
MCNoMoves == {}
MCTwoBundled == [rows |-> [u \in MCTwoUrl |-> IF u = menuUrl THEN Shipped(u) ELSE Absent],
                 frontier |-> {}, refreshed |-> 0]
=============================================================================
