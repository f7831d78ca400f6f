--------------------------- MODULE MCPullClusters ---------------------------
(* Fights whose windows chain, overlap and bridge; tolerances 1 and 2.      *)
EXTENDS PullClusters

MCWindow == {<<0, 9>>, <<1, 10>>, <<2, 11>>, <<4, 13>>, <<1, 12>>}
=============================================================================
