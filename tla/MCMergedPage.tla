---------------------------- MODULE MCMergedPage ----------------------------
(* The three families of providers: game entities, profiles, and articles. *)
EXTENDS MergedPage, TLC

CONSTANTS wowhead, raiderio, wiki

MCNameOrder == (raiderio :> 1) @@ (wiki :> 2) @@ (wowhead :> 3)
=============================================================================
