--------------------------- MODULE MCSiteCrawler ---------------------------
(* Small sites for SiteCrawler: a menu page s and the pages a..d.          *)
EXTENDS SiteCrawler

CONSTANTS s, a, b, c, d

MCUrl == {s, a, b, c, d}
MCSeedLists == {<<s>>, <<s, a>>}
MCHeld == {b, c}
MCTargets == {c}
MCFollow == {{}, {a, b}, {c, d}}
=============================================================================
