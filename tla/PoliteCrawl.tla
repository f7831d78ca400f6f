---------------------------- MODULE PoliteCrawl ----------------------------
(****************************************************************************)
(* What a crawl promises its provider and the site, whatever order it       *)
(* walks in: an address is fetched at most once, only when it is known, the *)
(* requests stay within the budget, and a run is complete only when every   *)
(* known address was fetched or served as another's redirect target.        *)
(****************************************************************************)
EXTENDS Naturals

CONSTANTS URL, Budget

VARIABLES
  known,     \* addresses the crawl has heard of
  fetched,   \* addresses it has fetched
  settled,   \* addresses some fetched page said it is
  spent,     \* requests made
  ending     \* "no" while the crawl runs, then "complete" or "partial"

Init ==
  /\ known \in SUBSET URL
  /\ fetched = {}
  /\ settled = {}
  /\ spent = 0
  /\ ending = "no"

(* Fetch a known address; the page may make more addresses known, and the  *)
(* answer may end the run early.                                           *)
Visit ==
  /\ ending = "no"
  /\ spent < Budget
  /\ \E u \in known \ fetched : fetched' = fetched \cup {u}
  /\ spent' \in {spent, spent + 1}
  /\ settled \subseteq settled'
  /\ known \cup settled' \subseteq known'
  /\ known' \subseteq URL
  /\ ending' \in {"no", "partial"}

(* The budget is spent and something is left to fetch. *)
RunOut ==
  /\ ending = "no"
  /\ spent >= Budget
  /\ ~ known \subseteq fetched
  /\ ending' = "partial"
  /\ UNCHANGED <<known, fetched, settled, spent>>

Complete ==
  /\ ending = "no"
  /\ known \subseteq fetched \cup settled
  /\ ending' = "complete"
  /\ UNCHANGED <<known, fetched, settled, spent>>

Next == Visit \/ RunOut \/ Complete

Spec == Init /\ [][Next]_<<known, fetched, settled, spent, ending>>
=============================================================================
