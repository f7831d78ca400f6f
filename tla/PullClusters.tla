---------------------------- MODULE PullClusters ----------------------------
(***************************************************************************)
(* warcraftlogs_cli/boss_kills.py: deduplicate_pulls folds the fights of   *)
(* several reports that are logs of one real pull.  The fights here are of *)
(* one encounter, difficulty, size and key level (others are clustered     *)
(* apart) and have a computable window (others are kept on their own).     *)
(* They are taken in the order of timed.sort().                            *)
(***************************************************************************)
EXTENDS Integers, Sequences, FiniteSets

CONSTANTS
  Window,     \* wall-clock windows: pairs <<start, end>>
  Guild,
  NoGuild,    \* a personal log
  Roster,     \* sets of players
  Unknown,    \* the empty set of players: details that name nobody
  Tight,      \* DUPLICATE_PULL_TOLERANCE_MS
  Loose,      \* ROSTER_MATCH_TOLERANCE_MS
  MaxFights   \* bound on the fights sampled

ASSUME PullAssumption ==
  /\ Window \subseteq Int \X Int
  /\ NoGuild \notin Guild /\ Unknown \notin Roster
  /\ Tight \in Nat /\ Loose \in Nat /\ Tight <= Loose
  /\ MaxFights \in Nat

VARIABLES
  timed,     \* the fights clustered so far, in order
  pullOf,    \* the fight that represents the pull of each
  possible   \* possible_duplicate_of each, or 0

vars == <<timed, pullOf, possible>>

Fight == [window : Window, guild : Guild \cup {NoGuild}, roster : Roster \cup {Unknown}]

Init == timed = <<>> /\ pullOf = <<>> /\ possible = <<>>

Close(t, u, tolerance) == t - u <= tolerance /\ u - t <= tolerance

SameWindow(f, g, tolerance) ==
  /\ Close(f.window[1], g.window[1], tolerance)
  /\ Close(f.window[2], g.window[2], tolerance)

(* timed.sort(): by start, then end. *)
InOrder(f, g) ==
  \/ f.window[1] < g.window[1]
  \/ f.window[1] = g.window[1] /\ f.window[2] <= g.window[2]

Pulls == {i \in DOMAIN timed : pullOf[i] = i}
Members(p) == {i \in DOMAIN timed : pullOf[i] = p}

Within(p, f, tolerance) == \E i \in Members(p) : SameWindow(timed[i], f, tolerance)

FirstOf(S) == CHOOSE i \in S : \A j \in S : i <= j

(* _roster_match: the first known roster of the pull decides. *)
\* Mutant: only the roster of the representing fight is looked at.
KnownFirst(p) == {i \in {p} : timed[i].roster # Unknown}

Known(p) == {i \in Members(p) : timed[i].roster # Unknown}

RosterMatch(p, f) ==
  IF Known(p) = {} \/ f.roster = Unknown THEN "unsure"
  ELSE IF timed[FirstOf(Known(p))].roster = f.roster THEN "same" ELSE "differs"

Near(f) == {p \in Pulls : Within(p, f, Loose)}

ByGuild(f) ==
  {p \in Near(f) : /\ f.guild # NoGuild /\ timed[p].guild = f.guild
                   /\ Within(p, f, Tight) /\ RosterMatch(p, f) # "differs"}

ByRoster(f) == {p \in Near(f) : RosterMatch(p, f) = "same"}

(* _possible_duplicate_of *)
Confusable(f) ==
  {p \in Near(f) : Within(p, f, Tight) /\ NoGuild \in {f.guild, timed[p].guild}}

Fold(f, p) ==
  /\ timed' = Append(timed, f)
  /\ pullOf' = Append(pullOf, p)
  /\ possible' = Append(possible, 0)

FoldByGuild(f) == ByGuild(f) # {} /\ Fold(f, FirstOf(ByGuild(f)))

FoldByRoster(f) ==
  /\ ByGuild(f) = {} /\ ByRoster(f) # {}
  /\ Fold(f, FirstOf(ByRoster(f)))

KeepApart(f) ==
  /\ ByGuild(f) = {} /\ ByRoster(f) = {}
  /\ timed' = Append(timed, f)
  /\ pullOf' = Append(pullOf, Len(timed) + 1)
  /\ possible' = Append(possible, IF Confusable(f) = {} THEN 0 ELSE FirstOf(Confusable(f)))

(* The loop's next fight. *)
Takes(f) ==
  /\ Len(timed) < MaxFights
  /\ \A i \in DOMAIN timed : InOrder(timed[i], f)

Next == \E f \in Fight : Takes(f) /\ (FoldByGuild(f) \/ FoldByRoster(f) \/ KeepApart(f))

Spec == Init /\ [][Next]_vars

-----------------------------------------------------------------------------
(* Properties.                                                              *)

(* A pull is represented by its first fight, and only a pull that is kept   *)
(* cites another, one that was kept before it.                              *)
TypeOK ==
  /\ timed \in Seq(Fight) /\ pullOf \in Seq(Nat) /\ possible \in Seq(Nat)
  /\ Len(pullOf) = Len(timed) /\ Len(possible) = Len(timed)
  /\ \A i \in DOMAIN timed :
       /\ pullOf[i] \in 1..i /\ pullOf[i] \in Pulls
       /\ possible[i] # 0 => pullOf[i] = i /\ possible[i] \in Pulls /\ possible[i] < i

(* "Two known, different rosters always prevent a match": no pull counts    *)
(* the kill of two groups of players, even when the log that would tell     *)
(* them apart came between two that name nobody.                            *)
OneRoster ==
  \A i, j \in DOMAIN timed :
    pullOf[i] = pullOf[j] => Unknown \in {timed[i].roster, timed[j].roster}
                             \/ timed[i].roster = timed[j].roster

Earlier(i) == {j \in DOMAIN timed : j < i /\ pullOf[j] = pullOf[i]}

Justified(i) ==
  \/ /\ \E j \in Earlier(i) : SameWindow(timed[j], timed[i], Loose)
     /\ \E j \in Earlier(i) : timed[j].roster = timed[i].roster /\ timed[i].roster # Unknown
  \/ /\ \E j \in Earlier(i) : SameWindow(timed[j], timed[i], Tight)
     /\ timed[i].guild # NoGuild /\ timed[i].guild = timed[pullOf[i]].guild

(* "The match is deliberately narrow": a fight that is folded has the roster *)
(* of an earlier log of the pull, or is timed like one and comes from the    *)
(* guild whose log represents it; a personal log is only folded by roster.   *)
NarrowFolds == \A i \in DOMAIN timed : pullOf[i] # i => Justified(i)

SoundFolds == OneRoster /\ NarrowFolds

(* Where the rules cannot pull in two directions, a pull counts once: when  *)
(* the fights end in the order they start, and every roster is known (or    *)
(* none is), two logs of the same players within Loose (or of the same      *)
(* guild within Tight) are in one pull, whatever pulls overlap them and     *)
(* whatever guilds logged them.                                             *)
InStep ==
  \A i, j \in DOMAIN timed : i < j => timed[i].window[2] <= timed[j].window[2]

CountedOnce ==
  InStep =>
    /\ (\A i \in DOMAIN timed : timed[i].roster # Unknown) =>
         \A i, j \in DOMAIN timed :
           timed[i].roster = timed[j].roster /\ SameWindow(timed[i], timed[j], Loose)
             => pullOf[i] = pullOf[j]
    /\ (\A i \in DOMAIN timed : timed[i].roster = Unknown) =>
         \A i, j \in DOMAIN timed :
           timed[i].guild = timed[j].guild /\ timed[i].guild # NoGuild
             /\ SameWindow(timed[i], timed[j], Tight)
             => pullOf[i] = pullOf[j]

(* docs/warcraftlogs/README.md: fights "are collapsed into one sampled kill *)
(* when they ... list the same set of players with start and end within     *)
(* 30 s".  A third log can come between two rules, or bridge two pulls.     *)
SamePlayersOnce ==
  \A i, j \in DOMAIN timed :
    timed[i].roster = timed[j].roster /\ timed[i].roster # Unknown
      /\ SameWindow(timed[i], timed[j], Loose)
      => pullOf[i] = pullOf[j]
=============================================================================
