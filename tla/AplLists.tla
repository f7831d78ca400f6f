----------------------------- MODULE AplLists -------------------------------
(***************************************************************************)
(* simc_cli/apl.py: parse_apl reads an action priority list line by line.  *)
(* "SimC replaces a list on = and concatenates text on +=.  A slash starts *)
(* another action; an append without one continues the previous action."   *)
(***************************************************************************)
EXTENDS Integers, FiniteSets, SequencesExt

CONSTANTS
  ListName,  \* action lists
  Slash,
  Piece,     \* what is between slashes
  LineTexts, \* what lines assign or append: sequences of pieces and slashes
  MaxLines

ASSUME TextAssumption ==
  /\ Slash \notin Piece /\ MaxLines \in Nat
  /\ \A text \in LineTexts : text \in Seq(Piece \cup {Slash})

VARIABLES
  lines,            \* how many were read
  actions,          \* of each list
  separator_at_end, \* whether its text ends with a slash
  text              \* what SimC makes of its lines

texts == <<lines, actions, separator_at_end, text>>

TextInit ==
  /\ lines = 0 /\ actions = [l \in ListName |-> <<>>]
  /\ separator_at_end = [l \in ListName |-> FALSE] /\ text = [l \in ListName |-> <<>>]

(* The actions a text has. *)
Bodies(t) ==
  LET slashes == {0, Len(t) + 1} \cup {i \in DOMAIN t : t[i] = Slash}
      After(i) == CHOOSE k \in slashes : k > i /\ \A n \in slashes : n > i => k <= n
      starts == SetToSortSeq({i \in slashes : i <= Len(t) /\ After(i) > i + 1}, <)
  IN [i \in DOMAIN starts |-> SubSeq(t, starts[i] + 1, After(starts[i]) - 1)]

EndsWithSlash(kept, l, value) == IF value = <<>> THEN kept[l] ELSE value[Len(value)] = Slash

(* One line: an assignment forgets the list first. *)
ReadLine(l, op, value) ==
  LET kept == IF op = "=" THEN [separator_at_end EXCEPT ![l] = FALSE] ELSE separator_at_end
      before == IF op = "=" THEN <<>> ELSE actions[l]
      continues == op = "+=" /\ ~kept[l] /\ before # <<>> /\ value # <<>> /\ value[1] # Slash
      new == Bodies(value)
  IN /\ lines < MaxLines /\ lines' = lines + 1
     /\ actions' = [actions EXCEPT ![l] =
          IF continues THEN Front(before) \o <<Last(before) \o new[1]>> \o Tail(new) ELSE before \o new]
     /\ separator_at_end' = [kept EXCEPT ![l] = EndsWithSlash(kept, l, value)]
     /\ text' = [text EXCEPT ![l] = IF op = "=" THEN value ELSE @ \o value]

parse_apl == \E l \in ListName, op \in {"=", "+="}, value \in LineTexts : ReadLine(l, op, value)

TextSpec == TextInit /\ [][parse_apl]_texts

(* The actions of a list are those of the one text that SimC makes of its   *)
(* lines, wherever assignments, appends and slashes fall (parse_apl).       *)
ActionsAreOfTheText == \A l \in ListName : actions[l] = Bodies(text[l])

-----------------------------------------------------------------------------
(***************************************************************************)
(* simc_cli/branch.py: which rows of an action priority list a build can   *)
(* reach (trace_apl), and in which list its rotation is (resolve_focus_    *)
(* list), told without a fight, beside one scan of the lists by SimC in a  *)
(* fight.  Each row has its verdict (AplConditions).                       *)
(***************************************************************************)
CONSTANTS
  List, StartList,
  Helpers,   \* the lists whose name tells that they hold no rotation
  APLs,      \* what files hold: a sequence of rows for each list
  TraceDepth, FocusDepth

Row == [kind : {"action", "utility", "call", "run"}, target : List, status : {"guaranteed", "possible", "dead"}]

ASSUME BranchAssumption ==
  /\ StartList \in List /\ Helpers \subseteq List /\ TraceDepth \in Nat /\ FocusDepth \in Nat
  /\ \A apl \in APLs : DOMAIN apl = List /\ \A l \in List : apl[l] \in Seq(Row)

VARIABLES
  grouped,  \* the lists of the file
  scan,     \* the rows SimC is at, the inmost last
  entered,  \* the lists it has been in
  diverted, \* whether a row took it that may or may not run
  acted     \* what it does: a row, or nothing

branches == <<grouped, scan, entered, diverted, acted>>

Nothing == <<StartList, 0>>

-----------------------------------------------------------------------------
(* What is told.                                                           *)

Dispatches(l) == {i \in DOMAIN grouped[l] : grouped[l][i].kind = "run"}
Guaranteed(l) == {i \in Dispatches(l) : grouped[l][i].status = "guaranteed"}

(* The rows that end a list. *)
Stops(l) == Guaranteed(l)

Shown(l) == {i \in DOMAIN grouped[l] : \A k \in Stops(l) : i <= k}
Deep == <<"max depth", 0>>

RECURSIVE trace_list(_, _, _)
trace_list(l, depth, visited) ==
  CASE depth > TraceDepth                      -> {Deep}
    [] depth <= TraceDepth /\ l \in visited    -> {}
    [] OTHER ->
         {<<l, i>> : i \in Shown(l)} \cup
         UNION {trace_list(grouped[l][i].target, depth + (IF i \in Dispatches(l) \ Guaranteed(l) THEN 3 ELSE 2), visited \cup {l}) :
                i \in {k \in Shown(l) : grouped[l][k].kind \in {"call", "run"} /\ grouped[l][k].status # "dead"}}

trace_apl == trace_list(StartList, 0, {})

(* The first dispatch that always runs. *)
guaranteed_dispatch(l) ==
  IF Guaranteed(l) = {} THEN {} ELSE {grouped[l][CHOOSE i \in Guaranteed(l) : \A k \in Guaranteed(l) : i <= k].target}

Live(l) == {i \in DOMAIN grouped[l] : grouped[l][i].status # "dead"}
is_helper_decision(row) == row.kind = "call" /\ row.target \in Helpers

\* Mutant: the only dispatch there is must be the one taken.
OnlyCall(l) ==
  LET calls == {i \in Live(l) : grouped[l][i].kind \in {"call", "run"} /\ ~is_helper_decision(grouped[l][i])}
  IN {grouped[l][i].target : i \in {k \in calls : calls = {k} /\ grouped[l][k].kind = "call"}}

(* The list that a list always calls, when that holds its rotation. *)
single_call_target(l) ==
  LET calls == {i \in Live(l) : grouped[l][i].kind \in {"call", "run"} /\ ~is_helper_decision(grouped[l][i])}
      own == {i \in Live(l) : grouped[l][i].kind = "action"}
  IN {grouped[l][i].target : i \in
       {k \in calls : /\ calls = {k} /\ grouped[l][k].kind = "call" /\ grouped[l][k].status = "guaranteed"
                      /\ Cardinality(own) < Cardinality(Live(grouped[l][k].target))}}

RECURSIVE focus_path(_, _)
focus_path(path, steps) ==
  LET l == path[Len(path)]
      seen == {path[i] : i \in DOMAIN path}
      dispatch == guaranteed_dispatch(l) \ seen
      next == IF dispatch # {} THEN dispatch ELSE single_call_target(l) \ seen
  IN IF steps = 0 \/ next = {} THEN path ELSE focus_path(Append(path, CHOOSE n \in next : TRUE), steps - 1)

resolve_focus_list == focus_path(<<StartList>>, FocusDepth)

(* The rows of a list that are told to be inactive for the build. *)
inactive_priority_decisions(l) == {<<l, i>> : i \in DOMAIN grouped[l] \ Live(l)}

-----------------------------------------------------------------------------
(* SimC is external: it scans a list from the top.  A call goes on behind  *)
(* its row when the list it called has nothing; a run does not, and in a   *)
(* called list it may also end the calls.  A utility acts beside the       *)
(* rotation and lets the scan go on.  A loop ends the scan.                *)

BranchInit ==
  /\ grouped \in APLs
  /\ scan = <<<<StartList, 1>>>> /\ entered = {StartList} /\ diverted = FALSE /\ acted = Nothing

At == scan[Len(scan)]
Scanning == scan # <<>> /\ acted = Nothing
Outer == SubSeq(scan, 1, Len(scan) - 1)
NextRow == Append(Outer, <<At[1], At[2] + 1>>)
TheRow == grouped[At[1]][At[2]]
InList == Scanning /\ At[2] <= Len(grouped[At[1]])

ListEnds ==
  /\ Scanning /\ ~InList /\ scan' = Outer
  /\ UNCHANGED <<grouped, entered, diverted, acted>>

Skip ==
  /\ InList /\ (TheRow.status # "guaranteed" \/ TheRow.kind \in {"action", "utility"})
  /\ scan' = NextRow
  /\ UNCHANGED <<grouped, entered, diverted, acted>>

Act ==
  /\ InList /\ TheRow.status # "dead" /\ TheRow.kind \in {"action", "utility"}
  /\ acted' = At
  /\ UNCHANGED <<grouped, scan, entered, diverted>>

Enter(outer) ==
  LET loops == \E i \in DOMAIN scan : scan[i][1] = TheRow.target
  IN /\ scan' = IF loops THEN <<>> ELSE Append(outer, <<TheRow.target, 1>>)
     /\ entered' = IF loops THEN entered ELSE entered \cup {TheRow.target}

Call ==
  /\ InList /\ TheRow.status # "dead" /\ TheRow.kind = "call"
  /\ Enter(NextRow) /\ diverted' = (diverted \/ \E i \in DOMAIN scan : scan[i][1] = TheRow.target)
  /\ UNCHANGED <<grouped, acted>>

Dispatch ==
  /\ InList /\ TheRow.status # "dead" /\ TheRow.kind = "run"
  /\ \E outer \in {<<>>, Outer} : Enter(outer)
  /\ diverted' = (diverted \/ TheRow.status = "possible" \/ Len(scan) > 1 \/ \E i \in DOMAIN scan : scan[i][1] = TheRow.target)
  /\ UNCHANGED <<grouped, acted>>

BranchNext == ListEnds \/ Skip \/ Act \/ Call \/ Dispatch

BranchSpec == BranchInit /\ [][BranchNext]_branches

-----------------------------------------------------------------------------

(* A row that acts is one the trace shows and no list of inactive actions *)
(* names, through whatever calls, dispatches and loops SimC came to it,   *)
(* unless the trace says that it stopped at its depth (apl-branch-trace,  *)
(* priority, inactive-actions).                                           *)
RunsAreTraced ==
  acted # Nothing =>
    /\ acted \in trace_apl \/ Deep \in trace_apl
    /\ \A l \in List : acted \notin inactive_priority_decisions(l)

(* A scan that found nothing to do, and that no row which may or may not  *)
(* run took aside, has been in every list of the path to the focus list   *)
(* ("The list ``list_name`` always calls").                               *)
FocusIsReached ==
  scan = <<>> /\ acted = Nothing /\ ~diverted =>
    \A i \in DOMAIN resolve_focus_list : resolve_focus_list[i] \in entered

(* What SimC does agrees with the trace, the inactive rows and the focus.   *)
TracesHold == RunsAreTraced /\ FocusIsReached
=============================================================================
