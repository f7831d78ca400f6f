------------------------------ MODULE MCSimc --------------------------------
(* One kind of command of simc at a time: on builds, while another terminal  *)
(* maintains the checkout, or an analysis of an action priority list.        *)
EXTENDS TalentPackets, AplLists, AplConditions

-----------------------------------------------------------------------------
(* Two classes that both have a frost spec; a choice node; hero talents of   *)
(* two trees, some on a tiered node, one that SimC grants; what selects the  *)
(* first of these trees; builds of the checkout's revisions.                 *)
mage == <<"mage", "frost">>
death == <<"death", "frost">>
blood == <<"death", "blood">>
MCPair == {mage, death, blood}
MCHints == {Nobody, <<"death", None>>, <<None, "frost">>, <<None, "blood">>, death, <<"mage", "blood">>}
Some == {Nobody, <<None, "frost">>, death}
MCApls == {Nobody, mage, <<"custom", "mage">>}

MCEntry == 1..7
MCTree == <<"class", "class", "hero", "hero", "hero", "hero", "selection">>
MCHeroTree == <<None, None, "A", "B", "A", "A", "A">>
MCChoice == <<1, 1, 3, 4, 5, 6, 7>>
MCMaxRank == <<1, 1, 2, 1, 1, 2, 1>>
MCTiered == {{5, 6}}

Export(form, pair, path, made, talents) ==
  [form |-> form, path |-> path, decodes |-> {pair}, made |-> made, talents |-> talents]
none == [form |-> "none", path |-> Nobody, decodes |-> {}, made |-> 0, talents |-> <<0, 0, 0, 0, 0, 0, 0>>]
split(decodes, path) == [form |-> "split", path |-> path, decodes |-> decodes, made |-> 0, talents |-> <<1, 0, 1, 0, 0, 0, 0>>]

Mine == {Export("export", death, Nobody, r, <<1, 0, 1, 0, 0, 0, 0>>) : r \in 0..LastRevision}
Linked == {Export("url", mage, path, 0, <<0, 1, 2, 0, 0, 0, 0>>) : path \in {mage, death}}
Handed == {Export("packet", mage, Nobody, 0, <<0, 1, 2, 0, 0, 0, 0>>), split({mage}, mage)}
Splits == {split({mage, death}, Nobody), split({blood}, Nobody)}
Asked == {none} \cup Mine \cup Linked \cup Handed \cup Splits

Other == Export("export", death, Nobody, 0, <<0, 1, 2, 0, 1, 2, 0>>)
MCBuilds == Asked \cup {Other}
Asks == {{}, {<<2, 1>>}, {<<1, 0>>, <<2, 1>>}, {<<3, 2>>}, {<<3, 3>>}}

Raw(rows) == [NoPacket EXCEPT !.status = "raw_only", !.pair = death, !.rows = rows]
Reported == {Raw(<<<<1, 1>>, <<3, 2>>>>), Raw(<<<<2, 1>>, <<5, 1>>, <<6, 2>>, <<7, 1>>>>),
             Raw(<<<<3, 1>>, <<4, 1>>>>), Raw(<<<<4, 1>>, <<7, 1>>>>), Raw(<<<<3, 1>>, <<4, 0>>>>), Raw(<<<<7, 1>>>>),
             Raw(<<<<3, 1>>, <<3, 2>>>>), Raw(<<<<2, 2>>>>), Raw(<<<<1, 1>>, <<2, 1>>>>), Raw(<<<<9, 1>>>>),
             Raw(<<<<1, 0>>>>), [Raw(<<<<1, 1>>>>) EXCEPT !.pair = Nobody]}
OnLink == {[NoPacket EXCEPT !.status = "exact", !.form = "url", !.build = b, !.pair = b.path] : b \in Linked}
InFiles == Reported \cup OnLink \cup {NoPacket,
  [NoPacket EXCEPT !.status = "exact", !.form = "export", !.build = Other, !.pair = mage],
  [NoPacket EXCEPT !.status = "raw_only", !.form = "split", !.build = split({mage}, mage), !.pair = mage, !.rows = <<<<1, 1>>>>],
  [NoPacket EXCEPT !.status = "validated", !.form = "split", !.build = split({mage}, mage), !.pair = mage, !.validated = mage],
  [NoPacket EXCEPT !.status = "validated", !.form = "split", !.build = split({mage}, mage), !.pair = death, !.validated = mage]}

MCBuildsInit == WorkspaceInit /\ command = Idle /\ out = None

Begin ==
  \/ \E name \in {"identify", "decode", "analyse", "harness"}, b \in Asked, hint \in MCHints, apl \in MCApls :
       (hint \in Some \/ name = "identify") /\ (apl = Nobody \/ name = "analyse") /\ decode_build(name, b, hint, apl)
  \/ \E b \in Mine, other \in {Other} \cup Linked : compare_builds(b, other, Nobody)
  \/ \E b \in Mine, swaps \in {None, "class", "hero"}, other \in {Other} \cup Linked, edits \in Asks :
       (IF swaps = None THEN other = Other ELSE edits \in {{}, {<<2, 1>>}}) /\ modify_build(b, swaps, other, edits)

Applies == \E b \in Mine \cup Splits, overwrite \in BOOLEAN : apply_build(b, death, overwrite)

Route ==
  \E file \in {None, "packet.json"}, p \in InFiles, save \in {None, "out.json"},
     describes \in BOOLEAN, validates \in BOOLEAN, forever \in BOOLEAN :
    /\ file = None => p \in Reported \cup OnLink
    /\ forever => describes /\ ~validates
    /\ resolve_talent_transport(p, file, save, describes, validates, forever)

(* A command that has ended is forgotten before anything else happens, and  *)
(* what is at --out moves while nothing or apply-build runs: nobody else    *)
(* looks at it.                                                             *)
MCBuildsNext ==
  \/ command.at # "done" /\ Maintains
  \/ command.at # "done" /\ command.name \in {None, "apply"} /\ UserWrites
  \/ BuildSteps \/ PacketSteps \/ (command.at = "idle" /\ (Applies \/ (out = None /\ (Route \/ Begin))))

-----------------------------------------------------------------------------
(* One analysis of an action priority list at a time: of a file's text, of   *)
(* a condition, of the lists, or of variants compared.                       *)
MCTexts == UNION {[1..n -> {"cast", "/"}] : n \in 0..3}

(* A talent, and a name of one of its node's entries. *)
MCBase == [t \in {"hand", "hand_4"} |-> IF t = "hand_4" THEN "hand" ELSE "none"]
MCNumber == {-1, 2}

MCList == {"default", "st", "helper"}
R(kind, target, status) == [kind |-> kind, target |-> target, status |-> status]
Cast == R("action", "default", "possible")
Statuses == {"guaranteed", "possible", "dead"}
Rows == {Cast, R("action", "default", "dead"), R("utility", "default", "guaranteed")}
          \cup {R(kind, target, status) : kind \in {"call", "run"}, target \in MCList, status \in Statuses}
Second == {<<>>, <<R("action", "default", "guaranteed")>>} \cup {<<r, Cast>> : r \in Rows}
MCAPLs ==
  {("default" :> <<r, s, t>>) @@ ("st" :> second) @@ ("helper" :> <<third>>) :
     r \in Rows, s \in Rows, t \in {Cast, R("call", "st", "guaranteed")}, second \in Second,
     third \in {R("utility", "default", "guaranteed"), R("run", "st", "possible")}}

(* What the analysis tells is of the lists in the text, agrees with what   *)
(* SimC does with them, and compares what it names (apl.py, branches.py,   *)
(* compare.py).                                                            *)
AplHolds == ActionsAreOfTheText /\ TracesHold /\ ComparesWhatItNames

(* No rank is decoded of a talent that is not taken. *)
MCConditionInit == ConditionInit /\ \A t \in Talent : context.rank[t] # 0 => t \in context.enabled \ context.disabled

ConditionIdle ==
  /\ context = [known |-> TRUE, hero |-> FALSE, enabled |-> {}, disabled |-> {}, rank |-> [t \in Talent |-> 0], targets |-> 1]
  /\ fight = [rank |-> [t \in Talent |-> 0], targets |-> 1] /\ operands = <<>> /\ verdict = NoVerdict
BranchIdle ==
  /\ grouped = [l \in List |-> <<>>] /\ scan = <<>> /\ entered = {StartList} /\ diverted = FALSE /\ acted = Nothing
CompareIdle ==
  /\ job = [variants |-> 1, reports |-> FALSE, validates |-> FALSE] /\ alias = NoAlias
  /\ disk = [n \in Name |-> IF n \in inputs THEN Own(n) ELSE Empty] /\ at = "idle" /\ variant = 1 /\ summaries = <<>>

-----------------------------------------------------------------------------

VARIABLE analysis

Init ==
  /\ analysis \in {"builds", "text", "condition", "branches", "comparison"}
  /\ MCBuildsInit /\ (analysis # "builds" => ~configured /\ engine["managed"] = NoEngine)
  /\ TextInit
  /\ IF analysis = "condition" THEN MCConditionInit ELSE ConditionIdle
  /\ IF analysis = "branches" THEN BranchInit ELSE BranchIdle
  /\ IF analysis = "comparison" THEN CompareInit ELSE CompareIdle

building == <<workspace, command, out>>
Next ==
  /\ UNCHANGED analysis
  /\ \/ analysis = "builds" /\ MCBuildsNext /\ UNCHANGED <<texts, conditions, branches, comparison>>
     \/ analysis = "text" /\ parse_apl /\ UNCHANGED <<building, conditions, branches, comparison>>
     \/ analysis = "condition" /\ ConditionNext /\ UNCHANGED <<building, texts, branches, comparison>>
     \/ analysis = "branches" /\ BranchNext /\ UNCHANGED <<building, texts, conditions, comparison>>
     \/ analysis = "comparison" /\ CompareNext /\ UNCHANGED <<building, texts, conditions, branches>>

MCSpec == Init /\ [][Next]_<<analysis, building, texts, conditions, branches, comparison>>
=============================================================================
