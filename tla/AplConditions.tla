---------------------------- MODULE AplConditions ----------------------------
(***************************************************************************)
(* simc_cli/prune.py: whether a row of an action priority list can run for *)
(* a build.  The parser evaluates as it reads: each expression becomes the *)
(* range of the values it can take, and here the value it does take in     *)
(* some fight beside it.  Numbers are whole.  The second part of the       *)
(* module is compare.py, which compares variants of a list.                *)
(***************************************************************************)
EXTENDS Integers, Sequences

CONSTANTS
  Talent,   \* the names conditions test talents by
  Base,     \* the talent a name with an index is an entry of, or NoTalent
  NoTalent,
  Rank,     \* how high talents rank
  Targets,
  Number,   \* the numbers that are written, or come up in a fight
  MaxOperands, MaxValue \* bounds on conditions

ASSUME ConditionAssumption ==
  /\ Rank \subseteq Nat \ {0} /\ Targets \subseteq Nat \ {0} /\ Number \subseteq Int
  /\ Base \in [Talent -> Talent \cup {NoTalent}] /\ NoTalent \notin Talent

VARIABLES
  context,  \* what is known of the build
  fight,    \* the build as it is, and its targets
  operands, \* what the parser has read
  verdict   \* of the condition: for this build, and with its talents unknown

conditions == <<context, fight, operands, verdict>>

-----------------------------------------------------------------------------
(* Spans.                                                                  *)

Span(lo, hi) == [lo |-> lo, hi |-> hi, below |-> FALSE, above |-> FALSE]
AtLeast(lo) == [lo |-> lo, hi |-> lo, below |-> FALSE, above |-> TRUE]
ANY == [lo |-> 0, hi |-> 0, below |-> TRUE, above |-> TRUE]
TrueSpan == Span(1, 1)
FalseSpan == Span(0, 0)
Either == Span(0, 1)

point(s) == ~s.below /\ ~s.above /\ s.lo = s.hi
Below(s, t) == ~s.above /\ ~t.below /\ s.hi < t.lo
AtMost(s, t) == ~s.above /\ ~t.below /\ s.hi <= t.lo

can_be_true(s) == ~(point(s) /\ s.lo = 0)
can_be_false(s) == (s.below \/ s.lo <= 0) /\ (s.above \/ 0 <= s.hi)

outcome(s) ==
  CASE can_be_true(s) /\ ~can_be_false(s) -> "eligible"
    [] can_be_false(s) /\ ~can_be_true(s) -> "dead"
    [] OTHER                              -> "unknown"

from_outcome(t, f) == Span(IF f THEN 0 ELSE 1, IF t THEN 1 ELSE 0)

-----------------------------------------------------------------------------
(* What operators do: to spans, and to numbers.                            *)

Bit(b) == IF b THEN 1 ELSE 0
Not(s) == from_outcome(can_be_false(s), can_be_true(s))
Minus(s) == [lo |-> -s.hi, hi |-> -s.lo, below |-> s.above, above |-> s.below]

Logic == {"&", "|", "^"}
Comparison == {"=", "!=", "<", "<=", ">", ">="}
Folded == {"+", "-", "*", "<?", ">?"}
Runtime == {"%", "%%"}

logic(s, op, t) ==
  LET st == can_be_true(s)  sf == can_be_false(s)
      tt == can_be_true(t)  tf == can_be_false(t)
  IN CASE op = "&" -> from_outcome(st /\ tt, sf \/ tf)
       [] op = "|" -> from_outcome(st \/ tt, sf /\ tf)
       [] OTHER    -> from_outcome((st /\ tf) \/ (sf /\ tt), (st /\ tt) \/ (sf /\ tf))

equal(s, t) ==
  CASE point(s) /\ point(t)                                        -> Span(Bit(s.lo = t.lo), Bit(s.lo = t.lo))
    [] ~(point(s) /\ point(t)) /\ (Below(s, t) \/ Below(t, s))     -> FalseSpan
    [] OTHER                                                       -> Either

greater(s, t) ==
  CASE Below(t, s)                  -> TrueSpan
    [] ~Below(t, s) /\ AtMost(s, t) -> FalseSpan
    [] OTHER                        -> Either

at_least(s, t) ==
  CASE AtMost(t, s)                 -> TrueSpan
    [] ~AtMost(t, s) /\ Below(s, t) -> FalseSpan
    [] OTHER                        -> Either

compare(s, op, t) ==
  CASE op = "="  -> equal(s, t)
    [] op = "!=" -> Not(equal(s, t))
    [] op = "<"  -> greater(t, s)
    [] op = "<=" -> at_least(t, s)
    [] op = ">"  -> greater(s, t)
    [] op = ">=" -> at_least(s, t)

Fold(x, op, y) ==
  CASE op = "+"  -> x + y
    [] op = "-"  -> x - y
    [] op = "*"  -> x * y
    [] op = "<?" -> IF x >= y THEN x ELSE y
    [] op = ">?" -> IF x <= y THEN x ELSE y

arithmetic(s, op, t) ==
  IF op \in Folded /\ point(s) /\ point(t) THEN Span(Fold(s.lo, op, t.lo), Fold(s.lo, op, t.lo)) ELSE ANY

binary(s, op, t) ==
  CASE op \in Logic      -> logic(s, op, t)
    [] op \in Comparison -> compare(s, op, t)
    [] OTHER             -> arithmetic(s, op, t)

(* SimC's own. *)
Holds(x, op, y) ==
  CASE op = "&"  -> x # 0 /\ y # 0
    [] op = "|"  -> x # 0 \/ y # 0
    [] op = "^"  -> (x # 0) # (y # 0)
    [] op = "="  -> x = y
    [] op = "!=" -> x # y
    [] op = "<"  -> x < y
    [] op = "<=" -> x <= y
    [] op = ">"  -> x > y
    [] op = ">=" -> x >= y

Results(x, op, y) ==
  CASE op \in Logic \cup Comparison -> {Bit(Holds(x, op, y))}
    [] op \in Folded                -> {Fold(x, op, y)}
    [] OTHER                        -> Number

-----------------------------------------------------------------------------
(* Atoms.                                                                  *)

\* Mutant: a name that was not decoded is a talent that was not taken.
DecodedOnly(name, c) ==
  CASE ~c.known                                                    -> AtLeast(0)
    [] c.known /\ name \in c.enabled \ c.disabled /\ c.rank[name] # 0 -> Span(c.rank[name], c.rank[name])
    [] c.known /\ name \in c.enabled \ c.disabled /\ c.rank[name] = 0 -> AtLeast(1)
    [] OTHER                                                       -> FalseSpan

(* Which entry of a node the build took is not known. *)
talent_rank(name, c) ==
  CASE ~c.known                                                    -> AtLeast(0)
    [] c.known /\ name \in c.disabled                              -> FalseSpan
    [] c.known /\ name \in c.enabled \ c.disabled                  ->
         IF c.rank[name] # 0 THEN Span(c.rank[name], c.rank[name]) ELSE AtLeast(1)
    [] OTHER -> IF Base[name] \in c.enabled THEN AtLeast(0) ELSE FalseSpan

Suffix == {"rank", "enabled", "disabled"}

talent_atom(name, suffix, c) ==
  LET rank == talent_rank(name, c)
      enabled == from_outcome(can_be_true(rank), can_be_false(rank))
  IN CASE suffix = "rank"    -> rank
       [] suffix = "enabled" -> enabled
       [] OTHER              -> Not(enabled)

TalentValue(name, suffix) ==
  LET rank == fight.rank[name]
  IN CASE suffix = "rank"    -> rank
       [] suffix = "enabled" -> Bit(rank # 0)
       [] OTHER              -> Bit(rank = 0)

hero_tree_atom(mine, c) ==
  IF c.known /\ c.hero THEN Span(Bit(mine), Bit(mine)) ELSE ANY

without_talents(c) == [c EXCEPT !.known = FALSE]

(* A build as its decode tells it: the talents taken, and the ranks of some *)
(* of them.                                                                 *)
Faithful(c, f) ==
  \A t \in Talent :
    CASE t \in c.disabled                -> f.rank[t] = 0
      [] t \in c.enabled \ c.disabled    -> f.rank[t] \in IF c.rank[t] # 0 THEN {c.rank[t]} ELSE Rank
      [] OTHER                           -> f.rank[t] \in IF Base[t] \in c.enabled THEN {0} \cup Rank ELSE {0}

-----------------------------------------------------------------------------
(* The parser.                                                             *)

Context == [known : {TRUE}, hero : BOOLEAN, enabled : SUBSET Talent, disabled : SUBSET Talent,
            rank : [Talent -> {0} \cup Rank], targets : Targets]
Fight == [rank : [Talent -> {0} \cup Rank], targets : Targets]
NoVerdict == [build |-> "reading", blind |-> "reading", value |-> 0]

ConditionInit ==
  /\ context \in Context /\ fight \in Fight
  /\ Faithful(context, fight) /\ fight.targets = context.targets
  /\ operands = <<>> /\ verdict = NoVerdict

Operand(build, blind, value) == [build |-> build, blind |-> blind, value |-> value]

Reads(build, blind, value) ==
  /\ verdict = NoVerdict /\ Len(operands) < MaxOperands
  /\ operands' = Append(operands, Operand(build, blind, value))
  /\ UNCHANGED <<context, fight, verdict>>

ReadNumber(n) == Reads(Span(n, n), Span(n, n), n)
ReadTargets == Reads(Span(context.targets, context.targets), Span(context.targets, context.targets), fight.targets)
ReadRuntime(n) == Reads(ANY, ANY, n)
ReadHero(mine) == Reads(hero_tree_atom(mine, context), hero_tree_atom(mine, without_talents(context)), Bit(mine))
ReadTalent(name, suffix) ==
  Reads(talent_atom(name, suffix, context), talent_atom(name, suffix, without_talents(context)), TalentValue(name, suffix))

Unary(op, n) ==
  LET x == operands[Len(operands)]
      rest == SubSeq(operands, 1, Len(operands) - 1)
  IN /\ verdict = NoVerdict /\ operands # <<>> /\ UNCHANGED <<context, fight, verdict>>
     /\ operands' = Append(rest,
          CASE op = "!" -> Operand(Not(x.build), Not(x.blind), Bit(x.value = 0))
            [] op = "-" -> Operand(Minus(x.build), Minus(x.blind), -x.value)
            [] OTHER    -> Operand(ANY, ANY, n))

Binary(op) ==
  LET x == operands[Len(operands) - 1]
      y == operands[Len(operands)]
      rest == SubSeq(operands, 1, Len(operands) - 2)
  IN /\ verdict = NoVerdict /\ Len(operands) >= 2 /\ UNCHANGED <<context, fight, verdict>>
     /\ \E value \in Results(x.value, op, y.value) : value \in -MaxValue..MaxValue /\
          operands' = Append(rest, Operand(binary(x.build, op, y.build), binary(x.blind, op, y.blind), value))

(* A condition that is not read in full has no verdict but unknown. *)
GiveUp ==
  /\ verdict = NoVerdict /\ UNCHANGED <<context, fight, operands>>
  /\ \E n \in {0, 1} : verdict' = [build |-> "unknown", blind |-> "unknown", value |-> n]

evaluate_condition_outcome ==
  LET x == operands[1]
  IN /\ verdict = NoVerdict /\ Len(operands) = 1 /\ UNCHANGED <<context, fight, operands>>
     /\ verdict' = [build |-> outcome(x.build), blind |-> outcome(x.blind), value |-> x.value]

ConditionNext ==
  \/ \E n \in Number : ReadNumber(n) \/ ReadRuntime(n)
  \/ ReadTargets
  \/ \E mine \in BOOLEAN : ReadHero(mine)
  \/ \E name \in Talent, suffix \in Suffix : ReadTalent(name, suffix)
  \/ \E op \in {"!", "-", "@"}, n \in Number : Unary(op, n)
  \/ \E op \in Logic \cup Comparison \cup Folded \cup Runtime : Binary(op)
  \/ GiveUp \/ evaluate_condition_outcome

ConditionSpec == ConditionInit /\ [][ConditionNext]_conditions

-----------------------------------------------------------------------------

InSpan(s, v) == (s.below \/ s.lo <= v) /\ (s.above \/ v <= s.hi)

(* Whatever a condition is made of and whatever comes up in the fight, a    *)
(* row that is called dead never runs, one that is called eligible always   *)
(* can, and what is dead whatever the talents is dead for the build too, so *)
(* that no row is said to be gated by talents that is not (prune.py: "A     *)
(* condition is eligible or dead only when that range proves it").          *)
VerdictsHold ==
  /\ verdict.build = "dead" => verdict.value = 0
  /\ verdict.build = "eligible" => verdict.value # 0
  /\ verdict.blind = "dead" => verdict.build = "dead"

Within(s, t) == (t.below \/ (~s.below /\ t.lo <= s.lo)) /\ (t.above \/ (~s.above /\ s.hi <= t.hi))

(* What it rests on: every operand's value is in its span, and what is    *)
(* known of the build only narrows the span.                              *)
SpansHold ==
  \A i \in DOMAIN operands :
    InSpan(operands[i].build, operands[i].value) /\ Within(operands[i].build, operands[i].blind)

-----------------------------------------------------------------------------
(***************************************************************************)
(* simc_cli/compare.py: compare-apls writes a profile for each variant,    *)
(* checks it, simulates it and reports on what SimC wrote.  Two of the     *)
(* names it is given or makes up may stand for one file.                   *)
(***************************************************************************)
CONSTANT MaxVariants \* the base and its variants

ASSUME CompareAssumption == MaxVariants \in Nat \ {0}

VARIABLES
  job,    \* the variants, whether a report is kept, whether profiles are checked
  alias,  \* two names of one file, by a link, a hard link or their case
  disk,   \* what each name leads to
  at,     \* what is done
  variant, \* to which one
  summaries

comparison == <<job, alias, disk, at, variant, summaries>>

Variant == 1..MaxVariants
Input == {<<"harness", 0>>} \cup ({"apl"} \X Variant)
Output == ({"profile", "json"} \X Variant) \cup {<<"report", 0>>}
Name == Input \cup Output
Own(name) == <<name>>
Empty == <<>>

NoAlias == [names |-> {}, how |-> "link"]

inputs == {<<"harness", 0>>} \cup ({"apl"} \X (1..job.variants))
outputs == ({"profile", "json"} \X (1..job.variants)) \cup (IF job.reports THEN {<<"report", 0>>} ELSE {})

CompareInit ==
  /\ job \in [variants : Variant, reports : BOOLEAN, validates : BOOLEAN]
  /\ alias \in {NoAlias} \cup [names : {{m, n} : m \in inputs \cup outputs, n \in outputs}, how : {"link", "hard", "case"}]
  /\ alias.names # {} => \E m, n \in alias.names : m # n
  /\ disk = [n \in Name |->
       IF n \in inputs \/ (alias.names \cap inputs # {} /\ n \in alias.names)
       THEN Own(IF n \in inputs THEN n ELSE CHOOSE m \in alias.names : m \in inputs)
       ELSE IF alias.how = "hard" /\ n \in alias.names THEN <<"old">> ELSE Empty]
  /\ at = "preflight" /\ variant = 1 /\ summaries = <<>>

Exists(n) == disk[n] # Empty

(* Links are followed, case is not told apart, and files that exist are   *)
(* asked for their identity.                                              *)
paths_overlap(m, n) == {m, n} = alias.names /\ (alias.how = "hard" => Exists(m) /\ Exists(n))

preflight_output_paths(ins, outs) ==
  \A o \in outs : \A other \in (ins \cup outs) \ {o} : ~paths_overlap(o, other)

Write(n, content) == disk' = [m \in Name |-> IF m = n \/ {m, n} = alias.names THEN content ELSE disk[m]]

ThenAt(step) == at' = step /\ variant' = 1
Advances(step) == IF variant < job.variants THEN at' = at /\ variant' = variant + 1 ELSE ThenAt(step)
Fails(code) == at' = code /\ UNCHANGED <<disk, variant, summaries>>

Preflight ==
  /\ at = "preflight"
  /\ IF preflight_output_paths(inputs, outputs) THEN ThenAt("write") /\ UNCHANGED <<disk, summaries>> ELSE Fails("invalid_query")

build_variant_profile ==
  LET target == <<"profile", variant>>
      read == {<<"harness", 0>>, <<"apl", variant>>}
  IN /\ at = "write"
     /\ IF preflight_output_paths(read, {target})
        THEN /\ Write(target, disk[<<"harness", 0>>] \o disk[<<"apl", variant>>])
             /\ Advances(IF job.validates THEN "validate" ELSE "simulate") /\ UNCHANGED summaries
        ELSE Fails("invalid_query")

(* SimC refuses a profile, or ignores some of it. *)
validate_profile_file ==
  /\ at = "validate"
  /\ \/ Advances("simulate") /\ UNCHANGED <<disk, summaries>>
     \/ Fails("compare_apls_failed")

simulate_variant ==
  /\ at = "simulate"
  /\ \/ /\ Write(<<"json", variant>>, disk[<<"profile", variant>>])
        /\ summaries' = Append(summaries, disk'[<<"json", variant>>])
        /\ Advances("report")
     \/ Fails("compare_apls_failed")

comparison_report ==
  /\ at = "report" /\ at' = "answered"
  /\ IF job.reports THEN Write(<<"report", 0>>, <<"report">>) ELSE UNCHANGED disk
  /\ UNCHANGED <<variant, summaries>>

CompareNext ==
  /\ UNCHANGED <<job, alias>>
  /\ \/ Preflight \/ build_variant_profile \/ validate_profile_file \/ simulate_variant \/ comparison_report

CompareSpec == CompareInit /\ [][CompareNext]_comparison

-----------------------------------------------------------------------------

(* A comparison never changes the harness or an APL, and each summary is of *)
(* the harness with the APL it is named for, whichever names lead to one    *)
(* file (preflight_output_paths: "Reject input/output aliases and output    *)
(* collisions before writing any artifact").                                *)
ComparesWhatItNames ==
  /\ \A n \in inputs : disk[n] = Own(n)
  /\ \A v \in DOMAIN summaries : summaries[v] = <<<<"harness", 0>>, <<"apl", v>>>>
=============================================================================
