------------------------- MODULE AplConditionsProofs -------------------------
(***************************************************************************)
(* For every set of talents, every rank, number and target count, and      *)
(* every condition: the verdicts of AplConditions hold.  The invariant     *)
(* behind it is that each operand's value is in its span (SpansHold), kept *)
(* by every operator of the parser.                                        *)
(***************************************************************************)
EXTENDS AplConditions, TLAPS

SpanSet == [lo : Int, hi : Int, below : BOOLEAN, above : BOOLEAN]
OperandSet == [build : SpanSet, blind : SpanSet, value : Int]

TypeOK ==
  /\ context \in Context /\ fight \in Fight /\ operands \in Seq(OperandSet)
  /\ verdict \in [build : {"reading", "eligible", "dead", "unknown"},
                  blind : {"reading", "eligible", "dead", "unknown"}, value : Int]

Sound(s, w, v) == InSpan(s, v) /\ Within(s, w)

(* Spans that are made of whole numbers are spans, and hold them.           *)
LEMMA Points == ASSUME NEW n \in Int
                PROVE  Span(n, n) \in SpanSet /\ Sound(Span(n, n), Span(n, n), n)
  BY DEF Span, SpanSet, Sound, InSpan, Within

LEMMA Anything == ASSUME NEW n \in Int PROVE ANY \in SpanSet /\ Sound(ANY, ANY, n)
  BY DEF ANY, SpanSet, Sound, InSpan, Within

LEMMA WithinAny == ASSUME NEW s \in SpanSet PROVE Within(s, ANY)
  BY DEF ANY, Within, SpanSet

(* from_outcome is sound for a truth value, when its flags are.             *)
LEMMA Outcomes ==
  ASSUME NEW t \in BOOLEAN, NEW f \in BOOLEAN, NEW tw \in BOOLEAN, NEW fw \in BOOLEAN, NEW b \in BOOLEAN,
         b => t, ~b => f, t => tw, f => fw
  PROVE  /\ from_outcome(t, f) \in SpanSet /\ from_outcome(tw, fw) \in SpanSet
         /\ Sound(from_outcome(t, f), from_outcome(tw, fw), Bit(b))
  BY DEF from_outcome, Span, SpanSet, Sound, InSpan, Within, Bit

(* What a span says of the truth of its values, and keeps saying when wider. *)
LEMMA Truths ==
  ASSUME NEW s \in SpanSet, NEW w \in SpanSet, NEW v \in Int, Sound(s, w, v)
  PROVE  /\ v # 0 => can_be_true(s)
         /\ v = 0 => can_be_false(s)
         /\ can_be_true(s) => can_be_true(w)
         /\ can_be_false(s) => can_be_false(w)
         /\ InSpan(w, v)
  BY DEF SpanSet, Sound, InSpan, Within, can_be_true, can_be_false, point
-----------------------------------------------------------------------------
(* Every operator keeps values in their spans, and narrower spans narrower. *)

LEMMA NotIsSound ==
  ASSUME NEW s \in SpanSet, NEW w \in SpanSet, NEW v \in Int, Sound(s, w, v)
  PROVE  Not(s) \in SpanSet /\ Not(w) \in SpanSet /\ Sound(Not(s), Not(w), Bit(v = 0))
  <1> DEFINE t == can_be_false(s)  f == can_be_true(s)  tw == can_be_false(w)  fw == can_be_true(w)
  <1>1. t \in BOOLEAN /\ f \in BOOLEAN /\ tw \in BOOLEAN /\ fw \in BOOLEAN
    BY DEF can_be_true, can_be_false, point, SpanSet
  <1>2. (v = 0 => t) /\ (v # 0 => f) /\ (t => tw) /\ (f => fw)
    BY Truths
  <1> HIDE DEF t, f, tw, fw
  <1>3. /\ from_outcome(t, f) \in SpanSet /\ from_outcome(tw, fw) \in SpanSet
        /\ Sound(from_outcome(t, f), from_outcome(tw, fw), Bit(v = 0))
    BY <1>1, <1>2, Outcomes
  <1> QED
    BY <1>3 DEF Not, t, f, tw, fw

LEMMA MinusIsSound ==
  ASSUME NEW s \in SpanSet, NEW w \in SpanSet, NEW v \in Int, Sound(s, w, v)
  PROVE  Minus(s) \in SpanSet /\ Minus(w) \in SpanSet /\ Sound(Minus(s), Minus(w), -v)
  BY DEF SpanSet, Sound, InSpan, Within, Minus

LEMMA LogicIsSound ==
  ASSUME NEW op \in Logic,
         NEW s \in SpanSet, NEW sw \in SpanSet, NEW x \in Int, Sound(s, sw, x),
         NEW t \in SpanSet, NEW tw \in SpanSet, NEW y \in Int, Sound(t, tw, y)
  PROVE  /\ logic(s, op, t) \in SpanSet /\ logic(sw, op, tw) \in SpanSet
         /\ Sound(logic(s, op, t), logic(sw, op, tw), Bit(Holds(x, op, y)))
  <1> DEFINE a == can_be_true(s)   na == can_be_false(s)   aw == can_be_true(sw)  naw == can_be_false(sw)
             b == can_be_true(t)   nb == can_be_false(t)   bw == can_be_true(tw)  nbw == can_be_false(tw)
  <1>1. /\ a \in BOOLEAN /\ na \in BOOLEAN /\ aw \in BOOLEAN /\ naw \in BOOLEAN
        /\ b \in BOOLEAN /\ nb \in BOOLEAN /\ bw \in BOOLEAN /\ nbw \in BOOLEAN
    BY DEF can_be_true, can_be_false, point, SpanSet
  <1>2. (x # 0 => a) /\ (x = 0 => na) /\ (a => aw) /\ (na => naw)
    BY Truths
  <1>3. (y # 0 => b) /\ (y = 0 => nb) /\ (b => bw) /\ (nb => nbw)
    BY Truths
  <1> HIDE DEF a, na, aw, naw, b, nb, bw, nbw
  <1>4. CASE op = "&"
    <2>1. /\ from_outcome(a /\ b, na \/ nb) \in SpanSet /\ from_outcome(aw /\ bw, naw \/ nbw) \in SpanSet
          /\ Sound(from_outcome(a /\ b, na \/ nb), from_outcome(aw /\ bw, naw \/ nbw), Bit(x # 0 /\ y # 0))
      BY <1>1, <1>2, <1>3, Outcomes
    <2> QED
      BY <1>4, <2>1 DEF logic, Holds, a, na, aw, naw, b, nb, bw, nbw
  <1>5. CASE op = "|"
    <2>1. /\ from_outcome(a \/ b, na /\ nb) \in SpanSet /\ from_outcome(aw \/ bw, naw /\ nbw) \in SpanSet
          /\ Sound(from_outcome(a \/ b, na /\ nb), from_outcome(aw \/ bw, naw /\ nbw), Bit(x # 0 \/ y # 0))
      BY <1>1, <1>2, <1>3, Outcomes
    <2> QED
      BY <1>5, <2>1 DEF logic, Holds, a, na, aw, naw, b, nb, bw, nbw
  <1>6. CASE op = "^"
    <2> DEFINE d == (a /\ nb) \/ (na /\ b)  e == (a /\ b) \/ (na /\ nb)
               dw == (aw /\ nbw) \/ (naw /\ bw)  ew == (aw /\ bw) \/ (naw /\ nbw)
    <2>1. /\ from_outcome(d, e) \in SpanSet /\ from_outcome(dw, ew) \in SpanSet
          /\ Sound(from_outcome(d, e), from_outcome(dw, ew), Bit((x # 0) # (y # 0)))
      <3>1. d \in BOOLEAN /\ e \in BOOLEAN /\ dw \in BOOLEAN /\ ew \in BOOLEAN /\ (d => dw) /\ (e => ew)
        BY <1>1, <1>2, <1>3
      <3>2. ((x # 0) # (y # 0)) => d
        BY <1>2, <1>3
      <3>3. ~((x # 0) # (y # 0)) => e
        BY <1>2, <1>3
      <3> HIDE DEF d, e, dw, ew
      <3> QED
        BY <3>1, <3>2, <3>3, Outcomes
    <2> QED
      BY <1>6, <2>1 DEF logic, Holds, a, na, aw, naw, b, nb, bw, nbw
  <1> QED
    BY <1>4, <1>5, <1>6 DEF Logic

LEMMA EqualIsSound ==
  ASSUME NEW s \in SpanSet, NEW sw \in SpanSet, NEW x \in Int, Sound(s, sw, x),
         NEW t \in SpanSet, NEW tw \in SpanSet, NEW y \in Int, Sound(t, tw, y)
  PROVE  /\ equal(s, t) \in SpanSet /\ equal(sw, tw) \in SpanSet
         /\ Sound(equal(s, t), equal(sw, tw), Bit(x = y))
  BY SMTT(60) DEF equal, Sound, InSpan, Within, point, Below, FalseSpan, Either, Span, SpanSet, Bit

LEMMA GreaterIsSound ==
  ASSUME NEW s \in SpanSet, NEW sw \in SpanSet, NEW x \in Int, Sound(s, sw, x),
         NEW t \in SpanSet, NEW tw \in SpanSet, NEW y \in Int, Sound(t, tw, y)
  PROVE  /\ greater(s, t) \in SpanSet /\ greater(sw, tw) \in SpanSet
         /\ Sound(greater(s, t), greater(sw, tw), Bit(x > y))
  BY SMTT(60) DEF greater, Sound, InSpan, Within, AtMost, Below, TrueSpan, FalseSpan, Either, Span, SpanSet, Bit

LEMMA AtLeastIsSound ==
  ASSUME NEW s \in SpanSet, NEW sw \in SpanSet, NEW x \in Int, Sound(s, sw, x),
         NEW t \in SpanSet, NEW tw \in SpanSet, NEW y \in Int, Sound(t, tw, y)
  PROVE  /\ at_least(s, t) \in SpanSet /\ at_least(sw, tw) \in SpanSet
         /\ Sound(at_least(s, t), at_least(sw, tw), Bit(x >= y))
  BY SMTT(60) DEF at_least, Sound, InSpan, Within, AtMost, Below, TrueSpan, FalseSpan, Either, Span, SpanSet, Bit

LEMMA CompareIsSound ==
  ASSUME NEW op \in Comparison,
         NEW s \in SpanSet, NEW sw \in SpanSet, NEW x \in Int, Sound(s, sw, x),
         NEW t \in SpanSet, NEW tw \in SpanSet, NEW y \in Int, Sound(t, tw, y)
  PROVE  /\ compare(s, op, t) \in SpanSet /\ compare(sw, op, tw) \in SpanSet
         /\ Sound(compare(s, op, t), compare(sw, op, tw), Bit(Holds(x, op, y)))
  <1>1. CASE op = "="
    BY <1>1, EqualIsSound DEF compare, Holds
  <1>2. CASE op = "!="
    <2>1. /\ equal(s, t) \in SpanSet /\ equal(sw, tw) \in SpanSet
          /\ Sound(equal(s, t), equal(sw, tw), Bit(x = y))
      BY EqualIsSound
    <2>2. Bit(x = y) \in Int /\ ((Bit(x = y) = 0) <=> (x # y))
      BY DEF Bit
    <2>3. /\ Not(equal(s, t)) \in SpanSet /\ Not(equal(sw, tw)) \in SpanSet
          /\ Sound(Not(equal(s, t)), Not(equal(sw, tw)), Bit(Bit(x = y) = 0))
      BY <2>1, <2>2, NotIsSound
    <2>4. Bit(Bit(x = y) = 0) = Bit(x # y)
      BY <2>2
    <2> QED
      BY <1>2, <2>3, <2>4 DEF compare, Holds
  <1>3. CASE op = "<"
    <2>1. /\ greater(t, s) \in SpanSet /\ greater(tw, sw) \in SpanSet
          /\ Sound(greater(t, s), greater(tw, sw), Bit(y > x))
      BY GreaterIsSound
    <2>2. (y > x) = (x < y)
      OBVIOUS
    <2> QED
      BY <1>3, <2>1, <2>2 DEF compare, Holds
  <1>4. CASE op = "<="
    <2>1. /\ at_least(t, s) \in SpanSet /\ at_least(tw, sw) \in SpanSet
          /\ Sound(at_least(t, s), at_least(tw, sw), Bit(y >= x))
      BY AtLeastIsSound
    <2>2. (y >= x) = (x <= y)
      OBVIOUS
    <2> QED
      BY <1>4, <2>1, <2>2 DEF compare, Holds
  <1>5. CASE op = ">"
    BY <1>5, GreaterIsSound DEF compare, Holds
  <1>6. CASE op = ">="
    BY <1>6, AtLeastIsSound DEF compare, Holds
  <1> QED
    BY <1>1, <1>2, <1>3, <1>4, <1>5, <1>6 DEF Comparison

LEMMA FoldsAreInts == ASSUME NEW op \in Folded, NEW x \in Int, NEW y \in Int
                      PROVE  Fold(x, op, y) \in Int
  BY DEF Folded, Fold

LEMMA ArithmeticIsSound ==
  ASSUME NEW op \in Folded \cup Runtime,
         NEW s \in SpanSet, NEW sw \in SpanSet, NEW x \in Int, Sound(s, sw, x),
         NEW t \in SpanSet, NEW tw \in SpanSet, NEW y \in Int, Sound(t, tw, y),
         NEW v \in Int, op \in Folded => v = Fold(x, op, y)
  PROVE  /\ arithmetic(s, op, t) \in SpanSet /\ arithmetic(sw, op, tw) \in SpanSet
         /\ Sound(arithmetic(s, op, t), arithmetic(sw, op, tw), v)
  <1>1. \A a \in SpanSet, b \in SpanSet : arithmetic(a, op, b) \in SpanSet
    <2> TAKE a \in SpanSet, b \in SpanSet
    <2>1. CASE op \in Folded /\ point(a) /\ point(b)
      <3>1. Fold(a.lo, op, b.lo) \in Int
        BY <2>1, FoldsAreInts DEF SpanSet
      <3> QED
        BY <2>1, <3>1, Points DEF arithmetic
    <2>2. CASE ~(op \in Folded /\ point(a) /\ point(b))
      BY <2>2, Anything DEF arithmetic
    <2> QED
      BY <2>1, <2>2
  <1>2. CASE op \in Folded /\ point(s) /\ point(t)
    <2>1. x = s.lo /\ y = t.lo
      BY <1>2 DEF Sound, InSpan, point, SpanSet
    <2>2. arithmetic(s, op, t) = Span(v, v)
      BY <1>2, <2>1 DEF arithmetic
    <2>3. CASE point(sw) /\ point(tw)
      <3>1. sw.lo = s.lo /\ tw.lo = t.lo
        BY <1>2, <2>3 DEF Sound, Within, point, SpanSet
      <3>2. arithmetic(sw, op, tw) = Span(v, v)
        BY <1>2, <2>3, <2>1, <3>1 DEF arithmetic
      <3> QED
        BY <1>1, <2>2, <3>2, Points
    <2>4. CASE ~(point(sw) /\ point(tw))
      <3>1. arithmetic(sw, op, tw) = ANY
        BY <2>4 DEF arithmetic
      <3>2. Span(v, v) \in SpanSet /\ InSpan(Span(v, v), v)
        BY Points DEF Sound
      <3> QED
        BY <1>1, <2>2, <3>1, <3>2, WithinAny DEF Sound
    <2> QED
      BY <2>3, <2>4
  <1>3. CASE ~(op \in Folded /\ point(s) /\ point(t))
    <2>1. arithmetic(s, op, t) = ANY
      BY <1>3 DEF arithmetic
    <2>2. op \in Folded => ~(point(sw) /\ point(tw))
      BY <1>3 DEF Sound, InSpan, Within, point, SpanSet
    <2>3. arithmetic(sw, op, tw) = ANY
      BY <2>2 DEF arithmetic
    <2> QED
      BY <1>1, <2>1, <2>3, Anything
  <1> QED
    BY <1>2, <1>3

LEMMA BinaryIsSound ==
  ASSUME NEW op \in Logic \cup Comparison \cup Folded \cup Runtime,
         NEW s \in SpanSet, NEW sw \in SpanSet, NEW x \in Int, Sound(s, sw, x),
         NEW t \in SpanSet, NEW tw \in SpanSet, NEW y \in Int, Sound(t, tw, y),
         NEW v \in Results(x, op, y)
  PROVE  /\ binary(s, op, t) \in SpanSet /\ binary(sw, op, tw) \in SpanSet
         /\ v \in Int /\ Sound(binary(s, op, t), binary(sw, op, tw), v)
  <1>1. CASE op \in Logic
    <2>1. op \notin Comparison /\ op \notin Folded
      BY <1>1 DEF Logic, Comparison, Folded
    <2>2. Results(x, op, y) = {Bit(Holds(x, op, y))}
      BY <1>1, <2>1 DEF Results
    <2>3. v = Bit(Holds(x, op, y)) /\ v \in Int
      BY <2>2 DEF Bit
    <2>4. /\ logic(s, op, t) \in SpanSet /\ logic(sw, op, tw) \in SpanSet
          /\ Sound(logic(s, op, t), logic(sw, op, tw), v)
      BY <1>1, <2>3, LogicIsSound
    <2> QED
      BY <1>1, <2>1, <2>3, <2>4 DEF binary
  <1>2. CASE op \in Comparison
    <2>1. op \notin Logic /\ op \notin Folded
      BY <1>2 DEF Logic, Comparison, Folded
    <2>2. Results(x, op, y) = {Bit(Holds(x, op, y))}
      BY <1>2, <2>1 DEF Results
    <2>3. v = Bit(Holds(x, op, y)) /\ v \in Int
      BY <2>2 DEF Bit
    <2>4. /\ compare(s, op, t) \in SpanSet /\ compare(sw, op, tw) \in SpanSet
          /\ Sound(compare(s, op, t), compare(sw, op, tw), v)
      BY <1>2, <2>3, CompareIsSound
    <2> QED
      BY <1>2, <2>1, <2>3, <2>4 DEF binary
  <1>3. CASE op \in Folded \cup Runtime
    <2>1. op \notin Logic /\ op \notin Comparison
      BY <1>3 DEF Logic, Comparison, Folded, Runtime
    <2>2. op \in Folded => v = Fold(x, op, y)
      BY <2>1 DEF Results
    <2>3. v \in Int
      <3>1. CASE op \in Folded
        BY <3>1, <2>2, FoldsAreInts
      <3>2. CASE op \notin Folded
        BY <3>2, <2>1, ConditionAssumption DEF Results
      <3> QED
        BY <3>1, <3>2
    <2> QED
      BY <1>3, <2>1, <2>2, <2>3, ArithmeticIsSound DEF binary
  <1> QED
    BY <1>1, <1>2, <1>3
-----------------------------------------------------------------------------
(* The atoms: what is known of a build holds of a build that is as its    *)
(* decode tells, and knowing nothing only widens it.                      *)

LEMMA RankSpans ==
  ASSUME NEW r \in Nat
  PROVE  /\ Span(r, r) \in SpanSet /\ AtLeast(0) \in SpanSet /\ AtLeast(1) \in SpanSet
         /\ Sound(Span(r, r), AtLeast(0), r) /\ Sound(AtLeast(0), AtLeast(0), r)
         /\ r >= 1 => Sound(AtLeast(1), AtLeast(0), r)
  BY DEF AtLeast, Span, SpanSet, Sound, InSpan, Within

LEMMA RankIsSound ==
  ASSUME NEW c \in Context, NEW f \in Fight, Faithful(c, f), NEW name \in Talent
  PROVE  /\ talent_rank(name, c) \in SpanSet /\ talent_rank(name, without_talents(c)) \in SpanSet
         /\ Sound(talent_rank(name, c), talent_rank(name, without_talents(c)), f.rank[name])
  <1> DEFINE r == f.rank[name]
  <1>a. {0} \cup Rank \subseteq Nat
    BY ConditionAssumption
  <1>b. c.rank \in [Talent -> {0} \cup Rank] /\ c.known = TRUE
    BY DEF Context
  <1>c. f.rank \in [Talent -> {0} \cup Rank]
    BY DEF Fight
  <1>1. r \in Nat /\ c.rank[name] \in Nat /\ c.known = TRUE
    BY <1>a, <1>b, <1>c
  <1>2. talent_rank(name, without_talents(c)) = AtLeast(0)
    BY DEF talent_rank, without_talents, Context
  <1>4. CASE name \in c.disabled
    <2>1. r = 0
      BY <1>4 DEF Faithful
    <2>2. talent_rank(name, c) = FalseSpan
      BY <1>1, <1>4 DEF talent_rank
    <2> QED
      BY <2>1, <2>2, <1>1, <1>2, RankSpans DEF FalseSpan
  <1>5. CASE name \in c.enabled \ c.disabled /\ c.rank[name] # 0
    <2>1. r = c.rank[name]
      BY <1>5 DEF Faithful
    <2>2. talent_rank(name, c) = Span(r, r)
      BY <1>1, <1>5, <2>1 DEF talent_rank
    <2> QED
      BY <1>1, <2>2, <1>2, RankSpans
  <1>6. CASE name \in c.enabled \ c.disabled /\ c.rank[name] = 0
    <2>1. r \in Rank
      BY <1>6 DEF Faithful
    <2>2. r >= 1
      BY <2>1, <1>1, ConditionAssumption
    <2>3. talent_rank(name, c) = AtLeast(1)
      BY <1>1, <1>6 DEF talent_rank
    <2> QED
      BY <1>1, <2>2, <2>3, <1>2, RankSpans
  <1>7. CASE name \notin c.disabled /\ name \notin c.enabled
    <2>1. talent_rank(name, c) = IF Base[name] \in c.enabled THEN AtLeast(0) ELSE FalseSpan
      BY <1>1, <1>7 DEF talent_rank
    <2>2. Base[name] \notin c.enabled => r = 0
      BY <1>7 DEF Faithful
    <2> QED
      BY <1>1, <2>1, <2>2, <1>2, RankSpans DEF FalseSpan
  <1> QED
    BY <1>4, <1>5, <1>6, <1>7

LEMMA TalentIsSound ==
  ASSUME context \in Context, fight \in Fight, Faithful(context, fight),
         NEW name \in Talent, NEW suffix \in Suffix
  PROVE  /\ talent_atom(name, suffix, context) \in SpanSet
         /\ talent_atom(name, suffix, without_talents(context)) \in SpanSet
         /\ TalentValue(name, suffix) \in Int
         /\ Sound(talent_atom(name, suffix, context), talent_atom(name, suffix, without_talents(context)),
                  TalentValue(name, suffix))
  <1> DEFINE s == talent_rank(name, context)  w == talent_rank(name, without_talents(context))
             r == fight.rank[name]
             e == from_outcome(can_be_true(s), can_be_false(s))
             ew == from_outcome(can_be_true(w), can_be_false(w))
  <1>1. s \in SpanSet /\ w \in SpanSet /\ Sound(s, w, r)
    BY RankIsSound
  <1>a. {0} \cup Rank \subseteq Int /\ fight.rank \in [Talent -> {0} \cup Rank]
    BY ConditionAssumption DEF Fight
  <1>2. r \in Int
    BY <1>a
  <1>3. Bit(r # 0) \in Int /\ Bit(r = 0) \in Int /\ Bit(Bit(r # 0) = 0) = Bit(r = 0)
    BY DEF Bit
  <1>4. CASE suffix = "rank"
    BY <1>1, <1>2, <1>4 DEF talent_atom, TalentValue
  <1>5. e \in SpanSet /\ ew \in SpanSet /\ Sound(e, ew, Bit(r # 0))
    <2> DEFINE a == can_be_true(s)  b == can_be_false(s)  aw == can_be_true(w)  bw == can_be_false(w)
    <2>1. a \in BOOLEAN /\ b \in BOOLEAN /\ aw \in BOOLEAN /\ bw \in BOOLEAN
      BY <1>1 DEF can_be_true, can_be_false, point, SpanSet
    <2>2. (r # 0 => a) /\ (r = 0 => b) /\ (a => aw) /\ (b => bw)
      BY <1>1, <1>2, Truths
    <2> HIDE DEF a, b, aw, bw
    <2>3. /\ from_outcome(a, b) \in SpanSet /\ from_outcome(aw, bw) \in SpanSet
          /\ Sound(from_outcome(a, b), from_outcome(aw, bw), Bit(r # 0))
      BY <2>1, <2>2, Outcomes
    <2> QED
      BY <2>3 DEF a, b, aw, bw
  <1>6. CASE suffix = "enabled"
    BY <1>3, <1>5, <1>6 DEF talent_atom, TalentValue
  <1>7. CASE suffix = "disabled"
    <2>1. /\ Not(e) \in SpanSet /\ Not(ew) \in SpanSet /\ Sound(Not(e), Not(ew), Bit(r = 0))
      BY <1>3, <1>5, NotIsSound
    <2> QED
      BY <1>3, <1>7, <2>1 DEF talent_atom, TalentValue
  <1> QED
    BY <1>4, <1>6, <1>7 DEF Suffix

LEMMA HeroIsSound ==
  ASSUME context \in Context, NEW mine \in BOOLEAN
  PROVE  /\ hero_tree_atom(mine, context) \in SpanSet /\ Bit(mine) \in Int
         /\ hero_tree_atom(mine, without_talents(context)) \in SpanSet
         /\ Sound(hero_tree_atom(mine, context), hero_tree_atom(mine, without_talents(context)), Bit(mine))
  <1>1. Bit(mine) \in Int
    BY DEF Bit
  <1>2. hero_tree_atom(mine, without_talents(context)) = ANY
    BY DEF hero_tree_atom, without_talents, Context
  <1>3. hero_tree_atom(mine, context) \in {ANY, Span(Bit(mine), Bit(mine))}
    BY DEF hero_tree_atom
  <1>4. ANY \in SpanSet /\ Sound(ANY, ANY, Bit(mine))
    BY <1>1, Anything
  <1>5. Span(Bit(mine), Bit(mine)) \in SpanSet /\ InSpan(Span(Bit(mine), Bit(mine)), Bit(mine))
    BY <1>1, Points DEF Sound
  <1>6. Within(Span(Bit(mine), Bit(mine)), ANY)
    BY <1>5, WithinAny
  <1> QED
    BY <1>1, <1>2, <1>3, <1>4, <1>5, <1>6 DEF Sound
-----------------------------------------------------------------------------
(* The inductive invariant: what the build is stays as its decode tells,  *)
(* every operand is sound, and so is the verdict.                         *)

Known == Faithful(context, fight) /\ fight.targets = context.targets
Inv == TypeOK /\ Known /\ SpansHold /\ VerdictsHold

LEMMA InitInv == ConditionInit => Inv
  BY DEF ConditionInit, Inv, TypeOK, Known, SpansHold, VerdictsHold, NoVerdict

(* Operands are kept sound by reading another, and by what takes some away. *)
LEMMA Pushed ==
  ASSUME NEW rest \in Seq(OperandSet), NEW x \in OperandSet, Sound(x.build, x.blind, x.value),
         \A i \in DOMAIN rest : Sound(rest[i].build, rest[i].blind, rest[i].value)
  PROVE  /\ Append(rest, x) \in Seq(OperandSet)
         /\ \A i \in DOMAIN Append(rest, x) :
              Sound(Append(rest, x)[i].build, Append(rest, x)[i].blind, Append(rest, x)[i].value)
  <1>1. /\ Append(rest, x) \in Seq(OperandSet) /\ Len(Append(rest, x)) = Len(rest) + 1
        /\ \A i \in 1..Len(rest) : Append(rest, x)[i] = rest[i]
        /\ Append(rest, x)[Len(rest) + 1] = x
    OBVIOUS
  <1>2. DOMAIN rest = 1..Len(rest) /\ DOMAIN Append(rest, x) = 1..(Len(rest) + 1) /\ Len(rest) \in Nat
    BY <1>1
  <1>3. ASSUME NEW i \in DOMAIN Append(rest, x)
        PROVE  Sound(Append(rest, x)[i].build, Append(rest, x)[i].blind, Append(rest, x)[i].value)
    <2>1. CASE i = Len(rest) + 1
      BY <1>1, <2>1
    <2>2. CASE i # Len(rest) + 1
      <3>1. i \in 1..Len(rest)
        BY <1>2, <2>2
      <3> QED
        BY <1>1, <1>2, <3>1
    <2> QED
      BY <2>1, <2>2
  <1> QED
    BY <1>1, <1>3

LEMMA Popped ==
  ASSUME NEW all \in Seq(OperandSet), NEW n \in Nat, n <= Len(all),
         \A i \in DOMAIN all : Sound(all[i].build, all[i].blind, all[i].value)
  PROVE  /\ SubSeq(all, 1, n) \in Seq(OperandSet)
         /\ \A i \in DOMAIN SubSeq(all, 1, n) :
              Sound(SubSeq(all, 1, n)[i].build, SubSeq(all, 1, n)[i].blind, SubSeq(all, 1, n)[i].value)
  <1>1. /\ SubSeq(all, 1, n) \in Seq(OperandSet) /\ Len(SubSeq(all, 1, n)) = n
        /\ \A i \in 1..n : SubSeq(all, 1, n)[i] = all[i]
    OBVIOUS
  <1>2. DOMAIN all = 1..Len(all) /\ DOMAIN SubSeq(all, 1, n) = 1..n
    BY <1>1
  <1> QED
    BY <1>1, <1>2
LEMMA StaysKnown ==
  ASSUME Inv, UNCHANGED <<context, fight, verdict>>, operands' \in Seq(OperandSet),
         \A i \in DOMAIN operands' : Sound(operands'[i].build, operands'[i].blind, operands'[i].value)
  PROVE  Inv'
  <1>1. TypeOK'
    BY DEF Inv, TypeOK
  <1>2. Known'
    BY DEF Inv, Known, Faithful
  <1>3. SpansHold'
    BY DEF SpansHold, Sound
  <1>4. VerdictsHold'
    BY DEF Inv, VerdictsHold
  <1> QED
    BY <1>1, <1>2, <1>3, <1>4 DEF Inv

LEMMA ReadsInv ==
  ASSUME Inv, NEW s \in SpanSet, NEW w \in SpanSet, NEW v \in Int, Sound(s, w, v), Reads(s, w, v)
  PROVE  Inv'
  <1> DEFINE x == Operand(s, w, v)
  <1>1. x \in OperandSet /\ x.build = s /\ x.blind = w /\ x.value = v
    BY DEF Operand, OperandSet
  <1>2. operands \in Seq(OperandSet)
    BY DEF Inv, TypeOK
  <1>3. \A i \in DOMAIN operands : Sound(operands[i].build, operands[i].blind, operands[i].value)
    BY DEF Inv, SpansHold, Sound
  <1>4. operands' = Append(operands, x) /\ UNCHANGED <<context, fight, verdict>>
    BY DEF Reads
  <1> HIDE DEF x
  <1>5. /\ Append(operands, x) \in Seq(OperandSet)
        /\ \A i \in DOMAIN Append(operands, x) :
             Sound(Append(operands, x)[i].build, Append(operands, x)[i].blind, Append(operands, x)[i].value)
    BY <1>1, <1>2, <1>3, Pushed
  <1> QED
    BY <1>4, <1>5, StaysKnown

LEMMA UnaryInv ==
  ASSUME Inv, NEW op \in {"!", "-", "@"}, NEW n \in Number, Unary(op, n)
  PROVE  Inv'
  <1> DEFINE x == operands[Len(operands)]
             rest == SubSeq(operands, 1, Len(operands) - 1)
             y == CASE op = "!" -> Operand(Not(x.build), Not(x.blind), Bit(x.value = 0))
                    [] op = "-" -> Operand(Minus(x.build), Minus(x.blind), -x.value)
                    [] OTHER    -> Operand(ANY, ANY, n)
  <1>1. operands \in Seq(OperandSet) /\ operands # <<>>
    BY DEF Inv, TypeOK, Unary
  <1>2. \A i \in DOMAIN operands : Sound(operands[i].build, operands[i].blind, operands[i].value)
    BY DEF Inv, SpansHold, Sound
  <1>3. Len(operands) \in DOMAIN operands /\ Len(operands) - 1 \in Nat
    BY <1>1
  <1>4. x \in OperandSet /\ Sound(x.build, x.blind, x.value)
    BY <1>1, <1>2, <1>3
  <1>5. /\ rest \in Seq(OperandSet)
        /\ \A i \in DOMAIN rest : Sound(rest[i].build, rest[i].blind, rest[i].value)
    BY <1>1, <1>2, <1>3, Popped
  <1>6. operands' = Append(rest, y) /\ UNCHANGED <<context, fight, verdict>>
    BY DEF Unary
  <1>7. x.build \in SpanSet /\ x.blind \in SpanSet /\ x.value \in Int /\ n \in Int
    BY <1>4, ConditionAssumption DEF OperandSet
  <1>8. y \in OperandSet /\ Sound(y.build, y.blind, y.value)
    <2> HIDE DEF x
    <2>1. CASE op = "!"
      <3>1. /\ Not(x.build) \in SpanSet /\ Not(x.blind) \in SpanSet
            /\ Sound(Not(x.build), Not(x.blind), Bit(x.value = 0))
        BY <1>4, <1>7, NotIsSound
      <3>2. Bit(x.value = 0) \in Int
        BY DEF Bit
      <3>3. y = Operand(Not(x.build), Not(x.blind), Bit(x.value = 0))
        BY <2>1
      <3> QED
        BY <3>1, <3>2, <3>3 DEF Operand, OperandSet
    <2>2. CASE op = "-"
      <3>1. /\ Minus(x.build) \in SpanSet /\ Minus(x.blind) \in SpanSet
            /\ Sound(Minus(x.build), Minus(x.blind), -x.value)
        BY <1>4, <1>7, MinusIsSound
      <3>2. y = Operand(Minus(x.build), Minus(x.blind), -x.value)
        BY <2>2
      <3> QED
        BY <1>7, <3>1, <3>2 DEF Operand, OperandSet
    <2>3. CASE op = "@"
      <3>1. y = Operand(ANY, ANY, n)
        BY <2>3
      <3> QED
        BY <1>7, <3>1, Anything DEF Operand, OperandSet
    <2> QED
      BY <2>1, <2>2, <2>3
  <1> HIDE DEF x, rest, y
  <1>9. /\ Append(rest, y) \in Seq(OperandSet)
        /\ \A i \in DOMAIN Append(rest, y) :
             Sound(Append(rest, y)[i].build, Append(rest, y)[i].blind, Append(rest, y)[i].value)
    BY <1>5, <1>8, Pushed
  <1> QED
    BY <1>6, <1>9, StaysKnown

LEMMA BinaryInv ==
  ASSUME Inv, NEW op \in Logic \cup Comparison \cup Folded \cup Runtime, Binary(op)
  PROVE  Inv'
  <1> DEFINE x == operands[Len(operands) - 1]
             y == operands[Len(operands)]
             rest == SubSeq(operands, 1, Len(operands) - 2)
  <1>1. operands \in Seq(OperandSet) /\ Len(operands) >= 2
    BY DEF Inv, TypeOK, Binary
  <1>2. \A i \in DOMAIN operands : Sound(operands[i].build, operands[i].blind, operands[i].value)
    BY DEF Inv, SpansHold, Sound
  <1>3. Len(operands) \in DOMAIN operands /\ Len(operands) - 1 \in DOMAIN operands /\ Len(operands) - 2 \in Nat
    BY <1>1
  <1>4. /\ x \in OperandSet /\ Sound(x.build, x.blind, x.value)
        /\ y \in OperandSet /\ Sound(y.build, y.blind, y.value)
    BY <1>1, <1>2, <1>3
  <1>5. /\ rest \in Seq(OperandSet)
        /\ \A i \in DOMAIN rest : Sound(rest[i].build, rest[i].blind, rest[i].value)
    BY <1>1, <1>2, <1>3, Popped
  <1>6. UNCHANGED <<context, fight, verdict>>
    BY DEF Binary
  <1>7. PICK v \in Results(x.value, op, y.value) :
          operands' = Append(rest, Operand(binary(x.build, op, y.build), binary(x.blind, op, y.blind), v))
    BY DEF Binary
  <1> DEFINE z == Operand(binary(x.build, op, y.build), binary(x.blind, op, y.blind), v)
  <1>8. /\ x.build \in SpanSet /\ x.blind \in SpanSet /\ x.value \in Int
        /\ y.build \in SpanSet /\ y.blind \in SpanSet /\ y.value \in Int
    BY <1>4 DEF OperandSet
  <1> HIDE DEF x, y, rest
  <1>9. /\ binary(x.build, op, y.build) \in SpanSet /\ binary(x.blind, op, y.blind) \in SpanSet
        /\ v \in Int /\ Sound(binary(x.build, op, y.build), binary(x.blind, op, y.blind), v)
    BY <1>4, <1>8, BinaryIsSound
  <1>10. z \in OperandSet /\ Sound(z.build, z.blind, z.value)
    BY <1>9 DEF Operand, OperandSet
  <1>11. operands' = Append(rest, z)
    BY <1>7
  <1> HIDE DEF z
  <1>12. /\ Append(rest, z) \in Seq(OperandSet)
         /\ \A i \in DOMAIN Append(rest, z) :
              Sound(Append(rest, z)[i].build, Append(rest, z)[i].blind, Append(rest, z)[i].value)
    BY <1>5, <1>10, Pushed
  <1> QED
    BY <1>6, <1>11, <1>12, StaysKnown

(* A verdict is what the span of the one operand left proves.               *)
LEMMA VerdictInv == ASSUME Inv, evaluate_condition_outcome PROVE Inv'
  <1> DEFINE x == operands[1]
  <1>1. x \in OperandSet /\ Sound(x.build, x.blind, x.value)
    <2>1. operands \in Seq(OperandSet) /\ Len(operands) = 1
      BY DEF Inv, TypeOK, evaluate_condition_outcome
    <2>2. 1 \in DOMAIN operands /\ operands[1] \in OperandSet
      BY <2>1
    <2>3. \A i \in DOMAIN operands : Sound(operands[i].build, operands[i].blind, operands[i].value)
      BY DEF Inv, SpansHold, Sound
    <2> QED
      BY <2>2, <2>3
  <1>2. x.build \in SpanSet /\ x.blind \in SpanSet /\ x.value \in Int
    BY <1>1 DEF OperandSet
  <1>3. verdict' = [build |-> outcome(x.build), blind |-> outcome(x.blind), value |-> x.value]
    BY DEF evaluate_condition_outcome
  <1>4. UNCHANGED <<context, fight, operands>>
    BY DEF evaluate_condition_outcome
  <1> HIDE DEF x
  <1>5. /\ x.value # 0 => can_be_true(x.build)
        /\ x.value = 0 => can_be_false(x.build)
        /\ can_be_true(x.build) => can_be_true(x.blind)
        /\ can_be_false(x.build) => can_be_false(x.blind)
        /\ InSpan(x.blind, x.value)
    BY <1>1, <1>2, Truths
  <1>6. \A s \in SpanSet : /\ outcome(s) \in {"eligible", "dead", "unknown"}
                           /\ outcome(s) = "dead" <=> can_be_false(s) /\ ~can_be_true(s)
                           /\ outcome(s) = "eligible" <=> can_be_true(s) /\ ~can_be_false(s)
    BY DEF outcome
  <1>7. TypeOK'
    BY <1>2, <1>3, <1>4, <1>6 DEF Inv, TypeOK
  <1>8. VerdictsHold'
    <2>1. can_be_true(x.build) \/ can_be_false(x.build)
      BY <1>2, <1>5
    <2> QED
      BY <1>2, <1>3, <1>5, <1>6, <2>1 DEF VerdictsHold
  <1> QED
    BY <1>4, <1>7, <1>8 DEF Inv, Known, Faithful, SpansHold

LEMMA GiveUpInv == ASSUME Inv, GiveUp PROVE Inv'
  <1>1. PICK n \in {0, 1} : verdict' = [build |-> "unknown", blind |-> "unknown", value |-> n]
    BY DEF GiveUp
  <1>2. UNCHANGED <<context, fight, operands>>
    BY DEF GiveUp
  <1>3. TypeOK'
    BY <1>1, <1>2 DEF Inv, TypeOK
  <1>4. VerdictsHold'
    BY <1>1 DEF VerdictsHold
  <1> QED
    BY <1>2, <1>3, <1>4 DEF Inv, Known, Faithful, SpansHold

LEMMA StepInv == ASSUME Inv, [ConditionNext]_conditions PROVE Inv'
  <1>0. context \in Context /\ fight \in Fight /\ Faithful(context, fight) /\ fight.targets = context.targets
    BY DEF Inv, TypeOK, Known
  <1>1. ASSUME NEW n \in Number, ReadNumber(n) PROVE Inv'
    <2>1. n \in Int
      BY ConditionAssumption
    <2> QED
      BY <1>1, <2>1, Points, ReadsInv DEF ReadNumber
  <1>2. ASSUME NEW n \in Number, ReadRuntime(n) PROVE Inv'
    <2>1. n \in Int
      BY ConditionAssumption
    <2> QED
      BY <1>2, <2>1, Anything, ReadsInv DEF ReadRuntime
  <1>3. CASE ReadTargets
    <2>a. context \in Context
      BY <1>0
    <2>1. context.targets \in Targets /\ fight.targets = context.targets
      BY <1>0, <2>a DEF Context
    <2>2. Targets \subseteq Int
      BY ConditionAssumption
    <2> QED
      BY <1>3, <2>1, <2>2, Points, ReadsInv DEF ReadTargets
  <1>4. ASSUME NEW mine \in BOOLEAN, ReadHero(mine) PROVE Inv'
    BY <1>0, <1>4, HeroIsSound, ReadsInv DEF ReadHero
  <1>5. ASSUME NEW name \in Talent, NEW suffix \in Suffix, ReadTalent(name, suffix) PROVE Inv'
    BY <1>0, <1>5, TalentIsSound, ReadsInv DEF ReadTalent
  <1>6. CASE UNCHANGED conditions
    BY <1>6 DEF conditions, Inv, TypeOK, Known, Faithful, SpansHold, VerdictsHold
  <1> QED
    BY <1>1, <1>2, <1>3, <1>4, <1>5, <1>6, UnaryInv, BinaryInv, GiveUpInv, VerdictInv DEF ConditionNext

-----------------------------------------------------------------------------

(* Every operand the parser has read holds the value it stands for, whatever *)
(* the condition (prune.py, ConditionParser).                                *)
THEOREM SpansAreSound == ConditionSpec => []SpansHold
  <1>1. ConditionInit => Inv
    BY InitInv
  <1>2. Inv /\ [ConditionNext]_conditions => Inv'
    BY StepInv
  <1>3. Inv => SpansHold
    BY DEF Inv
  <1> QED
    BY <1>1, <1>2, <1>3, PTL DEF ConditionSpec

(* No row is called dead that may run, nor eligible that may not, nor gated *)
(* by talents that is not, for any condition and any build (prune.py,       *)
(* evaluate_condition_outcome and prune_entries).                           *)
THEOREM VerdictsAreSound == ConditionSpec => []VerdictsHold
  <1>1. ConditionInit => Inv
    BY InitInv
  <1>2. Inv /\ [ConditionNext]_conditions => Inv'
    BY StepInv
  <1>3. Inv => VerdictsHold
    BY DEF Inv
  <1> QED
    BY <1>1, <1>2, <1>3, PTL DEF ConditionSpec

(* Builds, operands and verdicts stay what the parser makes of them.        *)
THEOREM ConditionTypes == ConditionSpec => []TypeOK
  <1>1. ConditionInit => Inv
    BY InitInv
  <1>2. Inv /\ [ConditionNext]_conditions => Inv'
    BY StepInv
  <1>3. Inv => TypeOK
    BY DEF Inv
  <1> QED
    BY <1>1, <1>2, <1>3, PTL DEF ConditionSpec
=============================================================================
