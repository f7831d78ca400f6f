--------------------------- MODULE SamplingProofs ---------------------------
(***************************************************************************)
(* Theorems about PullClusters, for any windows, guilds, rosters and       *)
(* tolerances and any number of fights, and about the lookups of RaiderIo  *)
(* and its samples, for any characters, guilds, queries, boards and asks.  *)
(***************************************************************************)
EXTENDS PullClusters, RaiderIo, FiniteSetTheorems, SequenceTheorems, WellFoundedInduction, NaturalsInduction, TLAPS

-----------------------------------------------------------------------------
(* Pulls.                                                                   *)

(* The first of a set of positions is one of them.                          *)
LEMMA FirstIsMember ==
  ASSUME NEW S \in SUBSET Nat, S # {}
  PROVE  FirstOf(S) \in S
<1>1. PICK x \in S : \A y \in S : <<y, x>> \notin OpToRel(<, Nat)
  BY NatLessThanWellFounded, WFMin
<1>2. \A y \in S : ~(y < x)
  BY <1>1, Zenon DEF OpToRel
<1>3. \E i \in S : \A j \in S : i <= j
  BY <1>2
<1>4. QED BY <1>3 DEF FirstOf

LEMMA AppendFacts ==
  ASSUME NEW S, NEW s \in Seq(S), NEW e \in S
  PROVE  /\ Append(s, e) \in Seq(S)
         /\ Len(Append(s, e)) = Len(s) + 1
         /\ DOMAIN Append(s, e) = 1..(Len(s) + 1)
         /\ \A i \in 1..Len(s) : Append(s, e)[i] = s[i]
         /\ Append(s, e)[Len(s) + 1] = e
OBVIOUS

(* What taking the fight f into the pull p, citing c, comes to.             *)
Joins(f, p, c) ==
  /\ timed' = Append(timed, f)
  /\ pullOf' = Append(pullOf, p)
  /\ possible' = Append(possible, c)
  /\ \/ p \in Pulls /\ c = 0
     \/ p = Len(timed) + 1 /\ c \in Pulls \cup {0}

LEMMA PullsFacts == TypeOK => Pulls \in SUBSET Nat /\ Pulls \subseteq 1..Len(timed)
BY DEF TypeOK, Pulls

LEMMA MembersFacts ==
  ASSUME TypeOK, NEW p
  PROVE  Members(p) \in SUBSET Nat /\ Known(p) \in SUBSET Nat /\ Members(p) \subseteq 1..Len(timed)
BY DEF TypeOK, Members, Known

LEMMA TypedFacts ==
  ASSUME TypeOK
  PROVE  /\ timed \in Seq(Fight) /\ pullOf \in Seq(Nat) /\ possible \in Seq(Nat)
         /\ Len(pullOf) = Len(timed) /\ Len(possible) = Len(timed)
         /\ Len(timed) \in Nat /\ DOMAIN timed = 1..Len(timed)
         /\ \A i \in 1..Len(timed) : pullOf[i] \in 1..i
<1>1. /\ timed \in Seq(Fight) /\ pullOf \in Seq(Nat) /\ possible \in Seq(Nat)
      /\ Len(pullOf) = Len(timed) /\ Len(possible) = Len(timed)
  BY DEF TypeOK
<1>2. Len(timed) \in Nat /\ DOMAIN timed = 1..Len(timed)
  BY <1>1, LenProperties
<1>3. \A i \in DOMAIN timed : pullOf[i] \in 1..i
  BY DEF TypeOK
<1>4. QED BY <1>1, <1>2, <1>3

(* What the guards of the two folds say of the pull they choose.            *)
FitsPull(f, p) ==
  /\ p \in Pulls /\ RosterMatch(p, f) # "differs"
  /\ \/ RosterMatch(p, f) = "same" /\ Within(p, f, Loose)
     \/ Within(p, f, Tight) /\ f.guild # NoGuild /\ timed[p].guild = f.guild

LEMMA StepFits ==
  ASSUME TypeOK, NEW f \in Fight,
         FoldByGuild(f) \/ FoldByRoster(f) \/ KeepApart(f)
  PROVE  \E p, c \in Nat : Joins(f, p, c) /\ (p = Len(timed) + 1 \/ FitsPull(f, p))
<1>1. CASE FoldByGuild(f)
  <2> DEFINE p == FirstOf(ByGuild(f))
  <2>1. p \in ByGuild(f) /\ p \in Nat
    BY <1>1, PullsFacts, FirstIsMember DEF FoldByGuild, ByGuild, Near
  <2>2. Joins(f, p, 0)
    BY <1>1, <2>1 DEF FoldByGuild, Fold, Joins, ByGuild, Near
  <2> HIDE DEF p
  <2>3. FitsPull(f, p)
    BY <2>1 DEF FitsPull, ByGuild, Near
  <2>4. QED BY <2>1, <2>2, <2>3
<1>2. CASE FoldByRoster(f)
  <2> DEFINE p == FirstOf(ByRoster(f))
  <2>1. p \in ByRoster(f) /\ p \in Nat
    BY <1>2, PullsFacts, FirstIsMember DEF FoldByRoster, ByRoster, Near
  <2>2. Joins(f, p, 0)
    BY <1>2, <2>1 DEF FoldByRoster, Fold, Joins, ByRoster, Near
  <2> HIDE DEF p
  <2>3. FitsPull(f, p)
    BY <2>1 DEF FitsPull, ByRoster, Near
  <2>4. QED BY <2>1, <2>2, <2>3
<1>3. CASE KeepApart(f)
  <2> DEFINE c == IF Confusable(f) = {} THEN 0 ELSE FirstOf(Confusable(f))
  <2>1. c \in Pulls \cup {0}
    <3>1. Confusable(f) \subseteq Pulls
      BY DEF Confusable, Near
    <3>2. QED BY <3>1, PullsFacts, FirstIsMember
  <2>2. Joins(f, Len(timed) + 1, c)
    BY <1>3, <2>1 DEF KeepApart, Joins
  <2>3. Len(timed) + 1 \in Nat /\ c \in Nat
    BY <2>1, PullsFacts, TypedFacts
  <2> HIDE DEF c
  <2>4. QED BY <2>2, <2>3
<1>4. QED BY <1>1, <1>2, <1>3

(* A fight that joins changes nothing of those before it.                   *)
Extended(f, p, c) ==
  /\ \A i \in 1..Len(timed) : /\ timed'[i] = timed[i] /\ pullOf'[i] = pullOf[i]
                              /\ possible'[i] = possible[i]
  /\ timed'[Len(timed) + 1] = f /\ pullOf'[Len(timed) + 1] = p
  /\ possible'[Len(timed) + 1] = c
  /\ DOMAIN timed' = 1..(Len(timed) + 1)

LEMMA JoinsFacts ==
  ASSUME TypeOK, NEW f \in Fight, NEW p \in Nat, NEW c \in Nat, Joins(f, p, c)
  PROVE  /\ timed' \in Seq(Fight) /\ pullOf' \in Seq(Nat) /\ possible' \in Seq(Nat)
         /\ Len(timed') = Len(timed) + 1 /\ Len(pullOf') = Len(timed) + 1
         /\ Len(possible') = Len(timed) + 1
         /\ Extended(f, p, c)
<1>1. /\ timed' = Append(timed, f) /\ pullOf' = Append(pullOf, p)
      /\ possible' = Append(possible, c)
  BY DEF Joins
<1>2. /\ timed' \in Seq(Fight) /\ Len(timed') = Len(timed) + 1
      /\ DOMAIN timed' = 1..(Len(timed) + 1) /\ timed'[Len(timed) + 1] = f
      /\ \A i \in 1..Len(timed) : timed'[i] = timed[i]
  BY <1>1, TypedFacts, AppendFacts
<1>3. /\ pullOf' \in Seq(Nat) /\ Len(pullOf') = Len(timed) + 1
      /\ pullOf'[Len(timed) + 1] = p
      /\ \A i \in 1..Len(timed) : pullOf'[i] = pullOf[i]
  BY <1>1, TypedFacts, AppendFacts
<1>4. /\ possible' \in Seq(Nat) /\ Len(possible') = Len(timed) + 1
      /\ possible'[Len(timed) + 1] = c
      /\ \A i \in 1..Len(timed) : possible'[i] = possible[i]
  BY <1>1, TypedFacts, AppendFacts
<1>5. QED BY <1>2, <1>3, <1>4 DEF Extended

LEMMA InitTyped == Init => TypeOK
BY DEF Init, TypeOK

LEMMA NextTyped == TypeOK /\ [Next]_vars => TypeOK'
<1> SUFFICES ASSUME TypeOK, [Next]_vars PROVE TypeOK'
  OBVIOUS
<1>1. CASE UNCHANGED vars
  BY <1>1 DEF vars, TypeOK, Pulls
<1>2. ASSUME NEW f \in Fight, NEW p \in Nat, NEW c \in Nat, Joins(f, p, c)
      PROVE  TypeOK'
  <2> DEFINE n == Len(timed)
  <2>1. Extended(f, p, c) /\ n \in Nat
    BY <1>2, JoinsFacts, TypedFacts
  <2>2. Pulls \subseteq Pulls'
    <3>1. SUFFICES ASSUME NEW i \in Pulls PROVE i \in Pulls'
      OBVIOUS
    <3>2. i \in 1..n /\ pullOf[i] = i
      BY PullsFacts DEF Pulls
    <3>3. i \in DOMAIN timed' /\ pullOf'[i] = i
      BY <2>1, <3>2 DEF Extended
    <3>4. QED BY <3>3 DEF Pulls
  <2>3. p \in Pulls' /\ p \in 1..(n + 1)
    <3>1. CASE p \in Pulls
      BY <3>1, <2>1, <2>2, PullsFacts
    <3>2. CASE p = n + 1
      <4>1. p \in DOMAIN timed' /\ pullOf'[p] = p
        BY <3>2, <2>1 DEF Extended
      <4>2. QED BY <2>1, <3>2, <4>1 DEF Pulls
    <3>3. QED BY <1>2, <3>1, <3>2 DEF Joins
  <2>4. c # 0 => p = n + 1 /\ c \in Pulls /\ c \in 1..n
    BY <1>2, PullsFacts DEF Joins
  <2>5. ASSUME NEW i \in 1..(n + 1)
        PROVE  /\ pullOf'[i] \in 1..i /\ pullOf'[i] \in Pulls'
               /\ possible'[i] # 0 => pullOf'[i] = i /\ possible'[i] \in Pulls' /\ possible'[i] < i
    <3>1. CASE i = n + 1
      BY <3>1, <2>1, <2>2, <2>3, <2>4 DEF Extended
    <3>2. CASE i \in 1..n
      <4>1. /\ pullOf[i] \in 1..i /\ pullOf[i] \in Pulls
            /\ possible[i] # 0 => pullOf[i] = i /\ possible[i] \in Pulls /\ possible[i] < i
        BY <3>2, TypedFacts DEF TypeOK
      <4>2. pullOf'[i] = pullOf[i] /\ possible'[i] = possible[i]
        BY <3>2, <2>1 DEF Extended
      <4>3. QED BY <4>1, <4>2, <2>2
    <3>3. QED BY <3>1, <3>2, <2>1
  <2>6. /\ timed' \in Seq(Fight) /\ pullOf' \in Seq(Nat) /\ possible' \in Seq(Nat)
        /\ Len(pullOf') = Len(timed') /\ Len(possible') = Len(timed')
        /\ DOMAIN timed' = 1..(n + 1)
    BY <1>2, <2>1, JoinsFacts DEF Extended
  <2> HIDE DEF n
  <2>7. QED BY <2>5, <2>6 DEF TypeOK
<1>3. QED BY <1>1, <1>2, StepFits DEF Next

(* Fights are grouped into pulls, each represented by its first fight.      *)
THEOREM TypeCorrect == Spec => []TypeOK
<1>1. QED BY InitTyped, NextTyped, PTL DEF Spec

-----------------------------------------------------------------------------
(* Folds are sound.  No strengthening is needed: what is folded is compared *)
(* with the first known roster of the pull, and OneRoster says that every   *)
(* other known roster of the pull is equal to it.                           *)

(* The fight that is folded does not contradict its pull.                   *)
LEMMA FoldsAgree ==
  ASSUME TypeOK, OneRoster, NEW f \in Fight, NEW p, p \in Pulls,
         RosterMatch(p, f) # "differs", f.roster # Unknown,
         NEW i \in Members(p), timed[i].roster # Unknown
  PROVE  timed[i].roster = f.roster
<1> DEFINE first == FirstOf(Known(p))
<1>1. i \in Known(p)
  BY DEF Known
<1>2. first \in Known(p)
  BY <1>1, MembersFacts, FirstIsMember
<1>3. timed[first].roster = f.roster
  BY <1>1 DEF RosterMatch
<1>4. /\ first \in DOMAIN timed /\ i \in DOMAIN timed
      /\ pullOf[first] = pullOf[i] /\ timed[first].roster # Unknown
  BY <1>2 DEF Known, Members
<1> HIDE DEF first
<1>5. QED BY <1>3, <1>4 DEF OneRoster

LEMMA NextOneRoster ==
  ASSUME TypeOK, OneRoster, NEW f \in Fight, NEW p \in Nat, NEW c \in Nat,
         Joins(f, p, c), p = Len(timed) + 1 \/ FitsPull(f, p)
  PROVE  OneRoster'
<1> DEFINE n == Len(timed)
<1>1. Extended(f, p, c) /\ n \in Nat /\ DOMAIN timed = 1..n
  BY JoinsFacts, TypedFacts
<1>2. ASSUME NEW i \in 1..n, pullOf[i] = p
      PROVE  Unknown \in {timed[i].roster, f.roster} \/ timed[i].roster = f.roster
  <2>1. p \in 1..i
    BY <1>2, TypedFacts
  <2>2. FitsPull(f, p) /\ i \in Members(p)
    BY <1>1, <1>2, <2>1 DEF Members
  <2>3. QED BY <2>2, FoldsAgree DEF FitsPull
<1>3. ASSUME NEW i \in 1..(n + 1), NEW j \in 1..(n + 1), pullOf'[i] = pullOf'[j]
      PROVE  Unknown \in {timed'[i].roster, timed'[j].roster}
             \/ timed'[i].roster = timed'[j].roster
  <2>1. CASE i \in 1..n /\ j \in 1..n
    <3>1. /\ pullOf[i] = pullOf[j] /\ timed'[i] = timed[i] /\ timed'[j] = timed[j]
      BY <1>1, <1>3, <2>1 DEF Extended
    <3>2. QED BY <1>1, <2>1, <3>1 DEF OneRoster
  <2>2. CASE i \in 1..n /\ j = n + 1
    <3>1. /\ pullOf[i] = p /\ timed'[i] = timed[i] /\ timed'[j] = f
      BY <1>1, <1>3, <2>2 DEF Extended
    <3>2. QED BY <2>2, <3>1, <1>2
  <2>3. CASE i = n + 1 /\ j \in 1..n
    <3>1. /\ pullOf[j] = p /\ timed'[j] = timed[j] /\ timed'[i] = f
      BY <1>1, <1>3, <2>3 DEF Extended
    <3>2. QED BY <2>3, <3>1, <1>2
  <2>4. CASE i = n + 1 /\ j = n + 1
    BY <2>4
  <2>5. QED BY <1>1, <2>1, <2>2, <2>3, <2>4
<1>4. DOMAIN timed' = 1..(n + 1)
  BY <1>1 DEF Extended
<1> HIDE DEF n
<1>5. QED BY <1>3, <1>4 DEF OneRoster

LEMMA NextNarrow ==
  ASSUME TypeOK, NarrowFolds, NEW f \in Fight, NEW p \in Nat, NEW c \in Nat,
         Joins(f, p, c), p = Len(timed) + 1 \/ FitsPull(f, p)
  PROVE  NarrowFolds'
<1>0. PICK n \in Nat, k \in Nat : n = Len(timed) /\ k = n + 1
  BY TypedFacts
<1>1. Extended(f, p, c) /\ Len(timed) = n /\ k = n + 1 /\ DOMAIN timed = 1..n /\ DOMAIN timed' = 1..k
  BY <1>0, JoinsFacts, TypedFacts DEF Extended
<1>2. ASSUME NEW i \in 1..n, pullOf'[i] # i
      PROVE  Justified(i)'
  <2>1. pullOf'[i] = pullOf[i] /\ timed'[i] = timed[i]
    BY <1>1 DEF Extended
  <2>2. pullOf[i] \in 1..n
    <3>1. pullOf[i] \in 1..i
      BY <1>1, TypedFacts
    <3>2. QED BY <1>1, <3>1
  <2>3. timed'[pullOf[i]] = timed[pullOf[i]]
    BY <1>1, <2>2 DEF Extended
  <2>4. ASSUME NEW j \in Earlier(i)
        PROVE  j \in Earlier(i)' /\ timed'[j] = timed[j]
    <3>1. j \in 1..n /\ j < i /\ pullOf[j] = pullOf[i]
      BY <1>1 DEF Earlier
    <3>2. timed'[j] = timed[j] /\ pullOf'[j] = pullOf'[i] /\ j \in 1..k
      BY <1>1, <2>1, <3>1 DEF Extended
    <3>3. QED BY <1>1, <3>1, <3>2 DEF Earlier
  <2>5. Justified(i)
    BY <1>1, <1>2, <2>1 DEF NarrowFolds
  <2>6. QED BY <2>1, <2>3, <2>4, <2>5 DEF Justified, SameWindow, Close
<1>3. ASSUME p # k
      PROVE  Justified(k)'
  <2>1. pullOf'[k] = p /\ timed'[k] = f /\ FitsPull(f, p)
    BY <1>1, <1>3 DEF Extended
  <2>2. p \in 1..n
    BY <1>1, <2>1, PullsFacts DEF FitsPull
  <2>3. timed'[p] = timed[p]
    BY <1>1, <2>2 DEF Extended
  <2>4. ASSUME NEW j \in Members(p)
        PROVE  j \in Earlier(k)' /\ timed'[j] = timed[j]
    <3>1. j \in 1..n /\ pullOf[j] = p
      BY <1>1 DEF Members
    <3>2. /\ timed'[j] = timed[j] /\ pullOf'[j] = pullOf'[k] /\ j \in 1..k
          /\ j < k
      BY <1>1, <2>1, <3>1 DEF Extended
    <3>3. QED BY <1>1, <3>2 DEF Earlier
  <2>5. CASE RosterMatch(p, f) = "same" /\ Within(p, f, Loose)
    <3>1. Known(p) # {} /\ f.roster # Unknown /\ timed[FirstOf(Known(p))].roster = f.roster
      BY <2>5 DEF RosterMatch
    <3>2. FirstOf(Known(p)) \in Members(p)
      BY <3>1, MembersFacts, FirstIsMember DEF Known
    <3>3. \E j \in Members(p) : SameWindow(timed[j], f, Loose)
      BY <2>5 DEF Within
    <3>4. \E j \in Earlier(k)' : SameWindow(timed'[j], f, Loose)
      BY <2>4, <3>3
    <3>5. \E j \in Earlier(k)' : timed'[j].roster = f.roster
      BY <2>4, <3>1, <3>2
    <3>6. QED BY <2>1, <3>1, <3>4, <3>5 DEF Justified, SameWindow, Close
  <2>6. CASE Within(p, f, Tight) /\ f.guild # NoGuild /\ timed[p].guild = f.guild
    <3>1. \E j \in Members(p) : SameWindow(timed[j], f, Tight)
      BY <2>6 DEF Within
    <3>2. \E j \in Earlier(k)' : SameWindow(timed'[j], f, Tight)
      BY <2>4, <3>1
    <3>3. QED BY <2>1, <2>3, <2>6, <3>2 DEF Justified, SameWindow, Close
  <2>7. QED BY <2>1, <2>5, <2>6 DEF FitsPull
<1>4. ASSUME NEW i \in 1..k, pullOf'[i] # i
      PROVE  Justified(i)'
  <2>1. CASE i \in 1..n
    BY <1>2, <1>4, <2>1
  <2>2. CASE i = k
    <3>1. p # k
      BY <1>1, <1>4, <2>2 DEF Extended
    <3>2. QED BY <1>3, <2>2, <3>1
  <2>3. QED BY <1>1, <2>1, <2>2
<1>5. QED BY <1>1, <1>4 DEF NarrowFolds

(* However many fights are sampled and whatever the tolerances, no pull     *)
(* holds two known rosters that differ, and every fold is justified by an   *)
(* earlier log of its pull.                                                 *)
THEOREM FoldsAreSound == Spec => []SoundFolds
<1>1. Init => SoundFolds
  BY DEF Init, SoundFolds, OneRoster, NarrowFolds
<1>2. TypeOK /\ SoundFolds /\ [Next]_vars => SoundFolds'
  <2> SUFFICES ASSUME TypeOK, SoundFolds, [Next]_vars PROVE SoundFolds'
    OBVIOUS
  <2>1. CASE UNCHANGED vars
    BY <2>1 DEF vars, SoundFolds, OneRoster, NarrowFolds, Justified, Earlier
  <2>2. ASSUME NEW f \in Fight, FoldByGuild(f) \/ FoldByRoster(f) \/ KeepApart(f)
        PROVE  SoundFolds'
    <3>1. PICK p \in Nat, c \in Nat : Joins(f, p, c) /\ (p = Len(timed) + 1 \/ FitsPull(f, p))
      BY <2>2, StepFits
    <3>2. QED BY <3>1, NextOneRoster, NextNarrow DEF SoundFolds
  <2>3. QED BY <2>1, <2>2 DEF Next
<1>3. QED BY <1>1, <1>2, InitTyped, NextTyped, PTL DEF Spec

-----------------------------------------------------------------------------
(* Lookups.                                                                 *)

EntityKinds == {"character", "guild"}
Rows == [entity : Entity, score : Int]
Readings == [region : Regions, realm : Seq(DOMAIN RegionOf), name : Seq(DOMAIN RegionOf)]

LookupRecords ==
  [at : {"idle", "probing", "searching", "told", "failed"}, asked : Lookups \cup {Unnamed},
   words : Seq(DOMAIN RegionOf), hint : EntityKinds \cup {Unnamed}, splits : Seq(Readings), kinds : Seq(EntityKinds),
   found : SUBSET Rows, there : SUBSET Entity, verdict : {"none", "high", "medium", "low", Unnamed},
   ranked : Seq(Rows), shown : Seq(Rows)]

SplitOf(e) == [region |-> e.region, realm |-> e.realm, name |-> e.name]
Wants(l, e) == e.kind \in ToSet(Kinds(l))

(* The readings before the one at hand have found nothing that was there    *)
(* all along, and of the one at hand the kinds behind it have found it.     *)
Probed(l) ==
  LET all == Splits(l.words)
      done == Len(all) - Len(l.splits)
  IN  /\ done \in Nat /\ l.splits # <<>>
      /\ \A j \in 1..Len(l.splits) : l.splits[j] = all[done + j]
      /\ l.kinds = Kinds(l) \/ (Len(Kinds(l)) = 2 /\ l.kinds = Tail(Kinds(l)))
      /\ \A e \in l.there, i \in 1..done : Wants(l, e) => SplitOf(e) # all[i]
      /\ \A e \in l.there :
           Wants(l, e) /\ e.kind \notin ToSet(l.kinds) /\ SplitOf(e) = all[done + 1] => \E r \in l.found : r.entity = e
      /\ \A r \in l.found :
           r = Row(r.entity, l, ProbeWeights) /\ Wants(l, r.entity) /\ SplitOf(r.entity) = all[done + 1]

NothingUnderASplit(l) ==
  \A e \in l.there, i \in DOMAIN Splits(l.words) : Wants(l, e) => SplitOf(e) # Splits(l.words)[i]

(* What every lookup keeps: its snapshot only shrinks while entities come   *)
(* and go, and each request answered settles one kind of one reading.       *)
LookupMade ==
  /\ there \subseteq Entity /\ lookup.there \subseteq there
  /\ lookup \in LookupRecords
  /\ lookup.at # "idle" => lookup.asked \in Lookups
  /\ lookup.at = "probing" => Probed(lookup)
  /\ lookup.at = "searching" => NothingUnderASplit(lookup)
  /\ LookupHolds

(* --kind and the hint leave one kind or both.                              *)
LEMMA KindsGiven ==
  ASSUME NEW l, l.asked \in Lookups, l.hint \in EntityKinds \cup {Unnamed}
  PROVE  /\ Kinds(l) \in {<<"character">>, <<"guild">>, <<"character", "guild">>}
         /\ Kinds(l) \in Seq(EntityKinds) /\ Kinds(l) # <<>>
         /\ l.asked.kind # "all" => Kinds(l) = <<l.asked.kind>>
<1>1. l.asked.kind \in {"all", "character", "guild"}
  BY LookupAssumption
<1>2. CASE l.asked.kind # "all"
  BY <1>1, <1>2 DEF Kinds, EntityKinds
<1>3. CASE l.asked.kind = "all" /\ l.hint # Unnamed
  BY <1>3 DEF Kinds, EntityKinds
<1>4. CASE l.asked.kind = "all" /\ l.hint = Unnamed
  BY <1>4 DEF Kinds, EntityKinds
<1>5. QED BY <1>2, <1>3, <1>4

LEMMA TwoKinds ==
  ASSUME NEW k \in {<<"character">>, <<"guild">>, <<"character", "guild">>}, Len(k) = 2
  PROVE  k = <<"character", "guild">> /\ Tail(k) = <<"guild">>
<1>1. k # <<"character">> /\ k # <<"guild">>
  <2>1. Len(<<"character">>) = 1 /\ Len(<<"guild">>) = 1
    OBVIOUS
  <2>2. 1 # 2
    OBVIOUS
  <2>3. QED BY <2>1, <2>2, Zenon
<1>2. k = <<"character", "guild">>
  BY <1>1, Zenon
<1>3. Tail(<<"character", "guild">>) = <<"guild">>
  OBVIOUS
<1>4. QED BY <1>2, <1>3, Zenon

LEMMA SplitsTyped ==
  ASSUME NEW words \in Seq(DOMAIN RegionOf)
  PROVE  Splits(words) \in Seq(Readings)
<1>1. CASE Len(words) < 3 \/ RegionOf[words[1]] \notin Regions
  BY <1>1 DEF Splits
<1>2. CASE Len(words) >= 3 /\ RegionOf[words[1]] \in Regions
  <2> DEFINE last == Min({MaxRealmTokens, Len(words) - 2})
  <2>1. last \in Nat /\ last <= Len(words) - 2
    <3>1. MaxRealmTokens \in Nat /\ Len(words) - 2 \in Nat
      BY <1>2, LookupAssumption
    <3>2. \E x \in {MaxRealmTokens, Len(words) - 2} : \A y \in {MaxRealmTokens, Len(words) - 2} : x <= y
      BY <3>1
    <3>3. last \in {MaxRealmTokens, Len(words) - 2} /\ \A y \in {MaxRealmTokens, Len(words) - 2} : last <= y
      BY <3>2 DEF Min
    <3>4. QED BY <3>1, <3>3
  <2>2. Splits(words) = [n \in 1..last |->
          [region |-> RegionOf[words[1]], realm |-> SubSeq(words, 2, n + 1), name |-> SubSeq(words, n + 2, Len(words))]]
    BY <1>2 DEF Splits
  <2> HIDE DEF last
  <2>3. ASSUME NEW n \in 1..last
        PROVE  SubSeq(words, 2, n + 1) \in Seq(DOMAIN RegionOf) /\ SubSeq(words, n + 2, Len(words)) \in Seq(DOMAIN RegionOf)
    BY <1>2, <2>1
  <2>4. \A n \in 1..last :
          [region |-> RegionOf[words[1]], realm |-> SubSeq(words, 2, n + 1), name |-> SubSeq(words, n + 2, Len(words))] \in Readings
    BY <1>2, <2>3 DEF Readings
  <2>5. Splits(words) \in [1..last -> Readings]
    BY <2>2, <2>4
  <2>6. QED BY <2>1, <2>5
<1>3. Len(words) \in Nat
  OBVIOUS
<1>4. QED BY <1>1, <1>2, <1>3

LEMMA ScoreTyped ==
  ASSUME NEW e, NEW words, NEW hint, NEW w \in {SearchWeights, ProbeWeights}
  PROVE  Score(e, words, hint, w) \in Int
<1>1. w.base \in Int /\ w.exact \in Int /\ w.contains \in Int /\ w.all \in Int /\ w.region \in Int /\ w.realm \in Int /\ w.hint \in Int
  BY DEF SearchWeights, ProbeWeights
<1> DEFINE regional == {i \in DOMAIN words : e.region # Unnamed /\ RegionOf[words[i]] = e.region}
           rest == {words[i] : i \in DOMAIN words \ regional}
           a == IF words = e.name THEN w.exact ELSE 0
           b == IF words # e.name /\ Holds(words, e.name) THEN w.contains ELSE 0
           c == IF rest # {} /\ rest \subseteq ToSet(e.name) \cup ToSet(e.realm) THEN w.all ELSE 0
           d == IF regional # {} THEN w.region ELSE 0
           f == IF e.realm # <<>> /\ Holds(e.realm, words) THEN w.realm ELSE 0
           g == IF hint = e.kind THEN w.hint ELSE 0
<1>2. Score(e, words, hint, w) = w.base + a + b + c + d + f + g
  BY DEF Score
<1> HIDE DEF regional, rest
<1>3. a \in Int /\ b \in Int /\ c \in Int /\ d \in Int /\ f \in Int /\ g \in Int
  BY <1>1
<1> HIDE DEF a, b, c, d, f, g
<1>4. QED BY <1>1, <1>2, <1>3

LEMMA RowTyped ==
  ASSUME NEW e \in Entity, NEW l, NEW w \in {SearchWeights, ProbeWeights}
  PROVE  Row(e, l, w) \in Rows /\ Row(e, l, w).entity = e
BY ScoreTyped DEF Row, Rows

(* What is asked of a lookup does not change under it.                      *)
LEMMA SameQuestion ==
  ASSUME NEW l, NEW m, m.words = l.words, m.hint = l.hint, m.asked = l.asked
  PROVE  /\ \A e, w : Row(e, m, w) = Row(e, l, w)
         /\ Kinds(m) = Kinds(l)
         /\ \A e : Wants(m, e) <=> Wants(l, e)
BY DEF Row, Kinds, Wants

-----------------------------------------------------------------------------
(* Ranking.                                                                 *)

(* A ranking lists every row once.                                          *)
LEMMA RankingsList ==
  ASSUME NEW rows \in SUBSET Rows, IsFiniteSet(rows), NEW ranked \in Rankings(rows)
  PROVE  /\ ranked \in Seq(Rows)
         /\ \A i \in DOMAIN ranked : ranked[i] \in rows
         /\ \A r \in rows : \E i \in DOMAIN ranked : ranked[i] = r
         /\ \A i, j \in DOMAIN ranked : i < j => ranked[i] # ranked[j] /\ ~Before(ranked[j], ranked[i])
<1> DEFINE n == Cardinality(rows)
<1>1. n \in Nat
  BY FS_CardinalityType
<1>2. ranked \in [1..n -> rows] /\ (\A i, j \in 1..n : i # j => ranked[i] # ranked[j])
      /\ \A i, j \in DOMAIN ranked : i < j => ~Before(ranked[j], ranked[i])
  BY DEF Rankings, SetToSeqs
<1> HIDE DEF n
<1>3. ranked \in Seq(rows) /\ DOMAIN ranked = 1..n
  BY <1>1, <1>2
<1>4. ASSUME NEW r \in rows PROVE \E i \in DOMAIN ranked : ranked[i] = r
  <2> SUFFICES ASSUME \A i \in 1..n : ranked[i] # r PROVE FALSE
    BY <1>3
  <2>1. ranked \in Injection(1..n, rows \ {r})
    BY <1>2 DEF Injection, IsInjective
  <2>2. IsFiniteSet(1..n) /\ Cardinality(1..n) = n
    BY <1>1, FS_Interval
  <2>3. IsFiniteSet(rows \ {r}) /\ Cardinality(rows \ {r}) = n - 1
    BY FS_RemoveElement DEF n
  <2>4. Cardinality(1..n) <= Cardinality(rows \ {r})
    BY <2>1, <2>2, <2>3, FS_Injection
  <2>5. QED BY <1>1, <2>2, <2>3, <2>4
<1>5. QED BY <1>2, <1>3, <1>4

(* An answer that is sure leads all that was found, if no entity was found  *)
(* twice.                                                                   *)
LEMMA SureLeads ==
  ASSUME NEW rows \in SUBSET Rows, IsFiniteSet(rows), \A r, o \in rows : r.entity = o.entity => r = o,
         NEW ranked \in Rankings(Deduped(rows)), NEW l, Judged(ranked, l) = "high"
  PROVE  /\ ranked # <<>> /\ Openable(ranked[1])
         /\ \A r \in rows : r.entity # ranked[1].entity => ranked[1].score - r.score >= 15
<1>1. Deduped(rows) = rows
  <2>1. \A r \in rows : r.score <= r.score
    BY DEF Rows
  <2>2. QED BY <2>1 DEF Deduped
<1>2. /\ ranked \in Seq(Rows)
      /\ \A i \in DOMAIN ranked : ranked[i] \in rows
      /\ \A r \in rows : \E i \in DOMAIN ranked : ranked[i] = r
      /\ \A i, j \in DOMAIN ranked : i < j => ranked[i] # ranked[j] /\ ~Before(ranked[j], ranked[i])
  BY <1>1, RankingsList
<1>3. Confidence(ranked) = "high"
  BY DEF Judged
<1>4. /\ ranked # <<>> /\ Openable(ranked[1])
      /\ Len(ranked) = 1 \/ ranked[1].score - (IF Len(ranked) > 1 THEN ranked[2].score ELSE 0) >= 15
  BY <1>3 DEF Confidence
<1>5. ASSUME NEW r \in rows, r.entity # ranked[1].entity PROVE ranked[1].score - r.score >= 15
  <2>1. PICK i \in DOMAIN ranked : ranked[i] = r
    BY <1>2
  <2>2. i # 1 /\ i \in 1..Len(ranked) /\ Len(ranked) \in Nat
    BY <2>1, <1>2, <1>5
  <2>3. Len(ranked) > 1 /\ 2 \in DOMAIN ranked
    BY <2>2, <1>2
  <2>4. ranked[1].score - ranked[2].score >= 15
    BY <1>4, <2>3
  <2>5. ranked[1].score \in Int /\ ranked[2].score \in Int /\ r.score \in Int
    BY <1>2, <2>1, <2>2, <2>3 DEF Rows
  <2>6. ranked[2].score >= r.score
    <3>1. CASE i = 2
      BY <3>1, <2>1, <2>5
    <3>2. CASE i # 2
      <4>1. ~Before(r, ranked[2])
        BY <3>2, <2>1, <2>2, <2>3, <1>2
      <4>2. QED BY <4>1, <2>5 DEF Before
    <3>3. QED BY <3>1, <3>2
  <2>7. QED BY <2>4, <2>5, <2>6
<1>6. QED BY <1>4, <1>5

-----------------------------------------------------------------------------
(* LookupHolds of any record of a lookup.                                   *)

LeadOf(l) ==
  l.at = "told" /\ l.verdict = "high" =>
    Openable(l.ranked[1]) /\ \A r \in l.found : r.entity # l.ranked[1].entity => l.ranked[1].score - r.score >= 15

FirstFound(kinds, splits, those, rows) ==
  \A i \in DOMAIN splits, e \in those :
    e.kind \in ToSet(kinds) /\ SplitOf(e) = splits[i] =>
      \E r \in rows : \E j \in 1..i : r.entity.kind \in ToSet(kinds) /\ SplitOf(r.entity) = splits[j]

FirstSplitOf(l) == l.at = "told" => FirstFound(Kinds(l), Splits(l.words), l.there, l.found)

OnePerEntity(rows) == \A r, o \in rows : r.entity = o.entity => r = o
AllWanted(l, rows) == \A r \in rows : Wants(l, r.entity)

(* No more rows than entities.                                              *)
LEMMA RowsFinite ==
  ASSUME NEW rows \in SUBSET Rows, OnePerEntity(rows)
  PROVE  IsFiniteSet(rows)
<1> DEFINE f == [r \in rows |-> r.entity]
<1>1. f \in Injection(rows, Entity)
  BY DEF Injection, IsInjective, OnePerEntity, Rows
<1>2. IsFiniteSet(Entity)
  BY LookupAssumption
<1>3. QED BY <1>1, <1>2, FS_Injection

KindOf(l) ==
  l.at = "told" => \A i \in DOMAIN l.ranked : Contains(Kinds(l), l.ranked[i].entity.kind)

LEMMA HoldsOf == LookupHolds <=> LeadOf(lookup) /\ FirstSplitOf(lookup) /\ KindOf(lookup)
<1>1. SureOfALead <=> LeadOf(lookup)
  BY DEF SureOfALead, LeadOf, Looked
<1>2. FirstSplitFound <=> FirstSplitOf(lookup)
  BY DEF FirstSplitFound, FirstSplitOf, FirstFound, Looked, SplitOf
<1>3. KindIsKept <=> KindOf(lookup)
  BY DEF KindIsKept, KindOf, Looked
<1>4. QED BY <1>1, <1>2, <1>3 DEF LookupHolds

LEMMA NotTold ==
  ASSUME NEW l, l.at # "told"
  PROVE  LeadOf(l) /\ FirstSplitOf(l) /\ KindOf(l)
BY DEF LeadOf, FirstSplitOf, KindOf

(* What an answer makes of the rows that were found.                        *)
KeptOf(l, rows) == IF l.asked.kind = "all" THEN rows ELSE {r \in rows : r.entity.kind = l.asked.kind}

ToldOf(l, kept, ranked) ==
  [l EXCEPT !.at = "told", !.found = kept, !.ranked = ranked, !.verdict = Judged(ranked, l), !.shown = ShownRows(ranked, l)]

LEMMA Answered ==
  ASSUME NEW l \in LookupRecords, l.asked \in Lookups,
         NEW rows \in SUBSET Rows, IsFiniteSet(rows), OnePerEntity(rows), AllWanted(l, rows),
         FirstFound(Kinds(l), Splits(l.words), l.there, rows),
         NEW kept, kept = KeptOf(l, rows), NEW ranked \in Rankings(Deduped(kept)), NEW m, m = ToldOf(l, kept, ranked)
  PROVE  /\ m \in LookupRecords /\ m.at = "told" /\ m.asked = l.asked /\ m.there = l.there
         /\ LeadOf(m) /\ FirstSplitOf(m) /\ KindOf(m)
<1>0. l.asked.kind \in {"all", "character", "guild"} /\ l.asked.limit \in Nat /\ l.hint \in EntityKinds \cup {Unnamed}
  BY LookupAssumption DEF LookupRecords
<1>1. kept = rows
  <2>1. ASSUME l.asked.kind # "all", NEW r \in rows PROVE r.entity.kind = l.asked.kind
    <3>1. Kinds(l) = <<l.asked.kind>>
      BY <2>1, <1>0, KindsGiven
    <3>2. ToSet(<<l.asked.kind>>) = {l.asked.kind}
      BY DEF ToSet
    <3>3. QED BY <3>1, <3>2 DEF Wants, AllWanted
  <2>2. QED BY <2>1 DEF KeptOf
<1>2. ranked \in Seq(Rows) /\ \A i \in DOMAIN ranked : ranked[i] \in rows
  <2>1. Deduped(rows) \in SUBSET Rows /\ IsFiniteSet(Deduped(rows)) /\ Deduped(rows) \subseteq rows
    BY FS_Subset DEF Deduped
  <2>2. QED BY <2>1, <1>1, RankingsList
<1>3. ShownRows(ranked, l) \in Seq(Rows)
  <2> DEFINE last == Min({l.asked.limit, Len(ranked)})
  <2>1. l.asked.limit \in Nat /\ Len(ranked) \in Nat
    BY <1>0, <1>2
  <2>2. \E x \in {l.asked.limit, Len(ranked)} : \A y \in {l.asked.limit, Len(ranked)} : x <= y
    BY <2>1
  <2>3. last \in {l.asked.limit, Len(ranked)} /\ \A y \in {l.asked.limit, Len(ranked)} : last <= y
    BY <2>2 DEF Min
  <2>4. last \in Nat /\ last <= Len(ranked)
    BY <2>1, <2>3
  <2> HIDE DEF last
  <2>5. SubSeq(ranked, 1, last) \in Seq(Rows)
    BY <2>4, <1>2
  <2>6. QED BY <2>5 DEF ShownRows, last
<1>4. Judged(ranked, l) \in {"none", "high", "medium", "low"}
  BY DEF Judged, Confidence
<1>5. /\ m \in LookupRecords /\ m.at = "told" /\ m.asked = l.asked /\ m.there = l.there
      /\ m.words = l.words /\ m.hint = l.hint /\ m.ranked = ranked /\ m.found = rows /\ m.verdict = Judged(ranked, l)
  BY <1>1, <1>2, <1>3, <1>4 DEF LookupRecords, ToldOf
<1>6. Kinds(m) = Kinds(l)
  BY <1>5 DEF Kinds
<1>7. LeadOf(m)
  <2> SUFFICES ASSUME Judged(ranked, l) = "high"
               PROVE  /\ Openable(ranked[1])
                      /\ \A r \in rows : r.entity # ranked[1].entity => ranked[1].score - r.score >= 15
    BY <1>5 DEF LeadOf
  <2>1. ranked \in Rankings(Deduped(rows))
    BY <1>1
  <2>2. QED BY <2>1, SureLeads DEF OnePerEntity
<1>8. FirstSplitOf(m)
  <2>1. Splits(m.words) = Splits(l.words) /\ m.there = l.there /\ m.found = rows
    BY <1>5
  <2>2. QED BY <2>1, <1>6 DEF FirstSplitOf
<1>9. KindOf(m)
  <2> SUFFICES ASSUME NEW i \in DOMAIN ranked PROVE Contains(Kinds(l), ranked[i].entity.kind)
    BY <1>5, <1>6 DEF KindOf
  <2>1. Kinds(l) \in Seq(EntityKinds)
    BY <1>0, KindsGiven
  <2>2. ranked[i].entity.kind \in ToSet(Kinds(l))
    BY <1>2 DEF Wants, AllWanted
  <2>3. QED BY <2>1, <2>2 DEF ToSet, Contains
<1>10. QED BY <1>5, <1>7, <1>8, <1>9

-----------------------------------------------------------------------------
(* The steps.                                                               *)

LEMMA LookupInitMade == LookupInit => LookupMade
<1> SUFFICES ASSUME LookupInit PROVE LookupMade
  OBVIOUS
<1>1. /\ there = FirstThere /\ lookup = NoLookup
  BY DEF LookupInit
<1>2. NoLookup \in LookupRecords /\ NoLookup.at = "idle" /\ NoLookup.there = {}
  BY DEF NoLookup, LookupRecords
<1>3. LookupHolds
  BY <1>1, <1>2, NotTold, HoldsOf
<1>4. QED BY <1>1, <1>2, <1>3, LookupAssumption DEF LookupMade

(* Fewer of those that were there all along: nothing more is owed.          *)
LEMMA FewerThere ==
  ASSUME NEW l \in LookupRecords, NEW e, NEW m, m = [l EXCEPT !.there = @ \ {e}]
  PROVE  /\ m \in LookupRecords /\ m.at = l.at /\ m.asked = l.asked /\ m.there \subseteq l.there /\ e \notin m.there
         /\ l.at = "probing" /\ Probed(l) => Probed(m)
         /\ NothingUnderASplit(l) => NothingUnderASplit(m)
         /\ LeadOf(l) /\ FirstSplitOf(l) /\ KindOf(l) => LeadOf(m) /\ FirstSplitOf(m) /\ KindOf(m)
<1>1. /\ m \in LookupRecords /\ m.at = l.at /\ m.asked = l.asked /\ m.there \subseteq l.there /\ e \notin m.there
      /\ m.words = l.words /\ m.hint = l.hint /\ m.splits = l.splits /\ m.kinds = l.kinds /\ m.found = l.found
      /\ m.ranked = l.ranked /\ m.verdict = l.verdict
  BY DEF LookupRecords
<1>2. (\A o, w : Row(o, m, w) = Row(o, l, w)) /\ Kinds(m) = Kinds(l) /\ \A o : Wants(m, o) <=> Wants(l, o)
  <2>1. Kinds(m) = Kinds(l)
    BY <1>1 DEF Kinds
  <2>2. \A o : Wants(m, o) <=> Wants(l, o)
    BY <2>1 DEF Wants
  <2>3. \A o, w : Row(o, m, w) = Row(o, l, w)
    BY <1>1 DEF Row
  <2>4. QED BY <2>1, <2>2, <2>3
<1>3. Probed(l) => Probed(m)
  <2> SUFFICES ASSUME Probed(l) PROVE Probed(m)
    OBVIOUS
  <2> DEFINE all == Splits(l.words)
             done == Len(all) - Len(l.splits)
  <2>1. /\ done \in Nat /\ l.splits # <<>>
        /\ \A j \in 1..Len(l.splits) : l.splits[j] = all[done + j]
        /\ l.kinds = Kinds(l) \/ (Len(Kinds(l)) = 2 /\ l.kinds = Tail(Kinds(l)))
    BY DEF Probed
  <2>2. \A o \in l.there, i \in 1..done : Wants(l, o) => SplitOf(o) # all[i]
    BY DEF Probed
  <2>3. \A o \in l.there :
          Wants(l, o) /\ o.kind \notin ToSet(l.kinds) /\ SplitOf(o) = all[done + 1] => \E r \in l.found : r.entity = o
    BY DEF Probed
  <2>4. \A r \in l.found :
          r = Row(r.entity, l, ProbeWeights) /\ Wants(l, r.entity) /\ SplitOf(r.entity) = all[done + 1]
    BY DEF Probed
  <2>5. \A r \in m.found :
          r = Row(r.entity, m, ProbeWeights) /\ Wants(m, r.entity) /\ SplitOf(r.entity) = all[done + 1]
    <3> SUFFICES ASSUME NEW r \in l.found
                 PROVE  r = Row(r.entity, m, ProbeWeights) /\ Wants(m, r.entity) /\ SplitOf(r.entity) = all[done + 1]
      BY <1>1, Zenon
    <3> HIDE DEF all, done
    <3>1. r = Row(r.entity, l, ProbeWeights) /\ Wants(l, r.entity) /\ SplitOf(r.entity) = all[done + 1]
      BY <2>4, Zenon
    <3>2. QED BY <3>1, <1>2, Zenon
  <2>6. /\ \A o \in m.there, i \in 1..done : Wants(m, o) => SplitOf(o) # all[i]
        /\ \A o \in m.there :
             Wants(m, o) /\ o.kind \notin ToSet(m.kinds) /\ SplitOf(o) = all[done + 1] => \E r \in m.found : r.entity = o
    BY <2>2, <2>3, <1>1, <1>2
  <2>7. all = Splits(m.words) /\ done = Len(Splits(m.words)) - Len(m.splits)
    BY <1>1
  <2>8. /\ done \in Nat /\ m.splits # <<>>
        /\ \A j \in 1..Len(m.splits) : m.splits[j] = all[done + j]
        /\ m.kinds = Kinds(m) \/ (Len(Kinds(m)) = 2 /\ m.kinds = Tail(Kinds(m)))
    BY <2>1, <1>1, <1>2
  <2> HIDE DEF all, done
  <2>9. QED BY <2>5, <2>6, <2>7, <2>8 DEF Probed
<1>4. NothingUnderASplit(l) => NothingUnderASplit(m)
  BY <1>1, <1>2 DEF NothingUnderASplit
<1>5. LeadOf(l) => LeadOf(m)
  BY <1>1 DEF LeadOf
<1>6. FirstSplitOf(l) => FirstSplitOf(m)
  <2>1. FirstFound(Kinds(l), Splits(l.words), l.there, l.found) => FirstFound(Kinds(l), Splits(l.words), m.there, l.found)
    BY <1>1 DEF FirstFound
  <2>2. Kinds(m) = Kinds(l) /\ Splits(m.words) = Splits(l.words)
    BY <1>1, <1>2
  <2>3. QED BY <2>1, <2>2, <1>1 DEF FirstSplitOf
<1>7. KindOf(l) => KindOf(m)
  BY <1>1, <1>2 DEF KindOf
<1>8. QED BY <1>1, <1>3, <1>4, <1>5, <1>6, <1>7

LEMMA SurroundingsMade ==
  ASSUME LookupMade, NEW e \in Entity, Comes(e) \/ Goes(e)
  PROVE  LookupMade'
<1>1. CASE Comes(e)
  <2>1. there' = there \cup {e} /\ lookup' = lookup
    BY <1>1 DEF Comes
  <2>2. LookupHolds'
    BY <2>1, HoldsOf DEF LookupMade, LookupHolds, SureOfALead, FirstSplitFound, KindIsKept, Looked
  <2>3. QED BY <2>1, <2>2 DEF LookupMade
<1>2. CASE Goes(e)
  <2>1. there' = there \ {e} /\ lookup' = [lookup EXCEPT !.there = @ \ {e}]
    BY <1>2 DEF Goes
  <2>2. LeadOf(lookup) /\ FirstSplitOf(lookup) /\ KindOf(lookup)
    BY HoldsOf DEF LookupMade
  <2>3. /\ lookup' \in LookupRecords /\ lookup'.at = lookup.at /\ lookup'.asked = lookup.asked
        /\ lookup'.there \subseteq lookup.there /\ e \notin lookup'.there
        /\ lookup.at = "probing" /\ Probed(lookup) => Probed(lookup')
        /\ NothingUnderASplit(lookup) => NothingUnderASplit(lookup')
        /\ LeadOf(lookup') /\ FirstSplitOf(lookup') /\ KindOf(lookup')
    BY <2>1, <2>2, FewerThere DEF LookupMade
  <2>4. LookupHolds'
    BY <2>3 DEF LookupHolds, SureOfALead, FirstSplitFound, KindIsKept, Looked, LeadOf, FirstSplitOf, FirstFound, KindOf, SplitOf
  <2>5. QED BY <2>1, <2>3, <2>4 DEF LookupMade
<1>3. QED BY <1>1, <1>2

LEMMA LookUpMade == ASSUME LookupMade, LookUp PROVE LookupMade'
<1>1. /\ there' = there
      /\ \E a \in Lookups :
           LET l == [NoLookup EXCEPT !.asked = a, !.words = Words(a.query), !.hint = Hint(a.query), !.there = there]
               splits == Splits(l.words)
           IN  lookup' = [l EXCEPT !.at = IF l.words = <<>> THEN "failed" ELSE IF splits = <<>> THEN "searching" ELSE "probing",
                                   !.splits = splits, !.kinds = Kinds(l)]
  BY DEF LookUp, service
<1>2. PICK a \in Lookups :
         LET l == [NoLookup EXCEPT !.asked = a, !.words = Words(a.query), !.hint = Hint(a.query), !.there = there]
             splits == Splits(l.words)
         IN  lookup' = [l EXCEPT !.at = IF l.words = <<>> THEN "failed" ELSE IF splits = <<>> THEN "searching" ELSE "probing",
                                 !.splits = splits, !.kinds = Kinds(l)]
  BY <1>1
<1>3. PICK l : l = [NoLookup EXCEPT !.asked = a, !.words = Words(a.query), !.hint = Hint(a.query), !.there = there]
  OBVIOUS
<1>4. a.query \in Seq(DOMAIN RegionOf)
  BY LookupAssumption
<1>5. Hint(a.query) \in EntityKinds \cup {Unnamed}
  <2>1. CASE a.query = <<>>
    BY <2>1 DEF Hint
  <2>2. CASE a.query # <<>>
    <3>1. a.query[1] \in DOMAIN RegionOf
      BY <1>4, <2>2
    <3>2. HintOf[a.query[1]] \in EntityKinds \cup {Unnamed}
      BY <3>1, LookupAssumption DEF EntityKinds
    <3>3. QED BY <3>2, <2>2 DEF Hint
  <2>3. QED BY <2>1, <2>2
<1>6. Words(a.query) \in Seq(DOMAIN RegionOf)
  <2>1. ASSUME Len(a.query) > 1 PROVE Tail(a.query) \in Seq(DOMAIN RegionOf)
    <3>1. a.query # <<>>
      BY <2>1, <1>4
    <3>2. QED BY <3>1, <1>4, HeadTailProperties
  <2>2. QED BY <1>4, <2>1 DEF Words
<1>7. /\ l.at = "idle" /\ l.asked = a /\ l.words = Words(a.query) /\ l.hint = Hint(a.query) /\ l.there = there
      /\ l.splits = <<>> /\ l.kinds = <<>> /\ l.found = {} /\ l.verdict = Unnamed /\ l.ranked = <<>> /\ l.shown = <<>>
      /\ l \in LookupRecords
  <2>1. PICK q, h : q = Words(a.query) /\ h = Hint(a.query)
    OBVIOUS
  <2>2. /\ l.at = "idle" /\ l.asked = a /\ l.words = q /\ l.hint = h /\ l.there = there
        /\ l.splits = <<>> /\ l.kinds = <<>> /\ l.found = {} /\ l.verdict = Unnamed /\ l.ranked = <<>> /\ l.shown = <<>>
    BY <1>3, <2>1 DEF NoLookup
  <2>3. there \in SUBSET Entity /\ q \in Seq(DOMAIN RegionOf) /\ h \in EntityKinds \cup {Unnamed}
    BY <1>5, <1>6, <2>1 DEF LookupMade
  <2>4. l = [at |-> "idle", asked |-> a, words |-> q, hint |-> h, splits |-> <<>>, kinds |-> <<>>, found |-> {},
             there |-> there, verdict |-> Unnamed, ranked |-> <<>>, shown |-> <<>>]
    BY <1>3, <2>1 DEF NoLookup
  <2>5. <<>> \in Seq(Readings) /\ <<>> \in Seq(EntityKinds) /\ <<>> \in Seq(Rows)
    OBVIOUS
  <2>6. l \in LookupRecords
    BY <2>3, <2>4, <2>5 DEF LookupRecords
  <2>7. QED BY <2>1, <2>2, <2>6
<1>8. PICK k : k = Kinds(l)
  OBVIOUS
<1>9. k \in Seq(EntityKinds) /\ k # <<>>
  BY <1>5, <1>7, <1>8, KindsGiven
<1>10. PICK splits : splits = Splits(l.words)
  OBVIOUS
<1>11. splits \in Seq(Readings)
  BY <1>6, <1>7, <1>10, SplitsTyped
<1>12. PICK stage : stage = IF l.words = <<>> THEN "failed" ELSE IF splits = <<>> THEN "searching" ELSE "probing"
  OBVIOUS
<1>13. lookup' = [l EXCEPT !.at = stage, !.splits = splits, !.kinds = k]
  BY <1>2, <1>3, <1>8, <1>10, <1>12
<1>14. stage \in {"failed", "searching", "probing"}
  BY <1>12
<1>15. PICK m : m = [l EXCEPT !.at = stage, !.splits = splits, !.kinds = k]
  OBVIOUS
<1>16. /\ m \in LookupRecords /\ m.at = stage /\ m.splits = splits /\ m.kinds = k /\ m.asked = a /\ m.words = l.words
       /\ m.hint = l.hint /\ m.there = there /\ m.found = {}
  BY <1>7, <1>9, <1>11, <1>14, <1>15 DEF LookupRecords
<1>17. Kinds(m) = k
  BY <1>7, <1>8, <1>16 DEF Kinds
<1>18. stage = "probing" => Probed(m)
  <2> SUFFICES ASSUME stage = "probing" PROVE Probed(m)
    OBVIOUS
  <2>1. splits # <<>> /\ Len(splits) \in Nat /\ Splits(m.words) = splits /\ m.splits = splits
    BY <1>10, <1>11, <1>12, <1>14, <1>16
  <2>2. Len(splits) - Len(splits) = 0
    BY <2>1
  <2>3. \A j \in 1..Len(splits) : splits[j] = splits[0 + j]
    OBVIOUS
  <2>4. \A e \in m.there : Wants(m, e) => e.kind \in ToSet(m.kinds)
    BY <1>16, <1>17 DEF Wants
  <2>5. 1..0 = {}
    OBVIOUS
  <2>6. QED BY <2>1, <2>2, <2>3, <2>4, <2>5, <1>16, <1>17 DEF Probed
<1>19. stage = "searching" => NothingUnderASplit(m)
  <2> SUFFICES ASSUME stage = "searching" PROVE NothingUnderASplit(m)
    OBVIOUS
  <2>1. Splits(m.words) = <<>>
    BY <1>10, <1>12, <1>14, <1>16
  <2>2. QED BY <2>1 DEF NothingUnderASplit
<1>20. LeadOf(m) /\ FirstSplitOf(m) /\ KindOf(m)
  BY <1>14, <1>16, NotTold
<1>21. lookup' = m
  BY <1>13, <1>15
<1>22. LookupHolds'
  BY <1>20, <1>21 DEF LookupHolds, SureOfALead, FirstSplitFound, KindIsKept, Looked, LeadOf, FirstSplitOf, FirstFound, KindOf, SplitOf
<1>23. QED BY <1>1, <1>16, <1>18, <1>19, <1>21, <1>22 DEF LookupMade

(* A lookup that ends without an answer, or goes on to search.              *)
LEMMA GoesOnMade ==
  ASSUME LookupMade, UNCHANGED there, NEW m, lookup' = m,
         m \in LookupRecords, m.there = lookup.there, m.at # "told", m.asked \in Lookups,
         m.at = "probing" => Probed(m), m.at = "searching" => NothingUnderASplit(m)
  PROVE  LookupMade'
<1>1. LeadOf(m) /\ FirstSplitOf(m) /\ KindOf(m)
  BY NotTold
<1>2. LookupHolds'
  BY <1>1 DEF LookupHolds, SureOfALead, FirstSplitFound, KindIsKept, Looked, LeadOf, FirstSplitOf, FirstFound, KindOf, SplitOf
<1>3. QED BY <1>2 DEF LookupMade

LEMMA AnswerMade ==
  ASSUME LookupMade, UNCHANGED there, lookup.asked \in Lookups,
         NEW rows \in SUBSET Rows, IsFiniteSet(rows), OnePerEntity(rows), AllWanted(lookup, rows),
         FirstFound(Kinds(lookup), Splits(lookup.words), lookup.there, rows),
         Answer(lookup, rows)
  PROVE  LookupMade'
<1>1. PICK ranked \in Rankings(Deduped(KeptOf(lookup, rows))) : lookup' = ToldOf(lookup, KeptOf(lookup, rows), ranked)
  BY DEF Answer, KeptOf, ToldOf
<1>2. PICK kept, m : kept = KeptOf(lookup, rows) /\ m = ToldOf(lookup, kept, ranked)
  OBVIOUS
<1>3. /\ m \in LookupRecords /\ m.at = "told" /\ m.asked = lookup.asked /\ m.there = lookup.there
      /\ LeadOf(m) /\ FirstSplitOf(m) /\ KindOf(m)
  <2>1. lookup \in LookupRecords
    BY DEF LookupMade
  <2>2. PICK l : l = lookup
    OBVIOUS
  <2>3. /\ l \in LookupRecords /\ l.asked \in Lookups /\ AllWanted(l, rows)
        /\ FirstFound(Kinds(l), Splits(l.words), l.there, rows)
        /\ kept = KeptOf(l, rows) /\ m = ToldOf(l, kept, ranked)
    BY <1>2, <2>1, <2>2
  <2>4. ranked \in Rankings(Deduped(kept))
    BY <1>2
  <2>5. /\ m \in LookupRecords /\ m.at = "told" /\ m.asked = l.asked /\ m.there = l.there
        /\ LeadOf(m) /\ FirstSplitOf(m) /\ KindOf(m)
    BY <2>3, <2>4, Answered
  <2>6. QED BY <2>2, <2>5
<1>4. lookup' = m
  BY <1>1, <1>2
<1>5. LookupHolds'
  BY <1>3, <1>4 DEF LookupHolds, SureOfALead, FirstSplitFound, KindIsKept, Looked, LeadOf, FirstSplitOf, FirstFound, KindOf, SplitOf
<1>6. QED BY <1>3, <1>4, <1>5 DEF LookupMade

LEMMA SearchMade == ASSUME LookupMade, Search PROVE LookupMade'
<1>1. lookup.at = "searching" /\ there' = there /\ lookup \in LookupRecords /\ lookup.asked \in Lookups
  BY DEF Search, service, LookupMade
<1>2. CASE ~answering
  <2>1. PICK m : m = [lookup EXCEPT !.at = "failed"]
    OBVIOUS
  <2>2. lookup' = m
    BY <1>2, <2>1 DEF Search
  <2>3. m \in LookupRecords /\ m.there = lookup.there /\ m.at = "failed" /\ m.asked = lookup.asked
    BY <1>1, <2>1 DEF LookupRecords
  <2>4. QED BY <1>1, <2>2, <2>3, GoesOnMade
<1>3. CASE answering
  <2>1. PICK es \in SUBSET {e \in there : ToSet(e.name) \cap ToSet(lookup.words) # {} /\ Contains(Kinds(lookup), e.kind)} :
           Answer(lookup, {Row(e, lookup, SearchWeights) : e \in es})
    BY <1>3 DEF Search
  <2>2. es \in SUBSET Entity /\ \A e \in es : Contains(Kinds(lookup), e.kind)
    BY <2>1 DEF LookupMade
  <2>3. PICK rows : rows = {Row(e, lookup, SearchWeights) : e \in es}
    OBVIOUS
  <2>4. \A e \in es : Row(e, lookup, SearchWeights) \in Rows /\ Row(e, lookup, SearchWeights).entity = e
    BY <2>2, RowTyped
  <2>5. rows \in SUBSET Rows /\ \A r \in rows : r.entity \in es /\ r = Row(r.entity, lookup, SearchWeights)
    BY <2>3, <2>4
  <2>6. OnePerEntity(rows)
    BY <2>5 DEF OnePerEntity
  <2>7. IsFiniteSet(rows)
    BY <2>5, <2>6, RowsFinite
  <2>8. AllWanted(lookup, rows)
    <3> SUFFICES ASSUME NEW r \in rows PROVE r.entity.kind \in ToSet(Kinds(lookup))
      BY DEF AllWanted, Wants
    <3>1. Contains(Kinds(lookup), r.entity.kind)
      BY <2>2, <2>5
    <3>2. Kinds(lookup) \in Seq(EntityKinds)
      BY <1>1, KindsGiven DEF LookupRecords
    <3>3. QED BY <3>1, <3>2 DEF Contains, ToSet
  <2>9. FirstFound(Kinds(lookup), Splits(lookup.words), lookup.there, rows)
    <3>1. NothingUnderASplit(lookup)
      BY <1>1 DEF LookupMade
    <3>2. QED BY <3>1 DEF NothingUnderASplit, FirstFound, Wants
  <2>10. QED BY <1>1, <2>1, <2>3, <2>5, <2>6, <2>7, <2>8, <2>9, AnswerMade
<1>4. QED BY <1>2, <1>3

LEMMA ProbeMade == ASSUME LookupMade, Probe PROVE LookupMade'
<1>1. /\ lookup.at = "probing" /\ there' = there /\ lookup \in LookupRecords /\ lookup.asked \in Lookups
      /\ Probed(lookup) /\ lookup.there \subseteq there /\ there \subseteq Entity
  BY DEF Probe, service, LookupMade
<1>2. CASE ~answering
  <2>1. PICK m : m = [lookup EXCEPT !.at = "failed"]
    OBVIOUS
  <2>2. lookup' = m
    BY <1>2, <2>1 DEF Probe
  <2>3. m \in LookupRecords /\ m.there = lookup.there /\ m.at = "failed" /\ m.asked = lookup.asked
    BY <1>1, <2>1 DEF LookupRecords
  <2>4. QED BY <1>1, <2>2, <2>3, GoesOnMade
<1>3. CASE answering
  <2>1. PICK l : l = lookup
    OBVIOUS
  <2>2. PICK all, split : all = Splits(l.words) /\ split = l.splits[1]
    OBVIOUS
  <2>3. PICK hits : hits = {e \in there : /\ e.kind = l.kinds[1]
                                        /\ [region |-> e.region, realm |-> e.realm, name |-> e.name] = split}
    OBVIOUS
  <2>4. PICK found : found = l.found \cup {Row(e, l, ProbeWeights) : e \in hits}
    OBVIOUS
  <2>5. PICK done : done = Len(all) - Len(l.splits)
    OBVIOUS
  <2>6. /\ done \in Nat /\ l.splits # <<>> /\ \A j \in 1..Len(l.splits) : l.splits[j] = all[done + j]
        /\ l.kinds = Kinds(l) \/ (Len(Kinds(l)) = 2 /\ l.kinds = Tail(Kinds(l)))
        /\ \A e \in l.there, i \in 1..done : Wants(l, e) => SplitOf(e) # all[i]
    BY <1>1, <2>1, <2>2, <2>5 DEF Probed
  <2>7. \A e \in l.there :
          Wants(l, e) /\ e.kind \notin ToSet(l.kinds) /\ SplitOf(e) = all[done + 1] => \E r \in l.found : r.entity = e
    BY <1>1, <2>1, <2>2, <2>5 DEF Probed
  <2>8. \A r \in l.found : r = Row(r.entity, l, ProbeWeights) /\ Wants(l, r.entity) /\ SplitOf(r.entity) = all[done + 1]
    BY <1>1, <2>1, <2>2, <2>5 DEF Probed
  <2>9. /\ l \in LookupRecords /\ l.asked \in Lookups /\ l.hint \in EntityKinds \cup {Unnamed} /\ l.found \in SUBSET Rows
        /\ l.splits \in Seq(Readings) /\ l.words \in Seq(DOMAIN RegionOf) /\ l.kinds \in Seq(EntityKinds)
        /\ l.there \subseteq there /\ l.there \in SUBSET Entity
    BY <1>1, <2>1 DEF LookupRecords
  <2>10. all \in Seq(Readings) /\ Len(l.splits) \in Nat /\ Len(l.splits) >= 1 /\ split = all[done + 1]
         /\ Len(all) \in Nat /\ Len(all) = done + Len(l.splits) /\ done + 1 \in 1..Len(all)
    <3>1. all \in Seq(Readings)
      BY <2>2, <2>9, SplitsTyped
    <3>2. Len(l.splits) \in Nat /\ Len(l.splits) >= 1 /\ Len(all) \in Nat
      BY <3>1, <2>6, <2>9
    <3>3. Len(all) = done + Len(l.splits) /\ done + 1 \in 1..Len(all)
      BY <3>2, <2>5, <2>6
    <3>4. l.splits[1] = all[done + 1]
      BY <3>2, <2>6
    <3>5. QED BY <3>1, <3>2, <3>3, <3>4, <2>2
  <2>11. /\ Kinds(l) \in {<<"character">>, <<"guild">>, <<"character", "guild">>} /\ l.kinds # <<>>
         /\ ToSet(l.kinds) \subseteq ToSet(Kinds(l)) /\ l.kinds[1] \in ToSet(Kinds(l))
         /\ Len(l.kinds) > 1 => l.kinds = Kinds(l) /\ Len(Kinds(l)) = 2 /\ ToSet(l.kinds) = {l.kinds[1]} \cup ToSet(Tail(l.kinds))
         /\ Len(l.kinds) <= 1 => ToSet(l.kinds) = {l.kinds[1]}
    <3>1. Kinds(l) \in {<<"character">>, <<"guild">>, <<"character", "guild">>}
      BY <2>9, KindsGiven
    <3>2. /\ ToSet(<<"character">>) = {"character"} /\ ToSet(<<"guild">>) = {"guild"}
          /\ ToSet(<<"character", "guild">>) = {"character", "guild"}
      BY DEF ToSet
    <3>3. Tail(<<"character", "guild">>) = <<"guild">>
      OBVIOUS
    <3>4. l.kinds \in {<<"character">>, <<"guild">>, <<"character", "guild">>}
      <4>1. CASE l.kinds = Kinds(l)
        BY <4>1, <3>1
      <4>2. CASE Len(Kinds(l)) = 2 /\ l.kinds = Tail(Kinds(l))
        <5>1. Tail(Kinds(l)) = <<"guild">>
          BY <4>2, <3>1, TwoKinds, Zenon
        <5>2. QED BY <5>1, <4>2, Zenon
      <4>3. QED BY <4>1, <4>2, <2>6
    <3>5. ASSUME l.kinds # Kinds(l) PROVE Kinds(l) = <<"character", "guild">> /\ l.kinds = <<"guild">>
      <4>1. Len(Kinds(l)) = 2 /\ l.kinds = Tail(Kinds(l))
        BY <3>5, <2>6
      <4>2. Kinds(l) = <<"character", "guild">> /\ Tail(Kinds(l)) = <<"guild">>
        BY <4>1, <3>1, TwoKinds, Zenon
      <4>3. QED BY <4>1, <4>2, Zenon
    <3>6. ToSet(l.kinds) \subseteq ToSet(Kinds(l))
      <4>1. CASE l.kinds = Kinds(l)
        BY <4>1
      <4>2. CASE l.kinds # Kinds(l)
        <5>1. ToSet(l.kinds) = {"guild"} /\ ToSet(Kinds(l)) = {"character", "guild"}
          BY <4>2, <3>2, <3>5
        <5>2. QED BY <5>1
      <4>3. QED BY <4>1, <4>2
    <3>7. l.kinds # <<>> /\ l.kinds[1] \in ToSet(l.kinds)
      <4>1. CASE l.kinds = <<"character">>
        BY <4>1, <3>2
      <4>2. CASE l.kinds = <<"guild">>
        BY <4>2, <3>2
      <4>3. CASE l.kinds = <<"character", "guild">>
        BY <4>3, <3>2
      <4>4. QED BY <3>4, <4>1, <4>2, <4>3
    <3>8. ASSUME Len(l.kinds) > 1
          PROVE  l.kinds = Kinds(l) /\ Len(Kinds(l)) = 2 /\ ToSet(l.kinds) = {l.kinds[1]} \cup ToSet(Tail(l.kinds))
      <4>1. l.kinds = <<"character", "guild">>
        BY <3>8, <3>4
      <4>2. l.kinds = Kinds(l)
        BY <4>1, <3>5
      <4>3. ToSet(l.kinds) = {"character", "guild"} /\ l.kinds[1] = "character" /\ ToSet(Tail(l.kinds)) = {"guild"}
        BY <4>1, <3>2, <3>3
      <4>4. QED BY <4>1, <4>2, <4>3
    <3>9. ASSUME Len(l.kinds) <= 1 PROVE ToSet(l.kinds) = {l.kinds[1]}
      <4>1. l.kinds = <<"character">> \/ l.kinds = <<"guild">>
        BY <3>9, <3>4
      <4>2. CASE l.kinds = <<"character">>
        BY <4>2, <3>2
      <4>3. CASE l.kinds = <<"guild">>
        BY <4>3, <3>2
      <4>4. QED BY <4>1, <4>2, <4>3
    <3>10. QED BY <3>1, <3>6, <3>7, <3>8, <3>9
  <2>12. hits \in SUBSET Entity /\ \A e \in hits : SplitOf(e) = split /\ e.kind = l.kinds[1]
    BY <2>3, <1>1 DEF SplitOf
  <2>13. \A e \in hits : Row(e, l, ProbeWeights) \in Rows /\ Row(e, l, ProbeWeights).entity = e
    BY <2>12, RowTyped
  <2>14. /\ found \in SUBSET Rows
         /\ \A r \in found : r = Row(r.entity, l, ProbeWeights) /\ Wants(l, r.entity) /\ SplitOf(r.entity) = all[done + 1]
    <3>1. \A e \in hits : Wants(l, e) /\ SplitOf(e) = all[done + 1]
      BY <2>10, <2>11, <2>12 DEF Wants
    <3>2. ASSUME NEW r \in found
          PROVE  r \in Rows /\ r = Row(r.entity, l, ProbeWeights) /\ Wants(l, r.entity) /\ SplitOf(r.entity) = all[done + 1]
      <4>1. CASE r \in l.found
        BY <4>1, <2>8, <2>9
      <4>2. CASE r \notin l.found
        <5>1. PICK e \in hits : r = Row(e, l, ProbeWeights)
          BY <4>2, <2>4
        <5>2. QED BY <5>1, <2>13, <3>1
      <4>3. QED BY <4>1, <4>2
    <3>3. QED BY <3>2
  <2>15. IsFiniteSet(found) /\ OnePerEntity(found) /\ AllWanted(l, found)
    <3>1. OnePerEntity(found)
      BY <2>14 DEF OnePerEntity
    <3>2. IsFiniteSet(found)
      BY <2>14, <3>1, RowsFinite
    <3>3. AllWanted(l, found)
      BY <2>14 DEF AllWanted
    <3>4. QED BY <3>1, <3>2, <3>3
  <2>16. \A e \in l.there : e.kind = l.kinds[1] /\ SplitOf(e) = all[done + 1] => \E r \in found : r.entity = e
    <3> SUFFICES ASSUME NEW e \in l.there, e.kind = l.kinds[1], SplitOf(e) = all[done + 1] PROVE \E r \in found : r.entity = e
      OBVIOUS
    <3>1. e \in hits
      BY <2>3, <2>9, <2>10 DEF SplitOf
    <3>2. Row(e, l, ProbeWeights) \in found /\ Row(e, l, ProbeWeights).entity = e
      BY <3>1, <2>4, <2>13
    <3>3. QED BY <3>2
  <2>17. l.found \subseteq found
    BY <2>4
  <2>18. CASE Len(l.kinds) > 1
    <3>1. PICK m : m = [l EXCEPT !.kinds = Tail(l.kinds), !.found = found]
      OBVIOUS
    <3>2. lookup' = m
      BY <1>3, <2>1, <2>2, <2>3, <2>4, <2>18, <3>1 DEF Probe
    <3>3. Tail(l.kinds) \in Seq(EntityKinds)
      BY <2>9, <2>11, HeadTailProperties
    <3>4. /\ m \in LookupRecords /\ m.at = "probing" /\ m.asked = l.asked /\ m.words = l.words /\ m.hint = l.hint
          /\ m.there = l.there /\ m.splits = l.splits /\ m.kinds = Tail(l.kinds) /\ m.found = found
      BY <1>1, <2>1, <2>9, <2>14, <3>1, <3>3 DEF LookupRecords
    <3>5. Kinds(m) = Kinds(l) /\ (\A e : Wants(m, e) <=> Wants(l, e)) /\ \A e, w : Row(e, m, w) = Row(e, l, w)
      <4>1. Kinds(m) = Kinds(l)
        BY <3>4 DEF Kinds
      <4>2. \A e : Wants(m, e) <=> Wants(l, e)
        BY <4>1 DEF Wants
      <4>3. \A e, w : Row(e, m, w) = Row(e, l, w)
        BY <3>4 DEF Row
      <4>4. QED BY <4>1, <4>2, <4>3
    <3>6. all = Splits(m.words) /\ done = Len(all) - Len(m.splits)
      BY <2>2, <2>5, <3>4
    <3>7. /\ m.splits # <<>> /\ \A j \in 1..Len(m.splits) : m.splits[j] = all[done + j]
          /\ Len(Kinds(m)) = 2 /\ m.kinds = Tail(Kinds(m))
          /\ \A e \in m.there, i \in 1..done : Wants(m, e) => SplitOf(e) # all[i]
      BY <2>6, <2>11, <2>18, <3>4, <3>5
    <3>8. \A e \in m.there :
            Wants(m, e) /\ e.kind \notin ToSet(m.kinds) /\ SplitOf(e) = all[done + 1] => \E r \in m.found : r.entity = e
      <4> SUFFICES ASSUME NEW e \in l.there, Wants(l, e), e.kind \notin ToSet(Tail(l.kinds)), SplitOf(e) = all[done + 1]
                   PROVE  \E r \in found : r.entity = e
        BY <3>4, <3>5
      <4>1. e.kind = l.kinds[1]
        BY <2>11, <2>18 DEF Wants
      <4>2. QED BY <4>1, <2>16
    <3>9. \A r \in m.found : r = Row(r.entity, m, ProbeWeights) /\ Wants(m, r.entity) /\ SplitOf(r.entity) = all[done + 1]
      BY <2>14, <3>4, <3>5
    <3>10. Probed(m)
      BY <2>6, <3>6, <3>7, <3>8, <3>9 DEF Probed
    <3>11. m.there = lookup.there /\ m.asked \in Lookups
      BY <2>1, <2>9, <3>4
    <3>12. QED BY <1>1, <3>2, <3>4, <3>10, <3>11, GoesOnMade
  <2>19. CASE Len(l.kinds) <= 1 /\ found # {}
    <3>1. Answer(l, found)
      <4>1. ~(Len(l.kinds) > 1)
        BY <2>9, <2>19
      <4>2. lookup.found \cup {Row(e, lookup, ProbeWeights) : e \in
              {e \in there : /\ e.kind = lookup.kinds[1]
                             /\ [region |-> e.region, realm |-> e.realm, name |-> e.name] = lookup.splits[1]}} = found
        BY <2>1, <2>2, <2>3, <2>4, Zenon
      <4>3. Answer(lookup, found)
        BY <1>3, <4>1, <4>2, <2>1, <2>19, Zenon DEF Probe
      <4>4. QED BY <4>3, <2>1, Zenon
    <3>2. FirstFound(Kinds(l), all, l.there, found)
      <4> SUFFICES ASSUME NEW i \in DOMAIN all, NEW e \in l.there, e.kind \in ToSet(Kinds(l)), SplitOf(e) = all[i]
                   PROVE  \E r \in found : \E j \in 1..i : r.entity.kind \in ToSet(Kinds(l)) /\ SplitOf(r.entity) = all[j]
        BY DEF FirstFound
      <4>1. i \in 1..Len(all) /\ ~(i <= done)
        BY <2>6, <2>10 DEF Wants
      <4>2. done + 1 \in 1..i
        BY <4>1, <2>6, <2>10
      <4>3. PICK r \in found : TRUE
        BY <2>19
      <4>4. r.entity.kind \in ToSet(Kinds(l)) /\ SplitOf(r.entity) = all[done + 1]
        BY <2>14 DEF Wants
      <4>5. QED BY <4>2, <4>4
    <3>3. Answer(lookup, found) /\ AllWanted(lookup, found)
          /\ FirstFound(Kinds(lookup), Splits(lookup.words), lookup.there, found)
      BY <2>1, <2>2, <2>15, <3>1, <3>2
    <3>4. QED BY <1>1, <2>14, <2>15, <3>3, AnswerMade
  <2>20. CASE Len(l.kinds) <= 1 /\ found = {}
    <3>1. PICK stage, rest : stage = (IF Len(l.splits) = 1 THEN "searching" ELSE "probing") /\ rest = Tail(l.splits)
      OBVIOUS
    <3>2. PICK m : m = [l EXCEPT !.at = stage, !.splits = rest, !.kinds = Kinds(l)]
      OBVIOUS
    <3>3. lookup' = m
      BY <1>3, <2>1, <2>2, <2>3, <2>4, <2>9, <2>20, <3>1, <3>2 DEF Probe
    <3>4. rest \in Seq(Readings) /\ Len(rest) = Len(l.splits) - 1 /\ \A j \in 1..Len(rest) : rest[j] = l.splits[j + 1]
      BY <2>6, <2>9, <3>1, HeadTailProperties
    <3>5. Kinds(l) \in Seq(EntityKinds) /\ stage \in {"searching", "probing"}
      BY <2>9, <3>1, KindsGiven
    <3>6. /\ m \in LookupRecords /\ m.at = stage /\ m.asked = l.asked /\ m.words = l.words /\ m.hint = l.hint
          /\ m.there = l.there /\ m.splits = rest /\ m.kinds = Kinds(l) /\ m.found = l.found
      BY <2>9, <3>2, <3>4, <3>5 DEF LookupRecords
    <3>7. Kinds(m) = Kinds(l)
      BY <3>6 DEF Kinds
    <3>8. \A e \in l.there, i \in 1..(done + 1) : Wants(l, e) => SplitOf(e) # all[i]
      <4> SUFFICES ASSUME NEW e \in l.there, NEW i \in 1..(done + 1), Wants(l, e), SplitOf(e) = all[i] PROVE FALSE
        OBVIOUS
      <4>1. i = done + 1
        BY <2>6
      <4>2. e.kind = l.kinds[1]
        <5>1. e.kind \in ToSet(l.kinds)
          BY <4>1, <2>7, <2>17, <2>20
        <5>2. QED BY <5>1, <2>11, <2>20, <2>9
      <4>3. QED BY <4>1, <4>2, <2>16, <2>20
    <3>9. stage = "probing" => Probed(m)
      <4> SUFFICES ASSUME stage = "probing" PROVE Probed(m)
        OBVIOUS
      <4>1. Splits(m.words) = all /\ Len(all) - Len(m.splits) = done + 1 /\ done + 1 \in Nat /\ m.splits # <<>>
        <5>1. Splits(m.words) = all /\ m.splits = rest
          BY <2>2, <3>6
        <5>2. Len(l.splits) # 1 /\ Len(rest) = Len(l.splits) - 1
          BY <3>1, <3>4
        <5>3. Len(all) - Len(rest) = done + 1 /\ done + 1 \in Nat /\ Len(rest) # 0
          <6>1. /\ Len(all) \in Nat /\ Len(l.splits) \in Nat /\ Len(l.splits) >= 1 /\ Len(all) = done + Len(l.splits)
                /\ done \in Nat
            BY <2>6, <2>10
          <6>2. PICK a, b, c : a = Len(all) /\ b = Len(l.splits) /\ c = Len(rest)
            OBVIOUS
          <6>3. a \in Nat /\ b \in Nat /\ b >= 1 /\ a = done + b /\ done \in Nat /\ b # 1 /\ c = b - 1
            BY <5>2, <6>1, <6>2, Zenon
          <6>4. a - c = done + 1 /\ done + 1 \in Nat /\ c # 0
            BY <6>3
          <6>5. QED BY <6>2, <6>4, Zenon
        <5>4. rest # <<>>
          <6>1. Len(<<>>) = 0
            OBVIOUS
          <6>2. QED BY <5>3, <6>1, Zenon
        <5>5. QED BY <5>1, <5>3, <5>4
      <4>2. \A j \in 1..Len(m.splits) : m.splits[j] = all[(done + 1) + j]
        <5> SUFFICES ASSUME NEW j \in 1..Len(rest) PROVE rest[j] = all[(done + 1) + j]
          BY <3>6
        <5>1. j + 1 \in 1..Len(l.splits) /\ rest[j] = l.splits[j + 1]
          BY <2>10, <3>4
        <5>2. l.splits[j + 1] = all[done + (j + 1)]
          BY <5>1, <2>6
        <5>3. done + (j + 1) = (done + 1) + j
          BY <2>6
        <5>4. QED BY <5>1, <5>2, <5>3
      <4>3. \A e \in m.there, i \in 1..(done + 1) : Wants(m, e) => SplitOf(e) # all[i]
        BY <3>6, <3>7, <3>8 DEF Wants
      <4>4. \A e \in m.there : Wants(m, e) => e.kind \in ToSet(m.kinds)
        BY <3>6, <3>7 DEF Wants
      <4>5. m.found = {}
        BY <2>17, <2>20, <3>6
      <4>6. m.kinds = Kinds(m)
        BY <3>6, <3>7
      <4>7. QED BY <4>1, <4>2, <4>3, <4>4, <4>5, <4>6 DEF Probed
    <3>10. stage = "searching" => NothingUnderASplit(m)
      <4> SUFFICES ASSUME stage = "searching" PROVE NothingUnderASplit(m)
        OBVIOUS
      <4>1. DOMAIN all = 1..(done + 1)
        <5>1. Len(l.splits) = 1
          BY <3>1
        <5>2. Len(all) = done + 1 /\ all \in Seq(Readings)
          BY <5>1, <2>10
        <5>3. QED BY <5>2
      <4>2. m.there = l.there /\ Splits(m.words) = all /\ \A e : Wants(m, e) <=> Wants(l, e)
        BY <2>2, <3>6, <3>7 DEF Wants
      <4>3. QED BY <4>1, <4>2, <3>8 DEF NothingUnderASplit
    <3>11. m.there = lookup.there /\ m.asked \in Lookups /\ m.at # "told"
      BY <2>1, <2>9, <3>5, <3>6
    <3>12. QED BY <1>1, <3>3, <3>6, <3>9, <3>10, <3>11, GoesOnMade
  <2>21. Len(l.kinds) \in Nat
    BY <2>9
  <2>22. QED BY <2>18, <2>19, <2>20, <2>21
<1>4. QED BY <1>2, <1>3

LEMMA LookupNextMade == LookupMade /\ [LookupNext]_looked => LookupMade'
<1> SUFFICES ASSUME LookupMade, [LookupNext]_looked PROVE LookupMade'
  OBVIOUS
<1>1. ASSUME NEW e \in Entity, Comes(e) \/ Goes(e) PROVE LookupMade'
  BY <1>1, SurroundingsMade
<1>2. CASE Falters
  <2>1. there' = there /\ lookup' = lookup
    BY <1>2 DEF Falters
  <2>2. LookupHolds'
    BY <2>1 DEF LookupMade, LookupHolds, SureOfALead, FirstSplitFound, KindIsKept, Looked
  <2>3. QED BY <2>1, <2>2 DEF LookupMade
<1>3. CASE LookUp
  BY <1>3, LookUpMade
<1>4. CASE Probe
  BY <1>4, ProbeMade
<1>5. CASE Search
  BY <1>5, SearchMade
<1>6. CASE UNCHANGED looked
  <2>1. there' = there /\ lookup' = lookup
    BY <1>6 DEF looked
  <2>2. LookupHolds'
    BY <2>1 DEF LookupMade, LookupHolds, SureOfALead, FirstSplitFound, KindIsKept, Looked
  <2>3. QED BY <2>1, <2>2 DEF LookupMade
<1>7. QED BY <1>1, <1>2, <1>3, <1>4, <1>5, <1>6 DEF LookupNext

(* For any characters, guilds, queries and readings, whatever comes and     *)
(* goes while a query is looked up: resolve is sure only of a row that      *)
(* leads, the first reading under which something exists is found, and the  *)
(* kind asked for is kept to.                                               *)
THEOREM LookupAlwaysHolds == LookupSpec => []LookupHolds
<1>1. LookupMade => LookupHolds
  BY DEF LookupMade
<1>2. QED BY <1>1, LookupInitMade, LookupNextMade, PTL DEF LookupSpec

-----------------------------------------------------------------------------
(* Samples of the boards.                                                   *)

(* A page is of the board it was asked for, of some season if it was asked  *)
(* for without one, and never says it is of another.                        *)
PageTrue(p) ==
  /\ p.says \in {p.board, None}
  /\ IF p.key.board = None THEN p.board \in Season ELSE p.board = p.key.board /\ p.board \in Board

(* What a sample knows of the pages it has read: with a season pinned they  *)
(* are all of it, without one there is at most one.                         *)
OfOneSeason(s) ==
  /\ s.read = <<>> => s.season = s.ask.board
  /\ s.season = None => Len(s.read) <= 1
  /\ s.season # None => \A i \in DOMAIN s.read : s.read[i].board = s.season
  /\ \A i \in DOMAIN s.read : s.read[i].board \in Season

OfItsRaid(s) == s.season = s.ask.board /\ (s.read # <<>> /\ s.season # None => s.season \in Board)

SampleMade(s) ==
  /\ DOMAIN s = DOMAIN NoSampling /\ s.at \in {"idle", "reading", "blaming", "told", "failed"}
  /\ (\E S : s.read \in Seq(S)) /\ s.offset = Len(s.read)
  /\ s.at # "idle" => s.ask \in Asks
  /\ s.at \in {"reading", "told"} => IF OfRaid(s.ask) THEN OfItsRaid(s) ELSE OfOneSeason(s)
  /\ s.at = "told" => s.read # <<>>
  /\ s.at = "blaming" => s.read = <<>> /\ (s.ask.board \in Board => s.refused = "down")
  /\ s.at = "failed" =>
       /\ s.code = "invalid_query" => s.read = <<>> /\ (s.ask.board \in Board => s.refused = "down")
       /\ s.code = "upstream_error" => s.refused = "down"

BoardsMade == current \in Season /\ (\A p \in saved : PageTrue(p)) /\ SampleMade(sampling)

LEMMA SampleTells == SampleMade(sampling) => OneSeason /\ BlameHolds
<1> SUFFICES ASSUME SampleMade(sampling) PROVE OneSeason /\ BlameHolds
  OBVIOUS
<1>1. OneSeason
  <2> SUFFICES ASSUME Told, ~OfRaid(sampling.ask)
               PROVE  \E s \in Season : /\ sampling.season \in {s, None}
                                        /\ \A i \in DOMAIN sampling.read : sampling.read[i].board = s
    BY DEF OneSeason
  <2>1. OfOneSeason(sampling) /\ sampling.read # <<>> /\ \E S : sampling.read \in Seq(S)
    BY DEF SampleMade, Told
  <2>2. 1 \in DOMAIN sampling.read /\ DOMAIN sampling.read = 1..Len(sampling.read) /\ Len(sampling.read) \in Nat
    BY <2>1
  <2>3. \A i \in DOMAIN sampling.read : sampling.read[i].board = sampling.read[1].board
    <3>1. CASE sampling.season = None
      BY <3>1, <2>1, <2>2 DEF OfOneSeason
    <3>2. CASE sampling.season # None
      BY <3>2, <2>1, <2>2 DEF OfOneSeason
    <3>3. QED BY <3>1, <3>2
  <2>4. sampling.read[1].board \in Season /\ sampling.season \in {sampling.read[1].board, None}
    BY <2>1, <2>2 DEF OfOneSeason
  <2>5. QED BY <2>3, <2>4
<1>2. BlameHolds
  BY DEF BlameHolds, Failed, SampleMade
<1>3. QED BY <1>1, <1>2

(* The answers of the site.                                                 *)
LEMMA AnswersTrue ==
  ASSUME current \in Season, NEW key, Served(key) \in Board, NEW p \in Answers(key)
  PROVE  PageTrue(p) /\ p.key = key
<1>1. p.key = key /\ p.board = Served(key) /\ p.says \in {p.board, None}
  BY DEF Answers
<1>2. QED BY <1>1 DEF PageTrue, Served

(* One page more.                                                           *)
LEMMA PageRead ==
  ASSUME SampleMade(sampling), sampling.at = "reading", NEW p, NEW hit,
         PageTrue(p), p.key = Key(sampling), sampling.offset > 0 => sampling.season # None,
         Reads(p, hit)
  PROVE  SampleMade(sampling')
<1> DEFINE s == sampling
           m == sampling'
           season == IF p.says # None /\ ~OfRaid(s.ask) THEN p.says ELSE s.season
           e == [at |-> p.at, board |-> p.board, hit |-> hit, rows |-> Len(p.rows)]
<1>1. PICK S : s.read \in Seq(S)
  BY DEF SampleMade
<1>2. /\ DOMAIN s = DOMAIN NoSampling /\ s.ask \in Asks /\ s.offset = Len(s.read) /\ Len(s.read) \in Nat
      /\ IF OfRaid(s.ask) THEN OfItsRaid(s) ELSE OfOneSeason(s)
  BY <1>1 DEF SampleMade
<1>3. DOMAIN NoSampling = {"at", "ask", "offset", "season", "rows", "repeats", "read", "code", "refused", "count"}
  BY DEF NoSampling
<1>4. p.key.board = s.season
  BY DEF Key, Pinned
<1>5. CASE s.season # None /\ season # s.season
  <2>1. m = [s EXCEPT !.at = "failed", !.code = "invalid_response", !.refused = IF down THEN "down" ELSE @]
    BY <1>5 DEF Reads, Ends
  <2>2. /\ DOMAIN m = DOMAIN s /\ m.at = "failed" /\ m.code = "invalid_response" /\ m.read = s.read
        /\ m.offset = s.offset /\ m.ask = s.ask
    BY <2>1, <1>2, <1>3
  <2>3. QED BY <2>2, <1>1, <1>2 DEF SampleMade
<1>6. CASE ~(s.season # None /\ season # s.season)
  <2>1. /\ DOMAIN m = DOMAIN s /\ m.at \in {"told", "reading"} /\ m.offset = s.offset + 1 /\ m.season = season
        /\ m.read = Append(s.read, e) /\ m.ask = s.ask
    BY <1>6, <1>2, <1>3 DEF Reads
  <2> HIDE DEF e
  <2>2. /\ m.read \in Seq(S \cup {e}) /\ Len(m.read) = Len(s.read) + 1 /\ m.read # <<>>
        /\ DOMAIN m.read = 1..(Len(s.read) + 1) /\ DOMAIN s.read = 1..Len(s.read)
        /\ \A i \in 1..Len(s.read) : m.read[i] = s.read[i]
        /\ m.read[Len(s.read) + 1] = e
    <3>1. s.read \in Seq(S \cup {e}) /\ e \in S \cup {e}
      BY <1>1
    <3> DEFINE T == S \cup {e}
    <3> HIDE DEF T
    <3>2. s.read \in Seq(T) /\ e \in T
      BY <3>1 DEF T
    <3>3. QED BY <3>2, <2>1, AppendFacts DEF T
  <2>3. e.board = p.board
    BY DEF e
  <2>4. OfRaid(m.ask) => OfItsRaid(m)
    <3> SUFFICES ASSUME OfRaid(s.ask) PROVE OfItsRaid(m)
      BY <2>1
    <3>1. m.season = s.season /\ s.season = s.ask.board
      BY <2>1, <1>2 DEF OfItsRaid
    <3>2. QED BY <3>1, <2>1, <1>4 DEF OfItsRaid, PageTrue
  <2>5. ~OfRaid(m.ask) => OfOneSeason(m)
    <3> SUFFICES ASSUME ~OfRaid(s.ask) PROVE OfOneSeason(m)
      BY <2>1
    <3>1. OfOneSeason(s)
      BY <1>2
    <3>2. p.board \in Season
      <4>1. CASE s.season = None
        BY <4>1, <1>4 DEF PageTrue
      <4>2. CASE s.season # None /\ s.read = <<>>
        <5>1. p.board = s.ask.board /\ p.board \in Board
          BY <4>2, <3>1, <1>4 DEF PageTrue, OfOneSeason
        <5>2. s.ask.board # Raid
          BY <1>2, LeaderboardAssumption DEF OfRaid
        <5>3. QED BY <5>1, <5>2 DEF Board
      <4>3. CASE s.season # None /\ s.read # <<>>
        <5>1. 1 \in DOMAIN s.read
          BY <4>3, <1>1
        <5>2. QED BY <4>3, <5>1, <3>1, <1>4 DEF PageTrue, OfOneSeason
      <4>4. QED BY <4>1, <4>2, <4>3
    <3>3. s.season # None => season = s.season /\ p.board = s.season
      BY <1>6, <1>4 DEF PageTrue
    <3>4. s.season = None => Len(s.read) = 0 /\ season \in {p.board, None}
      BY <1>2, <1>6 DEF PageTrue
    <3> HIDE DEF season
    <3>5. m.season = None => Len(m.read) <= 1
      BY <3>3, <3>4, <2>1, <2>2
    <3>6. m.season # None => \A i \in DOMAIN m.read : m.read[i].board = m.season
      BY <3>1, <3>3, <3>4, <2>1, <2>2, <2>3, <1>2 DEF OfOneSeason
    <3>7. \A i \in DOMAIN m.read : m.read[i].board \in Season
      BY <3>1, <3>2, <2>2, <2>3, <1>2 DEF OfOneSeason
    <3>8. QED BY <3>5, <3>6, <3>7, <2>2 DEF OfOneSeason
  <2> HIDE DEF season
  <2>6. QED BY <2>1, <2>2, <2>4, <2>5, <1>2 DEF SampleMade
<1>7. QED BY <1>5, <1>6

(* A request that fails.                                                    *)
LEMMA RefusalMade ==
  ASSUME SampleMade(sampling), sampling.at = "reading", current \in Season,
         down \/ Served(Key(sampling)) \notin Board, Refused(Key(sampling))
  PROVE  SampleMade(sampling')
<1> DEFINE s == sampling
           m == sampling'
           key == Key(sampling)
<1>1. PICK S : s.read \in Seq(S)
  BY DEF SampleMade
<1>2. /\ DOMAIN s = DOMAIN NoSampling /\ s.ask \in Asks /\ s.offset = Len(s.read) /\ Len(s.read) \in Nat
      /\ IF OfRaid(s.ask) THEN OfItsRaid(s) ELSE OfOneSeason(s)
  BY <1>1 DEF SampleMade
<1>3. DOMAIN NoSampling = {"at", "ask", "offset", "season", "rows", "repeats", "read", "code", "refused", "count"}
  BY DEF NoSampling
<1>4. key.board = s.season /\ key.page = s.ask.first + s.offset /\ s.ask.first \in Nat
  BY <1>2, LeaderboardAssumption DEF Key, Pinned
<1>5. ~down => s.season # None /\ s.season \notin Board
  <2>1. Season \subseteq Board
    BY DEF Board
  <2>2. QED BY <2>1, <1>4 DEF Served
<1>6. ~down => s.read = <<>> /\ s.ask.board \notin Board
  <2> SUFFICES ASSUME ~down PROVE s.read = <<>> /\ s.ask.board \notin Board
    OBVIOUS
  <2>1. CASE OfRaid(s.ask)
    BY <2>1, <1>2, <1>5 DEF OfItsRaid
  <2>2. CASE ~OfRaid(s.ask)
    <3>1. OfOneSeason(s)
      BY <2>2, <1>2
    <3>2. s.read = <<>>
      <4> SUFFICES ASSUME s.read # <<>> PROVE FALSE
        OBVIOUS
      <4>1. 1 \in DOMAIN s.read
        BY <1>1
      <4>2. s.read[1].board = s.season /\ s.read[1].board \in Season
        BY <4>1, <3>1, <1>5 DEF OfOneSeason
      <4>3. QED BY <4>2, <1>5 DEF Board
    <3>3. QED BY <3>1, <3>2, <1>5 DEF OfOneSeason
  <2>3. QED BY <2>1, <2>2
<1> HIDE DEF key
<1>7. ASSUME NEW code, Ends(code),
             code = "invalid_query" => ~down,
             code = "upstream_error" => down
      PROVE  SampleMade(m)
  <2>1. m = [s EXCEPT !.at = "failed", !.code = code, !.refused = IF down THEN "down" ELSE @]
    BY <1>7 DEF Ends
  <2>2. /\ DOMAIN m = DOMAIN s /\ m.at = "failed" /\ m.code = code /\ m.read = s.read /\ m.offset = s.offset
        /\ m.ask = s.ask /\ (down => m.refused = "down")
    BY <2>1, <1>2, <1>3
  <2>3. QED BY <2>2, <1>1, <1>2, <1>6, <1>7 DEF SampleMade
<1>8. ASSUME m = [s EXCEPT !.at = "blaming", !.refused = IF down THEN "down" ELSE "up"], key.page = s.ask.first
      PROVE  SampleMade(m)
  <2>1. /\ DOMAIN m = DOMAIN s /\ m.at = "blaming" /\ m.read = s.read /\ m.offset = s.offset
        /\ m.ask = s.ask /\ (down => m.refused = "down")
    BY <1>8, <1>2, <1>3
  <2>2. s.read = <<>>
    <3>1. Len(s.read) = 0
      BY <1>2, <1>4, <1>8
    <3>2. QED BY <3>1, <1>1
  <2>3. QED BY <2>1, <2>2, <1>1, <1>2, <1>6 DEF SampleMade
<1>9. PICK error \in (IF down THEN {"500", "other"} ELSE IF OfRaid(s.ask) THEN {"400"} ELSE {"500"}) :
        IF OfRaid(s.ask) THEN Ends(IF error = "400" THEN "invalid_query" ELSE "upstream_error")
        ELSE IF error # "500" \/ key.board = None \/ key.page # s.ask.first THEN Ends("upstream_error")
        ELSE m = [s EXCEPT !.at = "blaming", !.refused = IF down THEN "down" ELSE "up"]
  BY DEF Refused, key
<1>10. CASE OfRaid(s.ask)
  <2>1. CASE down
    BY <2>1, <1>9, <1>10, <1>7
  <2>2. CASE ~down
    BY <2>2, <1>9, <1>10, <1>7
  <2>3. QED BY <2>1, <2>2
<1>11. CASE ~OfRaid(s.ask)
  <2>1. CASE error # "500" \/ key.board = None \/ key.page # s.ask.first
    <3>1. down
      <4> SUFFICES ASSUME ~down PROVE FALSE
        OBVIOUS
      <4>1. error = "500" /\ key.board # None
        BY <1>5, <1>4, <1>9, <1>11
      <4>2. s.offset = 0 /\ key.page = s.ask.first
        BY <1>6, <1>2, <1>4
      <4>3. QED BY <4>1, <4>2, <2>1
    <3>2. QED BY <3>1, <2>1, <1>9, <1>11, <1>7
  <2>2. CASE ~(error # "500" \/ key.board = None \/ key.page # s.ask.first)
    BY <2>2, <1>9, <1>11, <1>8
  <2>3. QED BY <2>1, <2>2
<1>12. QED BY <1>10, <1>11

LEMMA PageStepMade == BoardsMade /\ ReadPage => BoardsMade'
<1> SUFFICES ASSUME BoardsMade, ReadPage PROVE BoardsMade'
  OBVIOUS
<1> DEFINE key == Key(sampling)
<1>1. current' = current /\ sampling.at = "reading" /\ SampleMade(sampling) /\ current \in Season
  BY DEF ReadPage, site, BoardsMade
<1>2. CASE /\ sampling.offset > 0 /\ sampling.season = None
           /\ Ends("invalid_response") /\ UNCHANGED saved
  <2>1. sampling' = [sampling EXCEPT !.at = "failed", !.code = "invalid_response", !.refused = IF down THEN "down" ELSE @]
    BY <1>2 DEF Ends
  <2>2. /\ DOMAIN sampling' = DOMAIN sampling /\ sampling'.at = "failed" /\ sampling'.code = "invalid_response"
        /\ sampling'.read = sampling.read /\ sampling'.offset = sampling.offset /\ sampling'.ask = sampling.ask
    BY <2>1, <1>1 DEF SampleMade, NoSampling
  <2>3. SampleMade(sampling')
    BY <2>2, <1>1 DEF SampleMade
  <2>4. QED BY <2>3, <1>1, <1>2 DEF BoardsMade
<1>3. CASE /\ sampling.offset > 0 => sampling.season # None
           /\ \E p \in Live(key) : Reads(p, TRUE) /\ UNCHANGED saved
  <2>1. PICK p \in Live(key) : Reads(p, TRUE) /\ saved' = saved
    BY <1>3
  <2>2. PageTrue(p) /\ p.key = key
    BY DEF Live, BoardsMade
  <2>3. SampleMade(sampling')
    BY <2>1, <2>2, <1>1, <1>3, PageRead
  <2>4. QED BY <2>1, <2>3, <1>1 DEF BoardsMade
<1>4. CASE (down \/ Served(key) \notin Board) /\ Refused(key) /\ UNCHANGED saved
  <2>1. SampleMade(sampling')
    BY <1>1, <1>4, RefusalMade
  <2>2. QED BY <2>1, <1>1, <1>4 DEF BoardsMade
<1>5. CASE /\ sampling.offset > 0 => sampling.season # None
           /\ Served(key) \in Board /\ \E p \in Answers(key) : Reads(p, FALSE) /\ Save(p)
  <2>1. PICK p \in Answers(key) : Reads(p, FALSE) /\ Save(p)
    BY <1>5
  <2> HIDE DEF key
  <2>2. PageTrue(p) /\ p.key = key
    BY <1>1, <1>5, AnswersTrue
  <2>3. SampleMade(sampling')
    BY <2>1, <2>2, <1>1, <1>5, PageRead DEF key
  <2>4. \A o \in saved' : PageTrue(o)
    BY <2>1, <2>2 DEF Save, BoardsMade
  <2>5. QED BY <2>3, <2>4, <1>1 DEF BoardsMade
<1>6. QED BY <1>2, <1>3, <1>4, <1>5 DEF ReadPage

LEMMA BlameMade == BoardsMade /\ BlameTheSeason => BoardsMade'
<1> SUFFICES ASSUME BoardsMade, BlameTheSeason PROVE BoardsMade'
  OBVIOUS
<1>1. current' = current /\ sampling.at = "blaming" /\ SampleMade(sampling) /\ current \in Season
  BY DEF BlameTheSeason, site, BoardsMade
<1>2. ASSUME NEW code, Ends(code), code \in {"invalid_query", "upstream_error"}, code = "upstream_error" => down
      PROVE  SampleMade(sampling')
  <2>1. sampling' = [sampling EXCEPT !.at = "failed", !.code = code, !.refused = IF down THEN "down" ELSE @]
    BY <1>2 DEF Ends
  <2>2. /\ DOMAIN sampling' = DOMAIN sampling /\ sampling'.at = "failed" /\ sampling'.code = code
        /\ sampling'.read = sampling.read /\ sampling'.offset = sampling.offset /\ sampling'.ask = sampling.ask
        /\ sampling'.refused \in {"down", sampling.refused} /\ (down => sampling'.refused = "down")
    BY <2>1, <1>1 DEF SampleMade, NoSampling
  <2>3. QED BY <2>2, <1>1, <1>2 DEF SampleMade
<1>3. CASE down /\ Ends("upstream_error") /\ UNCHANGED saved
  BY <1>1, <1>2, <1>3 DEF BoardsMade
<1>4. CASE ~down /\ Ends("invalid_query") /\ \E p \in Answers([board |-> None, page |-> 0]) : Save(p)
  <2> DEFINE key == [board |-> None, page |-> 0]
  <2>1. PICK p \in Answers(key) : Save(p)
    BY <1>4
  <2>2. Served(key) \in Board
    BY <1>1 DEF Served, Board
  <2> HIDE DEF key
  <2>3. PageTrue(p)
    BY <1>1, <2>2, AnswersTrue
  <2>4. \A o \in saved' : PageTrue(o)
    BY <2>1, <2>3 DEF Save, BoardsMade
  <2>5. QED BY <2>4, <1>1, <1>2, <1>4 DEF BoardsMade
<1>5. QED BY <1>3, <1>4 DEF BlameTheSeason

LEMMA BoardsInitMade == BoardsInit => BoardsMade
<1> SUFFICES ASSUME BoardsInit PROVE BoardsMade
  OBVIOUS
<1>1. current \in Season /\ saved = {} /\ sampling = NoSampling
  BY DEF BoardsInit
<1>2. <<>> \in Seq(Nat) /\ Len(<<>>) = 0
  OBVIOUS
<1>3. SampleMade(NoSampling)
  BY <1>2 DEF SampleMade, NoSampling
<1>4. QED BY <1>1, <1>3 DEF BoardsMade

LEMMA BoardsNextMade == BoardsMade /\ [BoardsNext]_sampled => BoardsMade'
<1> SUFFICES ASSUME BoardsMade, [BoardsNext]_sampled PROVE BoardsMade'
  OBVIOUS
<1>1. CASE \/ UNCHANGED sampled \/ SeasonEnds \/ Fails
           \/ \E e \in Entry, b \in Board : Enters(e, b)
  <2>1. current' \in Season /\ saved' = saved /\ sampling' = sampling
    BY <1>1 DEF sampled, SeasonEnds, Fails, Enters, Changed, BoardsMade
  <2>2. QED BY <2>1 DEF BoardsMade
<1>2. CASE Ask
  <2>1. PICK q \in Asks :
          sampling' = [NoSampling EXCEPT !.at = "reading", !.ask = q, !.season = q.board, !.count = sampling.count + 1]
    BY <1>2 DEF Ask
  <2>2. /\ DOMAIN sampling' = DOMAIN NoSampling /\ sampling'.at = "reading" /\ sampling'.ask = q
        /\ sampling'.season = q.board /\ sampling'.read = <<>> /\ sampling'.offset = 0
    <3>1. /\ DOMAIN NoSampling = {"at", "ask", "offset", "season", "rows", "repeats", "read", "code", "refused", "count"}
          /\ NoSampling.read = <<>> /\ NoSampling.offset = 0
      BY DEF NoSampling
    <3>2. QED BY <2>1, <3>1
  <2>3. <<>> \in Seq(Nat) /\ Len(<<>>) = 0
    OBVIOUS
  <2>4. SampleMade(sampling')
    BY <2>2, <2>3 DEF SampleMade, OfItsRaid, OfOneSeason
  <2>5. current' = current /\ saved' = saved
    BY <1>2 DEF Ask, site
  <2>6. QED BY <2>4, <2>5 DEF BoardsMade
<1>3. CASE ReadPage
  BY <1>3, PageStepMade
<1>4. CASE BlameTheSeason
  BY <1>4, BlameMade
<1>5. QED BY <1>1, <1>2, <1>3, <1>4 DEF BoardsNext

(* For any seasons, boards and commands, whatever enters the boards, ends   *)
(* or fails between two requests, and however old the cached pages are: a   *)
(* told sample is of one season, the one it names, a season is called       *)
(* unknown only on the terms of BlameHolds, and an outage is never invented *)
(* (the first and the fourth part of BoardsHold; analytics.py:              *)
(* sample_leaderboard_runs, _runs_page).                                    *)
THEOREM SamplesNameTheirSeason == BoardsSpec => [](OneSeason /\ BlameHolds)
<1>1. BoardsMade => OneSeason /\ BlameHolds
  BY SampleTells DEF BoardsMade
<1>2. QED BY <1>1, BoardsInitMade, BoardsNextMade, PTL DEF BoardsSpec
=============================================================================
