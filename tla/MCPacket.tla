------------------------------ MODULE MCPacket ------------------------------
(* One cooldown packet: two actors of one name among three, two spells and  *)
(* an external, a fight of six seconds with up to three phases.             *)
EXTENDS CooldownPacket, TLC

CONSTANTS frost, frostMage, frostDk, fury, mage, dk, warrior, blink, orb, infusion

MCSpelling == (frost :> {frostMage, frostDk}) @@ (frostMage :> {frostMage}) @@ (frostDk :> {frostDk}) @@ (fury :> {fury})
MCClassOf == (frostMage :> mage) @@ (frostDk :> dk) @@ (fury :> warrior)

Flags == [ref |-> "fight", by |-> "id", actor |-> 1, phase |-> 2, spec |-> None, boss |-> None, difficulty |-> None,
        limit |-> 2, spells |-> {}]
MCWanted ==
  {Flags, [Flags EXCEPT !.ref = "invalid"], [Flags EXCEPT !.ref = "no fight"], [Flags EXCEPT !.by = "nothing"],
   [Flags EXCEPT !.by = "name", !.actor = "Ann"], [Flags EXCEPT !.by = "name", !.actor = "Bo", !.phase = 1],
   [Flags EXCEPT !.actor = 2, !.spec = frost], [Flags EXCEPT !.actor = 9], [Flags EXCEPT !.by = "name", !.actor = "Eve"],
   [Flags EXCEPT !.spec = fury], [Flags EXCEPT !.phase = 3, !.limit = 1], [Flags EXCEPT !.limit = 0],
   [Flags EXCEPT !.boss = "boss", !.difficulty = "mythic", !.phase = 1], [Flags EXCEPT !.spells = {infusion, blink}]}

Ann == [id |-> 1, name |-> "Ann", class |-> mage, spec |-> frostMage]
Bo == [id |-> 2, name |-> "Bo", class |-> dk, spec |-> None]
Bo2 == [id |-> 3, name |-> "Bo", class |-> warrior, spec |-> fury]
Nameless == [id |-> None, name |-> "Ann", class |-> None, spec |-> frostMage]

Fight == [why |-> "-", players |-> {Ann, Bo}, markers |-> {2, 4}, length |-> 6, boss |-> "boss",
          deaths |-> [i \in 1..3 |-> {3}]]
Missing == [Fight EXCEPT !.players = {}, !.markers = {}, !.boss = None]
MCLorrgsFights ==
  {Fight, [Fight EXCEPT !.markers = {}, !.boss = None], [Fight EXCEPT !.markers = {0, 3, 7}, !.length = Open],
   [Fight EXCEPT !.players = {Nameless, Bo, Bo2}]}
   \cup {[Missing EXCEPT !.why = y] :
           y \in {"lorrgs_fight_lookup_failed", "lorrgs_fight_not_found", "lorrgs_fight_has_no_players"}}
MCWclFights ==
  {[why |-> "-", ranked |-> TRUE, boss |-> "boss"], [why |-> "-", ranked |-> FALSE, boss |-> None]}
   \cup {[why |-> y, ranked |-> FALSE, boss |-> None] :
           y \in {"warcraftlogs_fights_failed", "fight_not_found", "fight_start_missing"}}
MCRosters == {{Ann, Bo, Bo2}, {Ann, Bo}}

Visit(t, i) == [at |-> t, id |-> i]
MCTransitions ==
  {[visits |-> {Visit(0, 1)}, length |-> 6], [visits |-> {Visit(0, 1), Visit(2, 2), Visit(4, 1)}, length |-> 6],
   [visits |-> {Visit(0, 1), Visit(3, 3)}, length |-> Open]}
MCCatalogs == {{}, {orb, blink, infusion}, {blink}}

C(s, t) == [kind |-> "cast", by |-> 1, spell |-> s, at |-> t]
AllCasts == {C(blink, 1), C(blink, 2), C(infusion, 3), [C(infusion, 4) EXCEPT !.by = 2],
             [C(blink, 4) EXCEPT !.kind = "begincast"]}
Page(all, page, more, warned) == [all |-> all, page |-> page, more |-> more, warned |-> warned]
Early(es) == {e \in es : e.at < 3}
MCCastPages ==
  {Page(AllCasts, AllCasts, FALSE, FALSE), Page(AllCasts, Early(AllCasts), TRUE, FALSE),
   Page(AllCasts, Early(AllCasts), FALSE, TRUE), Page(Early(AllCasts), Early(AllCasts), FALSE, FALSE),
   Page(AllCasts \ {C(infusion, 3)}, AllCasts \ {C(infusion, 3)}, FALSE, FALSE)}

S(s, t) == [spell |-> s, at |-> t]
Top == [analyzed |-> FALSE, player |-> TRUE, markers |-> {2, 4}, length |-> 6, unread |-> FALSE,
        visits |-> {Visit(0, 1), Visit(2, 2), Visit(4, 1)}, casts |-> {S(blink, 1), S(blink, 3), S(infusion, 3), S(orb, 5)}]
Plain == [Top EXCEPT !.markers = {}, !.visits = {}]
Other == [Top EXCEPT !.markers = {3}, !.visits = {Visit(0, 1), Visit(2, 3)}]
Own == [Top EXCEPT !.analyzed = TRUE]
MCRankings ==
  {<<>>, <<Top>>, <<Own, Top, Plain>>, <<Other, Top, Own>>, <<Plain, [Top EXCEPT !.player = FALSE]>>,
   <<[Top EXCEPT !.unread = TRUE], Plain>>, <<Plain, Other>>, <<Other, Other>>}
=============================================================================
