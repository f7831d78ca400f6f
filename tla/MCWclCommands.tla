--------------------------- MODULE MCWclCommands ---------------------------
(* Two users of the retail site and one of the classic site; a report that *)
(* can pause for Quiet and go on; the same command twice.                  *)
EXTENDS WclReads, TLC

CONSTANTS a, b, c
MCAccount == {a, b, c}
MCSiteOf == [account \in MCAccount |-> IF account = c THEN "classic" ELSE "retail"]
Alike == Permutations({a, b})
(* (The aura and damage summaries read as report_encounter_buffs does.)     *)
MCPlan ==
  [command \in
    {"auth_status", "auth_whoami", "rate_limit", "regions", "expansions",
     "server", "zones", "zone", "encounter", "encounter_rankings", "guild",
     "guild_native", "guild_rankings", "guild_members", "guild_attendance",
     "character", "character_native", "character_rankings", "report",
     "reports", "guild_reports", "report_encounter",
     "report_encounter_players", "report_player_talents",
     "report_encounter_casts", "report_encounter_buffs",
     "report_encounter_aura_compare", "report_encounter_damage_breakdown",
     "report_fights", "graphql", "report_events",
     "report_table", "report_graph", "report_master_data",
     "report_player_details", "report_rankings"} |->
      CASE command = "auth_status" -> auth_status
        [] command = "auth_whoami" -> auth_whoami
        [] command = "rate_limit" -> rate_limit
        [] command = "regions" -> regions
        [] command = "expansions" -> expansions
        [] command = "server" -> server
        [] command = "zones" -> zones
        [] command = "zone" -> zone
        [] command = "encounter" -> encounter
        [] command = "encounter_rankings" -> encounter_rankings
        [] command = "guild" -> guild
        [] command = "guild_native" -> guild_native
        [] command = "guild_rankings" -> guild_rankings
        [] command = "guild_members" -> guild_members
        [] command = "guild_attendance" -> guild_attendance
        [] command = "character" -> character
        [] command = "character_native" -> character_native
        [] command = "character_rankings" -> character_rankings
        [] command = "report" -> report
        [] command = "reports" -> reports
        [] command = "guild_reports" -> guild_reports
        [] command = "report_encounter" -> report_encounter
        [] command = "report_encounter_players" -> report_encounter_players
        [] command = "report_player_talents" -> report_player_talents
        [] command = "report_encounter_casts" -> report_encounter_casts
        [] command = "report_encounter_buffs" -> report_encounter_buffs
        [] command = "report_encounter_aura_compare" -> report_encounter_aura_compare
        [] command = "report_encounter_damage_breakdown" -> report_encounter_damage_breakdown
        [] command = "report_fights" -> report_fights
        [] command = "graphql" -> graphql
        [] command = "report_events" -> report_events
        [] command = "report_table" -> report_table
        [] command = "report_graph" -> report_graph
        [] command = "report_master_data" -> report_master_data
        [] command = "report_player_details" -> report_player_details
        [] command = "report_rankings" -> report_rankings]
(* Every read is watched in one command at least, the last of every command.*)
LastRead(plan) ==
  LET reads == {i \in DOMAIN plan : plan[i].read # "-"}
  IN plan[CHOOSE i \in reads : \A j \in reads : j <= i].read
MCWatch == [command \in DOMAIN MCPlan |-> {LastRead(MCPlan[command])}]

(* The report grows while the public endpoint is asked; where either        *)
(* endpoint may be asked, no read goes wrong; only graphql has --cache-ttl. *)
MCNext ==
  /\ Next
  /\ grown' # grown => run.policy = "client"
  /\ troubles' # troubles => run.policy # "auto"
  /\ run'.keep > 0 => run'.command = "graphql"
MCSpec == Init /\ [][MCNext]_vars
=============================================================================
