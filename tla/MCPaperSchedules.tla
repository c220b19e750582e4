-------------------------- MODULE MCPaperSchedules --------------------------
(* PaperSchedules for TLC. *)
EXTENDS PaperSchedules

(* All schedules share a market. *)
OneMarket == [s \in Schedules |-> "btc"]
=============================================================================
