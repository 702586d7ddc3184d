-------------------------- MODULE MCStatsRefresher --------------------------
(* Model-checking instance of StatsRefresher. *)
EXTENDS StatsRefresher
=============================================================================
