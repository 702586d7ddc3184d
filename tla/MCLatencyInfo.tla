--------------------------- MODULE MCLatencyInfo ---------------------------
(* Model-checking instance of LatencyInfo. *)
EXTENDS LatencyInfo
=============================================================================
