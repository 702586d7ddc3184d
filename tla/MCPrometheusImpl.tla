-------------------------- MODULE MCPrometheusImpl --------------------------
(* Model-checking instance of PrometheusImpl. *)
EXTENDS PrometheusImpl
=============================================================================
