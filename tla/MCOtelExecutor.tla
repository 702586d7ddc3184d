--------------------------- MODULE MCOtelExecutor ---------------------------
(* Model-checking instance of OtelExecutor. *)
EXTENDS OtelExecutor
=============================================================================
