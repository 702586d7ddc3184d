---------------------------- MODULE MCLifecycle ----------------------------
(* Model-checking instance of Lifecycle: the times are in MCLifecycle*.cfg. *)
EXTENDS Lifecycle
=============================================================================
