----------------------------- MODULE MCLifecycle -----------------------------
(* The bounds of the runs are in their configurations. *)
EXTENDS Lifecycle
=============================================================================
