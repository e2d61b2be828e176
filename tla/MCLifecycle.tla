---------------------------- MODULE MCLifecycle -----------------------------
(* Model checking of Lifecycle on one connection. *)
EXTENDS Lifecycle
=============================================================================
