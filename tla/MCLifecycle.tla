---------------------------- MODULE MCLifecycle -----------------------------
(***************************************************************************)
(* Lifecycle with few descriptors.                                         *)
(***************************************************************************)
EXTENDS Lifecycle
=============================================================================
