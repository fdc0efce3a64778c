---------------------------- MODULE MCLifecycle ----------------------------
(***************************************************************************)
(* Instances of Lifecycle for TLC.  Every constant is a number or a flag,  *)
(* given in the .cfg; MaxQueue bounds the only counter that could grow.    *)
(***************************************************************************)
EXTENDS Lifecycle
=============================================================================
