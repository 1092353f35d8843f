------------------------- MODULE MCInstanceLifecycle -------------------------
(* The module TLC starts from: the lifecycle, with the invariant its proofs *)
(* use.  There is no symmetry set: the instances check liveness, for which  *)
(* symmetry is unsound.                                                     *)
EXTENDS InstanceLifecycleInvariant
==============================================================================
