---------------------------- MODULE MCSemaphores ----------------------------
(***************************************************************************)
(* Instances of the semaphores for TLC: the constants are in the cfgs.     *)
(***************************************************************************)
EXTENDS SemaphoreProperties, TLC

\* The processes do the same: an invariant cannot tell them apart.
Symmetry == Permutations(Procs)
=============================================================================
