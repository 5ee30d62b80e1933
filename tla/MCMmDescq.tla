---------------------------- MODULE MCMmDescq ----------------------------
(* An instance of MmDescq for TLC. *)
EXTENDS MmDescq, TLC

CONSTANTS r1, r2

\* A request larger than the ring's two usable slots and a single descriptor.
MCNeed == (r1 :> 3) @@ (r2 :> 1)
==========================================================================
