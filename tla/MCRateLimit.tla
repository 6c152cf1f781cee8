----------------------------- MODULE MCRateLimit -----------------------------
(* Instances of RateLimit for TLC. *)
EXTENDS RateLimit, TLC

CONSTANTS
  near, far,  \* two addresses in one chain
  zero        \* one in chain 0

MCAddresses == {near, far, zero}
MCHash == (near :> 1) @@ (far :> 1) @@ (zero :> 0) @@ (NoAddress :> 0)
MCSymmetry == Permutations({near, far})
=============================================================================
