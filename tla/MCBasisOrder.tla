---------------------------- MODULE MCBasisOrder ----------------------------
(* The instances TLC checks: their bounds are the CONSTANTS of the cfg files. *)
EXTENDS BasisOrder
=============================================================================
