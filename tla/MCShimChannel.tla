--------------------------- MODULE MCShimChannel ---------------------------
(***************************************************************************)
(* Instances of ShimChannel for TLC.  Connections are interchangeable.      *)
(***************************************************************************)
EXTENDS ShimChannel, TLC

ConnSymmetry == Permutations(Conns)
=============================================================================
