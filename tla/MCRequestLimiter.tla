-------------------------- MODULE MCRequestLimiter --------------------------
(***************************************************************************)
(* A small instance of RequestLimiter for TLC.                              *)
(***************************************************************************)
EXTENDS RequestLimiter, TLC

CONSTANTS k1, k2, w1, w2

MCSymmetry == Permutations(Keys) \union Permutations(Workers)
=============================================================================
