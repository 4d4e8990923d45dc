---------------------------- MODULE MCRateLimit ----------------------------
(***************************************************************************)
(* Instances of RateLimit for TLC.                                         *)
(***************************************************************************)
EXTENDS RateLimit, TLC

CONSTANTS s1, s2

MCSymmetry == Permutations({s1, s2})
=============================================================================
