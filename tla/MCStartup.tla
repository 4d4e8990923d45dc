----------------------------- MODULE MCStartup -----------------------------
(***************************************************************************)
(* Instances of Startup for TLC.                                           *)
(***************************************************************************)
EXTENDS Startup, TLC

CONSTANTS p1, p2, seedcode, code1, code2, x, y

MCLegacyCodes == <<code1, code2>>

MCSymmetry == Permutations({p1, p2}) \cup Permutations({x, y})
=============================================================================
