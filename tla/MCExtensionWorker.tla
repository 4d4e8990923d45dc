------------------------- MODULE MCExtensionWorker -------------------------
(***************************************************************************)
(* Instances of ExtensionWorker for TLC.                                   *)
(***************************************************************************)
EXTENDS ExtensionWorker, TLC

CONSTANTS t1, t2

MCSymmetry == Permutations({t1, t2})

\* Inside the range of the badge, on a half, and above it.
MCTenthScores == {455, 1200}
=============================================================================
