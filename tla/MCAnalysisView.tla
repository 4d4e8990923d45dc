--------------------------- MODULE MCAnalysisView ---------------------------
(***************************************************************************)
(* Instances of AnalysisView for TLC.                                      *)
(***************************************************************************)
EXTENDS AnalysisView, TLC

CONSTANTS x, y, m, n, t1, t2, k1, k2

MCSymmetry == Permutations({x, y}) \cup Permutations({m, n})
                \cup Permutations({t1, t2}) \cup Permutations({k1, k2})
=============================================================================
