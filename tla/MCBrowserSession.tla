-------------------------- MODULE MCBrowserSession --------------------------
(***************************************************************************)
(* Instances of BrowserSession for TLC.                                    *)
(***************************************************************************)
EXTENDS BrowserSession, TLC

CONSTANTS i1, i2, t1, t2, r1, r2, alice

MCSymmetry == Permutations({i1, i2}) \cup Permutations({t1, t2})
                \cup Permutations({r1, r2})
=============================================================================
