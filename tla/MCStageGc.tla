----------------------------- MODULE MCStageGc -----------------------------
(* Two sessions and two collectors.                                        *)
EXTENDS StageGc, TLC

CONSTANTS s1, s2, g1, g2

Two == Permutations({s1, s2}) \cup Permutations({g1, g2})

=============================================================================
