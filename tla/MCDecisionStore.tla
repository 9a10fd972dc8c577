-------------------------- MODULE MCDecisionStore --------------------------
(* Two processes and two hosts.                                            *)
EXTENDS DecisionStore, TLC

CONSTANTS p1, p2, h1, h2

ProcessSymmetry == Permutations({p1, p2})

=============================================================================
