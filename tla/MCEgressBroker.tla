--------------------------- MODULE MCEgressBroker ---------------------------
(* One host is allowlisted, the others need the user's approval.           *)
EXTENDS EgressBroker, TLC

CONSTANTS c1, c2, c3, listed, h1, h2

TwoConns   == {c1, c2}
ThreeConns == {c1, c2, c3}
ConnSymmetry == Permutations({c1, c2, c3})

=============================================================================
