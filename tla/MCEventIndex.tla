---------------------------- MODULE MCEventIndex ----------------------------
(* Two runs that may fill and overflow a small index.                      *)
EXTENDS EventIndex

CONSTANTS r1, r2

=============================================================================
