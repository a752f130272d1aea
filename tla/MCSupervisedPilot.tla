-------------------------- MODULE MCSupervisedPilot --------------------------
(* Instances of SupervisedPilot for TLC: the constants are given in the       *)
(* configurations. No symmetry: the survivor is one of the sessions.          *)
EXTENDS SupervisedPilotProofs
=============================================================================
