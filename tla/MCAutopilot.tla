---------------------------- MODULE MCAutopilot ----------------------------
(* Instances of Autopilot for TLC. *)
EXTENDS Autopilot
=============================================================================
