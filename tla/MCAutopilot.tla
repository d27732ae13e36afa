---------------------------- MODULE MCAutopilot ----------------------------
(* Small instances of Autopilot for TLC.                                    *)
EXTENDS Autopilot
=============================================================================
