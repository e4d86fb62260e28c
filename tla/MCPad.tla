------------------------------- MODULE MCPad -------------------------------
(* Instances of Pad for TLC. *)
EXTENDS Pad

\* What the pad asks for, and what others ask of the robot beside it.
PadAsks == {"enable", "init", "relax", "rebootMotors", "sitToggle", "shutdown", "setMode"}
=============================================================================
