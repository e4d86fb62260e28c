----------------------------- MODULE MCAccount -----------------------------
(* Account for TLC: its constants are given in the configuration. *)
EXTENDS Account
=============================================================================
