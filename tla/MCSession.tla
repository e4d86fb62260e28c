----------------------------- MODULE MCSession -----------------------------
(***************************************************************************)
(* One daemon reached over two lanes, of which a call may hold one for     *)
(* minutes; two wrong PINs end a session.                                  *)
(***************************************************************************)
EXTENDS Session
CONSTANTS query, operation, daemon
MCService == [l \in {query, operation} |-> daemon]
=============================================================================
