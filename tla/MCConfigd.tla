----------------------------- MODULE MCConfigd -----------------------------
(***************************************************************************)
(* Two networks, one of them saved twice before configd came; two pads.    *)
(***************************************************************************)
EXTENDS Configd
CONSTANTS home, away
MCOldSsid == [p \in Old |-> home]

(* What net.forget has answered for is gone: none is left of several, "a stale *)
(* one with an outdated key that NM would happily autoconnect with later"      *)
(* (nm.rs, `saved_connections`).                                               *)
ForgottenIsGone ==
  \A n \in DOMAIN calls : LET s == calls[n].ask.ssid IN
    /\ calls[n].ask.op = "forget" /\ calls[n].answer = "forgotten"
    /\ \A m \in DOMAIN calls : m > n => ~IsAbout(m, s)
    => SavedConnections(s) = {}
=============================================================================
