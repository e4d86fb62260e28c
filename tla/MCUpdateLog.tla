---------------------------- MODULE MCUpdateLog ----------------------------
(* Two releases suffice to tell their latest outcomes apart; more appends    *)
(* than the capacity holds, and cuts both in appends and in trims.           *)
EXTENDS UpdateLog

MCVersion == {"1.0", "1.1"}
=============================================================================
