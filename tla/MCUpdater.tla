----------------------------- MODULE MCUpdater -----------------------------
(* Instances of Updater for TLC.  Release 1 is golden, 2 works, 3 never becomes *)
(* healthy and 4 takes updaterd down with it.                                   *)
EXTENDS Updater

CONSTANT TopRelease     \* bound: the newest release there is

MCRelease     == 1..TopRelease
MCBad         == {3, 4} \cap MCRelease
MCDeadUpdater == {4} \cap MCRelease
AllOps        == Applies \cup Transitions
=============================================================================
