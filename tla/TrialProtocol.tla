--------------------------- MODULE TrialProtocol ---------------------------
(***************************************************************************)
(* What an update promises to whoever has to recover from it, and no more: *)
(* a trial is opened before the release it names goes live, it says where  *)
(* the robot came from, and while it is open the robot runs one of the two *)
(* or golden.  How a release is staged, restarted, judged or recorded is   *)
(* not said here.                                                          *)
(***************************************************************************)
EXTENDS Naturals

CONSTANTS Release, None, Golden, MaxBoots

VARIABLES
    live,   \* the release the units are started from
    trial   \* the release on trial, the one to go back to, the boots it had

NoTrial == [version |-> None, previous |-> None, boots |-> 0]
Open    == trial # NoTrial

Init == live \in Release /\ trial = NoTrial

\* Opening a trial, over an earlier one too, moves nothing.
Begin(version, previous) ==
    /\ live \in {previous, Golden}
    /\ trial' = [version |-> version, previous |-> previous, boots |-> 0]
    /\ UNCHANGED live

GoLive     == Open /\ live' = trial.version /\ UNCHANGED trial
GoBack     == Open /\ trial.previous # None /\ live' = trial.previous /\ UNCHANGED trial
GoToGolden == Golden # None /\ live' = Golden /\ UNCHANGED trial

Boot ==
    /\ Open /\ trial.boots < MaxBoots
    /\ trial' = [trial EXCEPT !.boots = @ + 1]
    /\ UNCHANGED live

Close == Open /\ trial' = NoTrial /\ UNCHANGED live

Next ==
    \/ \E version \in Release, previous \in Release \cup {None} : Begin(version, previous)
    \/ GoLive \/ GoBack \/ GoToGolden \/ Boot \/ Close

Spec == Init /\ [][Next]_<<live, trial>>
=============================================================================
