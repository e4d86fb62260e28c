--------------------------- MODULE MCControlLoop ---------------------------
(* Instances of ControlLoop for TLC. *)
EXTENDS ControlLoop

\* Every circumstance: nothing is assumed of the clients or the bus.
AnyHabits == HabitKinds

AllAsks == RequestKinds
=============================================================================
