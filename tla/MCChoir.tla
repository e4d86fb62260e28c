------------------------------ MODULE MCChoir ------------------------------
(* Instances of Choir for TLC. *)
EXTENDS Choir

Ducks == {1, 2, 3}

\* Duck 3 has the lowest voice, and the other two share a register.
Registers == [d \in Ducks |-> IF d = 3 THEN 1 ELSE 2]

\* Duck 3 runs an older build.
Songs == [d \in Ducks |-> IF d = 3 THEN {1} ELSE {1, 2}]

\* The lowest id runs the older build.
OlderLow == [d \in Ducks |-> IF d = 1 THEN {1} ELSE {1, 2}]

\* Two of one build and one voice each, for a long piece.
Pair      == {1, 2}
PairVoice == [d \in Pair |-> d]
PairSongs == [d \in Pair |-> {1}]
=============================================================================
