----------------------------- MODULE MCService -----------------------------
(* Instances of Service for TLC. *)
EXTENDS Service

\* 1 is good and old, 2 is mandatory and bad, 3 is its fix.
Releases     == {1, 2, 3}
GoodOnes     == {1, 3}
MandatoryOnes == {2, 3}

\* AutoApply::Mandatory, the default.
ByDefault == {TRUE}
=============================================================================
