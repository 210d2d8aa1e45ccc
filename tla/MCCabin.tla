------------------------------ MODULE MCCabin ------------------------------
EXTENDS Cabin

Hall == {<<1, "HallUp">>}
Cab  == {1}

\* The floor where the car stands at first.
GroundCab == {0}
=============================================================================
