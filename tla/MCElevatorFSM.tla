--------------------------- MODULE MCElevatorFSM ---------------------------
EXTENDS ElevatorFSM
=============================================================================
