-------------------------- MODULE MCSingleElevator --------------------------
EXTENDS SingleElevator
=============================================================================
