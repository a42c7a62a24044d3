-------------------------- MODULE MCSessionRepair --------------------------
EXTENDS SessionRepair
=============================================================================
