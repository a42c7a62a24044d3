---------------------------- MODULE MCSchedule ----------------------------
EXTENDS Schedule
=============================================================================
