-------------------------- MODULE MCToolScheduler --------------------------
EXTENDS ToolScheduler
=============================================================================
