---------------------------- MODULE MCGoalRounds ----------------------------
EXTENDS GoalRounds
=============================================================================
