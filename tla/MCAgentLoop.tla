---------------------------- MODULE MCAgentLoop ----------------------------
(***************************************************************************)
(* TLC instances of AgentLoop.                                             *)
(***************************************************************************)
EXTENDS AgentLoop

\* `left` is history that no action reads and only LiveDriverClaims is about:
\* a run that checks something else need not tell its values apart.
WithoutLeft ==
  <<phase, stack, inbox, activity, driverVars, waitVars, jobs, sent, list>>
=============================================================================
