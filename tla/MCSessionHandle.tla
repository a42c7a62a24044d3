-------------------------- MODULE MCSessionHandle --------------------------
(***************************************************************************)
(* TLC instances of SessionHandle.                                         *)
(***************************************************************************)
EXTENDS SessionHandle
=============================================================================
