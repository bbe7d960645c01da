----------------------------- MODULE MCSession ------------------------------
(* CcSession for TLC                                                       *)
EXTENDS CcSession
=============================================================================
