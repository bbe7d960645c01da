---------------------------- MODULE MCThreadPool ----------------------------
(* CcThreadPool for TLC. *)
EXTENDS CcThreadPool
=============================================================================
