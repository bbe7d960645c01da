----------------------------- MODULE MCXidTable -----------------------------
(* CcXidTable for TLC. *)
EXTENDS CcXidTable
=============================================================================
