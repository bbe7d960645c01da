-------------------------- MODULE MCSecureChannel --------------------------
(* CcSecureChannel for TLC: the application's messages are interchangeable *)
EXTENDS CcSecureChannel, TLC

Symmetry == Permutations(AppMsgs)
=============================================================================
