----------------------------- MODULE MCListener -----------------------------
(* CcListener for TLC: connections are interchangeable *)
EXTENDS CcListener, TLC

Symmetry == Permutations(Conns)
=============================================================================
