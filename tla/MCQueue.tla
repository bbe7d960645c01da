------------------------------ MODULE MCQueue ------------------------------
(* CcQueue for TLC: queues, cells and buffers are interchangeable. *)
EXTENDS CcQueue, TLC

Symmetry == Permutations(Queues) \cup Permutations(Cells) \cup Permutations(Msgs)
=============================================================================
