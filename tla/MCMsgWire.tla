----------------------------- MODULE MCMsgWire ------------------------------
(* CcMsgWire for TLC. *)
EXTENDS CcMsgWire

\* Two flows or queues of one action or property, or one of two.
MCShapes == {<<2, 1>>, <<1, 2>>}
=============================================================================
