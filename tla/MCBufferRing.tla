---------------------------- MODULE MCBufferRing ----------------------------
(* Model-checking instance of BufferRing: a ring of the smallest size the  *)
(* code's assertion admits, lapped more than once, two readers on it.      *)
EXTENDS BufferRing
=============================================================================
