--------------------------- MODULE MCMessagePacker ---------------------------
(* Model-checking instance of MessagePacker: payloads of up to two bits,  *)
(* all contents of the unset buffers, all frames.                          *)
EXTENDS MessagePacker
=============================================================================
