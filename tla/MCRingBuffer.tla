----------------------------- MODULE MCRingBuffer -----------------------------
(* Instances of RingBuffer for TLC. *)
EXTENDS RingBuffer

(* Every sequence of one byte up to more than fits. *)
LongInputs == UNION {[1 .. n -> Bytes] : n \in 1 .. Size + 1}
=============================================================================
