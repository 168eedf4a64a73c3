----------------------------- MODULE MCBipBuffer ------------------------------
(* Instances of BipBuffer for TLC. *)
EXTENDS BipBuffer

(* Every nonempty sequence of at most 2 or 3 bytes. *)
ShortInputs == UNION {[1 .. n -> Bytes] : n \in 1 .. 2}
LongInputs == UNION {[1 .. n -> Bytes] : n \in 1 .. 3}
=============================================================================
