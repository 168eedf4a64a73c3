---------------------------- MODULE MCChunkedBuffer ----------------------------
(* Instances of ChunkedBuffer for TLC. *)
EXTENDS ChunkedBuffer

AddrSymmetry == Permutations(Addrs)

(* Every sequence of one to three bytes: up to two chunks at once. *)
LongInputs == UNION {[1 .. n -> Bytes] : n \in 1 .. 3}
=============================================================================
