----------------------------- MODULE MCNativeLoop -----------------------------
(* Instances of NativeLoop for TLC. *)
EXTENDS NativeLoop, TLC

WorkerSymmetry == Permutations(Workers)
=============================================================================
