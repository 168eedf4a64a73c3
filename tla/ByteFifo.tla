------------------------------- MODULE ByteFifo -------------------------------
(***************************************************************************)
(* What every IByteBuffer promises: a first-in first-out queue of bytes of *)
(* bounded capacity.  A write appends a prefix of its argument, a read     *)
(* removes and returns a prefix of the queue, a peek only returns one, a   *)
(* skip only removes one.  `call' is the last completed call: operation,   *)
(* bytes passed in or out, number returned.                                *)
(***************************************************************************)
EXTENDS Integers, Sequences

CONSTANTS
  Inputs,    (* the byte sequences that writers write              *)
  Capacity,
  Lengths,   (* the length arguments of reads, peeks and skips     *)
  Greedy     (* a write accepts everything there is room for       *)

VARIABLES fifo, open, call

vars == <<fifo, open, call>>

Least(a, b) == IF a <= b THEN a ELSE b
Prefix(s, n) == SubSeq(s, 1, n)
Rest(s, n) == SubSeq(s, n + 1, Len(s))

Init ==
  /\ fifo = <<>>
  /\ open = TRUE
  /\ call = <<"none", <<>>, 0>>

Write(src) ==
  LET room == IF open THEN Least(Len(src), Capacity - Len(fifo)) ELSE 0
  IN \E n \in 0 .. Len(src) :
       /\ call' = <<"write", src, n>>
       /\ n <= room /\ (Greedy => n = room)
       /\ fifo' = fifo \o Prefix(src, n)
       /\ UNCHANGED open

Read(len) ==
  LET n == Least(len, Len(fifo))
  IN /\ fifo' = Rest(fifo, n)
     /\ call' = <<"read", Prefix(fifo, n), n>>
     /\ UNCHANGED open

(* A buffer need not show all it holds at once. *)
Peek(len) ==
  LET most == Least(len, Len(fifo))
  IN \E n \in (IF Greedy THEN {most} ELSE 0 .. most) :
       /\ call' = <<"peek", Prefix(fifo, n), n>>
       /\ UNCHANGED <<fifo, open>>

Skip(len) ==
  LET most == Least(len, Len(fifo))
  IN \E n \in (IF Greedy THEN {most} ELSE 0 .. most) :
       /\ fifo' = Rest(fifo, n)
       /\ call' = <<"skip", <<>>, n>>
       /\ UNCHANGED open

Clear ==
  /\ fifo' = <<>>
  /\ call' = <<"clear", <<>>, 0>>
  /\ UNCHANGED open

Destroy ==
  /\ fifo' = <<>>
  /\ open' = FALSE
  /\ call' = <<"destroy", <<>>, 0>>

Next ==
  \/ \E src \in Inputs : Write(src)
  \/ \E len \in Lengths : Read(len) \/ Peek(len) \/ Skip(len)
  \/ Clear
  \/ Destroy

Spec == Init /\ [][Next]_vars
=============================================================================
