----------------------------- MODULE ChunkedBuffer -----------------------------
(***************************************************************************)
(* class ChunkedBuffer of native/src/buffer_native.cpp behind its Haxe     *)
(* class: a linked list of chunks that grows at its tail and whose head    *)
(* chunk is freed when it is drained.  Writes, reads, peeks and skips hold *)
(* the mutex from end to end; one iteration of their loops over the chunks *)
(* is a step here, so that the list can be inspected in between.           *)
(***************************************************************************)
EXTENDS Integers, FiniteSets, SequencesExt

CONSTANTS
  Addrs,      (* where malloc can place a chunk                      *)
  Null,
  ChunkSize,
  Bytes,      (* values of a byte                                    *)
  Inputs,     (* the byte sequences that are written                 *)
  Lengths,    (* the length arguments of reads, peeks and skips      *)
  MaxBytes    (* bound on the bytes in the buffer; the code has none *)

ASSUME ChunkedBufferAssumption ==
  /\ Null \notin Addrs /\ IsFiniteSet(Addrs)
  /\ ChunkSize \in Nat \ {0}  (* with 0, write never ends *)
  /\ Inputs \subseteq Seq(Bytes) \ {<<>>}
  /\ Lengths \subseteq Nat
  /\ MaxBytes \in Nat

VARIABLES
  allocated,        (* chunks that are malloc'ed and not freed              *)
  bytes,            (* per chunk, the first `used' bytes of its data        *)
  next,             (* per chunk, its link                                  *)
  head_chunk, tail_chunk, total_available,
  freed,            (* ChunkedBuffer._freed                                 *)
  op,               (* the call that holds the mutex: what it was passed,
                       what it has still to do, where, what it has got      *)
  call              (* the last completed call: operation, bytes, result    *)

list == <<allocated, bytes, next, head_chunk, tail_chunk>>
vars == <<list, total_available, freed, op, call>>

Least(a, b) == IF a <= b THEN a ELSE b
FirstOf(s, n) == SubSeq(s, 1, n)
AllBut(s, n) == SubSeq(s, n + 1, Len(s))

NoCall == [kind |-> "none", src |-> <<>>, left |-> 0, at |-> Null,
           out |-> <<>>]

Init ==
  /\ allocated = {}
  /\ bytes = [a \in Addrs |-> <<>>] /\ next = [a \in Addrs |-> Null]
  /\ head_chunk = Null /\ tail_chunk = Null
  /\ total_available = 0
  /\ freed = FALSE
  /\ op = NoCall
  /\ call = <<"none", <<>>, 0>>

(* The list as the code walks it, at most n links from chunk a: the chunks,
   and the bytes in them. *)
Chunks[n \in Nat] == [a \in Addrs \cup {Null} |->
  IF n = 0 \/ a = Null THEN <<>> ELSE <<a>> \o Chunks[n - 1][next[a]]]
Payload[n \in Nat] == [a \in Addrs \cup {Null} |->
  IF n = 0 \/ a = Null THEN <<>> ELSE bytes[a] \o Payload[n - 1][next[a]]]

Chain == Chunks[Cardinality(Addrs)][head_chunk]
Contents == Payload[Cardinality(Addrs)][head_chunk]

-----------------------------------------------------------------------------
WriteBegins(src) ==
  /\ op.kind = "none"
  /\ total_available + Len(src) <= MaxBytes
  /\ IF freed THEN call' = <<"write", src, 0>> /\ UNCHANGED op
     ELSE /\ op' = [NoCall EXCEPT !.kind = "write", !.src = src,
                                  !.left = Len(src)]
          /\ UNCHANGED call
  /\ UNCHANGED <<list, total_available, freed>>

(* The tail is missing or full. *)
NeedsChunk == tail_chunk = Null \/ Len(bytes[tail_chunk]) = ChunkSize

Space == IF NeedsChunk THEN ChunkSize ELSE ChunkSize - Len(bytes[tail_chunk])

(* One iteration: a new tail if there is no room, then a memcpy into it. *)
WriteChunk ==
  LET n == Least(op.left, Space)
      done == Len(op.src) - op.left
  IN /\ op.kind = "write" /\ op.left > 0
     /\ \E a \in IF NeedsChunk THEN Addrs \ allocated ELSE {tail_chunk} :
          /\ allocated' = allocated \cup {a}
          /\ bytes' = [bytes EXCEPT
                         ![a] = (IF NeedsChunk THEN <<>> ELSE @) \o
                                SubSeq(op.src, done + 1, done + n)]
          /\ next' = IF NeedsChunk
                     THEN [x \in Addrs |-> IF x = a THEN Null
                                           ELSE IF x = tail_chunk THEN a
                                           ELSE next[x]]
                     ELSE next
          /\ head_chunk' = IF head_chunk = Null THEN a ELSE head_chunk
          /\ tail_chunk' = a
     /\ total_available' = total_available + n
     /\ op' = [op EXCEPT !.left = @ - n]
     /\ UNCHANGED <<freed, call>>

WriteEnds ==
  /\ op.kind = "write" /\ op.left = 0
  /\ call' = <<"write", op.src, Len(op.src)>>
  /\ op' = NoCall
  /\ UNCHANGED <<list, total_available, freed>>

-----------------------------------------------------------------------------
(* read, peek and skip are one loop; skip is a read with no destination. *)
ReadBegins(kind, len) ==
  LET to_read == IF freed THEN 0 ELSE Least(len, total_available)
  IN /\ op.kind = "none"
     /\ IF to_read <= 0 THEN call' = <<kind, <<>>, 0>> /\ UNCHANGED op
        ELSE /\ op' = [NoCall EXCEPT !.kind = kind, !.left = to_read,
                                     !.at = head_chunk]
             /\ UNCHANGED call
     /\ UNCHANGED <<list, total_available, freed>>

(* Mutants: the chunk's remaining bytes are not moved to its start; the
   pointer to the tail survives the tail. *)
TakeWithoutMove(c, n) ==
  /\ bytes' = [bytes EXCEPT ![c] = FirstOf(@, Len(@) - n)]
  /\ UNCHANGED <<allocated, next, head_chunk, tail_chunk>>
FreeHeadKeepsTail(c) ==
  /\ allocated' = allocated \ {c}
  /\ bytes' = [bytes EXCEPT ![c] = <<>>]
  /\ next' = [next EXCEPT ![c] = Null]
  /\ head_chunk' = next[c]
  /\ UNCHANGED tail_chunk

(* What is left of a chunk moves to its start. *)
Take(c, n) ==
  /\ bytes' = [bytes EXCEPT ![c] = AllBut(@, n)]
  /\ UNCHANGED <<allocated, next, head_chunk, tail_chunk>>

(* A drained chunk, which is the head, is freed. *)
FreeHead(c) ==
  /\ allocated' = allocated \ {c}
  /\ bytes' = [bytes EXCEPT ![c] = <<>>]
  /\ next' = [next EXCEPT ![c] = Null]
  /\ head_chunk' = next[c]
  /\ tail_chunk' = IF next[c] = Null THEN Null ELSE tail_chunk

(* One iteration of the loop over the chunks. *)
ReadChunk ==
  LET c == op.at
      n == Least(op.left, Len(bytes[c]))
  IN /\ op.kind \in {"read", "peek", "skip"} /\ op.left > 0 /\ c # Null
     /\ IF op.kind = "peek" THEN UNCHANGED <<list, total_available>>
        ELSE /\ IF n = Len(bytes[c]) THEN FreeHead(c) ELSE Take(c, n)
             /\ total_available' = total_available - n
     /\ op' = [op EXCEPT !.left = @ - n, !.at = next[c],
                         !.out = @ \o FirstOf(bytes[c], n)]
     /\ UNCHANGED <<freed, call>>

ReadEnds ==
  /\ op.kind \in {"read", "peek", "skip"} /\ (op.left = 0 \/ op.at = Null)
  /\ call' = <<op.kind, IF op.kind = "skip" THEN <<>> ELSE op.out, Len(op.out)>>
  /\ op' = NoCall
  /\ UNCHANGED <<list, total_available, freed>>

-----------------------------------------------------------------------------
FreeAll ==
  /\ allocated' = allocated \ Range(Chain)
  /\ bytes' = [a \in Addrs |-> IF a \in Range(Chain) THEN <<>> ELSE bytes[a]]
  /\ next' = [a \in Addrs |-> IF a \in Range(Chain) THEN Null ELSE next[a]]
  /\ head_chunk' = Null /\ tail_chunk' = Null
  /\ total_available' = 0

Clear ==
  /\ op.kind = "none"
  /\ IF freed THEN UNCHANGED <<list, total_available>> ELSE FreeAll
  /\ call' = <<"clear", <<>>, 0>>
  /\ UNCHANGED <<freed, op>>

(* The destructor clears; a second destroy does nothing. *)
Destroy ==
  /\ op.kind = "none"
  /\ freed' = TRUE
  /\ IF freed THEN UNCHANGED <<list, total_available>> ELSE FreeAll
  /\ call' = <<"destroy", <<>>, 0>>
  /\ UNCHANGED op

Next ==
  \/ \E src \in Inputs : WriteBegins(src)
  \/ WriteChunk
  \/ WriteEnds
  \/ \E kind \in {"read", "peek", "skip"}, len \in Lengths :
       ReadBegins(kind, len)
  \/ ReadChunk
  \/ ReadEnds
  \/ Clear
  \/ Destroy

Spec == Init /\ [][Next]_vars

-----------------------------------------------------------------------------
(* The type invariant. *)
TypeOK ==
  /\ allocated \subseteq Addrs
  /\ bytes \in [Addrs -> Seq(Bytes)]
  /\ \A a \in Addrs : Len(bytes[a]) <= ChunkSize
  /\ next \in [Addrs -> Addrs \cup {Null}]
  /\ {head_chunk, tail_chunk} \subseteq Addrs \cup {Null}
  /\ total_available \in 0 .. MaxBytes
  /\ freed \in BOOLEAN
  /\ op.kind \in {"none", "write", "read", "peek", "skip"}

(* Whatever is written, partially read and cleared: the links lead from
   head_chunk over every allocated chunk to tail_chunk, so none is leaked and
   none is used after it was freed; total_available counts the bytes in them;
   no chunk is empty; only the first and the last have room, the rest are
   full, so that the list does not fragment. *)
ListIntact ==
  /\ TypeOK
  /\ Range(Chain) = allocated
  /\ tail_chunk = IF Chain = <<>> THEN Null ELSE Last(Chain)
  /\ total_available = Len(Contents)
  /\ \A i \in DOMAIN Chain :
       /\ bytes[Chain[i]] # <<>>
       /\ i \notin {1, Len(Chain)} => Len(bytes[Chain[i]]) = ChunkSize

(* The list is a byte queue without a bound: a call takes effect when it
   returns the mutex. *)
Queue ==
  CASE freed -> <<>>
    [] op.kind = "write" ->
         FirstOf(Contents, Len(Contents) - (Len(op.src) - op.left))
    [] op.kind \in {"read", "skip"} -> op.out \o Contents
    [] OTHER -> Contents

Fifo == INSTANCE ByteFifo
          WITH fifo <- Queue, open <- ~freed,
               Capacity <- MaxBytes, Greedy <- TRUE

ImplementsByteFifo == Fifo!Spec
=============================================================================
