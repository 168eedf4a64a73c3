------------------------------ MODULE RingBuffer ------------------------------
(***************************************************************************)
(* class RingBuffer of native/src/buffer_native.cpp behind its Haxe class  *)
(* digigun.sys.io.RingBuffer.  Every native operation is one critical      *)
(* section of the buffer's mutex, except available() and free_space(),     *)
(* which read `count' without it: what a thread learns from them may be    *)
(* out of date when the thread acts on it.                                 *)
(***************************************************************************)
EXTENDS Integers, Sequences

CONSTANTS
  Size,       (* bytes in the buffer                                    *)
  Bytes,      (* values of a byte                                       *)
  Inputs,     (* the byte sequences that are written                    *)
  Lengths,    (* the length arguments of reads, peeks and skips         *)
  Producers,  (* threads that write and ask for the free space          *)
  Consumers,  (* threads that read, peek, skip, clear and ask what is
                 available                                              *)
  MaxInt      (* largest int                                            *)

ASSUME RingBufferAssumption ==
  /\ Size \in Nat
  /\ Inputs \subseteq Seq(Bytes)
  /\ Lengths \subseteq Nat
  /\ MaxInt \in Nat /\ 2 * Size <= MaxInt

VARIABLES
  data, head, tail, count,  (* the members of the C++ object            *)
  freed,                    (* RingBuffer._freed                        *)
  call,                     (* the last call: operation, bytes, result  *)
  seenFree,                 (* per producer: free space not yet used up
                               that its last freeSpace call reported    *)
  seenAvail                 (* per consumer: the same for available     *)

indexes == <<head, tail, count>>
vars == <<data, indexes, freed, call, seenFree, seenAvail>>

Slots == 0 .. Size - 1
Least(a, b) == IF a <= b THEN a ELSE b
UsedUp(seen, t, n) == [seen EXCEPT ![t] = IF @ > n THEN @ - n ELSE 0]

Init ==
  /\ data \in [Slots -> Bytes]  (* malloc does not initialise *)
  /\ head = 0 /\ tail = 0 /\ count = 0
  /\ freed = FALSE
  /\ call = <<"none", <<>>, 0>>
  /\ seenFree = [p \in Producers |-> 0]
  /\ seenAvail = [c \in Consumers |-> 0]

(* Mutant: the part that wraps around is not copied. *)
StoredWithoutWrap(src, n) ==
  [i \in Slots |-> IF i \in tail .. tail + n - 1 THEN src[i - tail + 1]
                   ELSE data[i]]

(* The two memcpy's of write: up to the end of the array, then from its
   start. *)
Stored(src, n) ==
  LET first == Least(n, Size - tail)
  IN [i \in Slots |-> IF i \in tail .. tail + first - 1 THEN src[i - tail + 1]
                      ELSE IF i < n - first THEN src[first + i + 1]
                      ELSE data[i]]

(* The two memcpy's of read. *)
Fetched(n) ==
  LET first == Least(n, Size - head)
  IN [i \in 1 .. n |-> IF i <= first THEN data[head + i - 1]
                       ELSE data[i - first - 1]]

ToWrite(src) == IF freed THEN 0 ELSE Least(Len(src), Size - count)

ToRead(len) == IF freed THEN 0 ELSE Least(len, count)

Write(p, src) ==
  LET n == ToWrite(src)
  IN /\ IF n <= 0 THEN UNCHANGED <<data, indexes>>
        ELSE /\ data' = Stored(src, n)
             /\ tail' = (tail + n) % Size
             /\ count' = count + n
             /\ UNCHANGED head
     /\ call' = <<"write", src, n>>
     /\ seenFree' = UsedUp(seenFree, p, n)
     /\ UNCHANGED <<freed, seenAvail>>

Advance(c, n) ==
  /\ IF n <= 0 THEN UNCHANGED indexes
     ELSE /\ head' = (head + n) % Size
          /\ count' = count - n
          /\ UNCHANGED tail
  /\ seenAvail' = UsedUp(seenAvail, c, n)
  /\ UNCHANGED <<data, freed, seenFree>>

Read(c, len) ==
  LET n == ToRead(len)
  IN Advance(c, n) /\ call' = <<"read", Fetched(n), n>>

(* Mutant: a peek that consumes. *)
PeekConsumes(len) ==
  LET n == ToRead(len)
  IN /\ IF n <= 0 THEN UNCHANGED indexes
        ELSE head' = (head + n) % Size /\ count' = count - n /\ UNCHANGED tail
     /\ call' = <<"peek", Fetched(n), n>>
     /\ UNCHANGED <<data, freed, seenFree, seenAvail>>

Peek(len) ==
  LET n == ToRead(len)
  IN /\ call' = <<"peek", Fetched(n), n>>
     /\ UNCHANGED <<data, indexes, freed, seenFree, seenAvail>>

(* skip is a read with no destination. *)
Skip(c, len) ==
  LET n == ToRead(len)
  IN Advance(c, n) /\ call' = <<"skip", <<>>, n>>

(* Mutant: count is not reset. *)
ClearKeepsCount(c) ==
  /\ IF freed THEN UNCHANGED indexes
     ELSE head' = 0 /\ tail' = 0 /\ UNCHANGED count
  /\ call' = <<"clear", <<>>, 0>>
  /\ seenAvail' = [seenAvail EXCEPT ![c] = 0]
  /\ UNCHANGED <<data, freed, seenFree>>

Clear(c) ==
  /\ IF freed THEN UNCHANGED indexes
     ELSE head' = 0 /\ tail' = 0 /\ count' = 0
  /\ call' = <<"clear", <<>>, 0>>
  /\ seenAvail' = [seenAvail EXCEPT ![c] = 0]
  /\ UNCHANGED <<data, freed, seenFree>>

Destroy ==
  /\ freed' = TRUE
  /\ call' = <<"destroy", <<>>, 0>>
  /\ UNCHANGED <<data, indexes, seenFree, seenAvail>>

AskFreeSpace(p) ==
  /\ seenFree' = [seenFree EXCEPT ![p] = IF freed THEN 0 ELSE Size - count]
  /\ UNCHANGED <<data, indexes, freed, call, seenAvail>>

AskAvailable(c) ==
  /\ seenAvail' = [seenAvail EXCEPT ![c] = IF freed THEN 0 ELSE count]
  /\ UNCHANGED <<data, indexes, freed, call, seenFree>>

Next ==
  \/ \E p \in Producers :
       AskFreeSpace(p) \/ \E src \in Inputs : Write(p, src)
  \/ \E c \in Consumers :
       \/ AskAvailable(c)
       \/ Clear(c)
       \/ \E len \in Lengths : Read(c, len) \/ Skip(c, len)
  \/ \E len \in Lengths : Peek(len)
  \/ Destroy

Spec == Init /\ [][Next]_vars

-----------------------------------------------------------------------------
(* The type invariant. *)
TypeOK ==
  /\ data \in [Slots -> Bytes]
  /\ head \in Nat /\ tail \in Nat /\ count \in Nat
  /\ freed \in BOOLEAN
  /\ seenFree \in [Producers -> Nat]
  /\ seenAvail \in [Consumers -> Nat]

(* head, tail and count never disagree, whatever wraps around: the write
   position is `count' bytes after the read position. *)
IndexesAgree ==
  /\ count <= Size
  /\ Size > 0 => head < Size /\ tail < Size
  /\ \/ tail = head + count
     \/ tail = head + count - Size

(* No sum that write and read compute, (tail + to_write) and
   (head + to_read), overflows an int. *)
SumsFit ==
  /\ tail + (Size - count) <= MaxInt
  /\ head + count <= MaxInt

(* With one producer, the free space it was told of and has not used is still
   free; with one consumer, so are the bytes it was told are available:
   reading `count' without the mutex is harmless between two threads. *)
ObservationsHold ==
  ~freed =>
    /\ \A p \in Producers : Producers = {p} => seenFree[p] <= Size - count
    /\ \A c \in Consumers : Consumers = {c} => seenAvail[c] <= count

(* The ring is a byte queue: reads return what was written, in order, across
   the wrap-around of the array. *)
Contents == [i \in 1 .. count |-> data[IF head + i - 1 < Size
                                       THEN head + i - 1
                                       ELSE head + i - 1 - Size]]

Fifo == INSTANCE ByteFifo
          WITH fifo <- IF freed THEN <<>> ELSE Contents, open <- ~freed,
               Capacity <- Size, Greedy <- TRUE

ImplementsByteFifo == Fifo!Spec
=============================================================================
