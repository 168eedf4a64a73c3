------------------------------- MODULE BipBuffer ------------------------------
(***************************************************************************)
(* class BipBuffer of native/src/buffer_native.cpp, used by one producer   *)
(* and one consumer.  A write is three steps: reserve a contiguous region, *)
(* fill it, commit it; a read is three: get a pointer to a contiguous      *)
(* region, copy from it, decommit it.  bip_buffer_write, _read, _peek and  *)
(* _skip take these steps one after the other, each under the mutex but    *)
(* without holding it in between; the low-level API leaves the steps to    *)
(* the client.                                                             *)
(***************************************************************************)
EXTENDS Integers, Sequences

CONSTANTS
  Size,        (* bytes in the buffer                                        *)
  Bytes,       (* values of a byte                                           *)
  Inputs,      (* the byte sequences that are written, none of them empty    *)
  Interleaved, (* producer and consumer run concurrently: otherwise each
                  completes its operation before the other starts one        *)
  MayAbandon,  (* the producer may commit less than it reserved, or nothing:
                  the low-level API                                          *)
  ClearsAnytime (* clear may be called between the steps of a write or a read:
                   otherwise only while neither has begun                    *)

ASSUME BipBufferAssumption ==
  /\ Size \in Nat
  /\ Inputs \subseteq Seq(Bytes) \ {<<>>}
  /\ Interleaved \in BOOLEAN /\ MayAbandon \in BOOLEAN
  /\ ClearsAnytime \in BOOLEAN

VARIABLES
  data, a_head, a_tail, b_head, b_tail, is_b, res_head, res_size,
  wr,   (* the producer: where it is, its pointer and length, its input *)
  rd,   (* the consumer: the region it got, of length 0 when it has none *)
  call, (* the last completed call: operation, bytes, result *)
  whole,   (* history: every reservation so far was committed in full *)
  stale,   (* history: clear was called since the consumer got its region *)
  strayed  (* history: more was decommitted than was published, and clear was
              not called since *)

regions == <<a_head, a_tail, b_head, b_tail, is_b>>
reservation == <<res_head, res_size>>
clears == <<stale, strayed>>
vars == <<data, regions, reservation, wr, rd, call, whole, clears>>

Slots == 0 .. Size - 1
Least(a, b) == IF a <= b THEN a ELSE b

NoWrite == [pc |-> "idle", at |-> 0, len |-> 0, src |-> <<>>]
NoRegion == [at |-> 0, len |-> 0]

Init ==
  /\ data \in [Slots -> Bytes]  (* malloc does not initialise *)
  /\ a_head = 0 /\ a_tail = 0 /\ b_head = 0 /\ b_tail = 0
  /\ is_b = FALSE
  /\ res_head = 0 /\ res_size = 0
  /\ wr = NoWrite /\ rd = NoRegion
  /\ call = <<"none", <<>>, 0>>
  /\ whole = TRUE
  /\ stale = FALSE /\ strayed = FALSE

-----------------------------------------------------------------------------
(* reserve(len) stays in region A if the request fits behind it, or if there
   is no more room in front of it; otherwise region B is opened at 0. *)
StaysInA(len) == Size - a_tail >= len \/ Size - a_tail >= a_head

(* Mutant: a reservation in B that reaches into A. *)
ReservationOffByOne(len) ==
  IF is_b THEN [at |-> b_tail, len |-> Least(len, a_head - b_tail)]
  ELSE IF StaysInA(len)
       THEN [at |-> a_tail, len |-> Least(len, Size - a_tail)]
       ELSE [at |-> 0, len |-> Least(len, a_head + 1)]

Reservation(len) ==
  IF is_b THEN [at |-> b_tail, len |-> Least(len, a_head - b_tail)]
  ELSE IF StaysInA(len)
       THEN [at |-> a_tail, len |-> Least(len, Size - a_tail)]
       ELSE [at |-> 0, len |-> Least(len, a_head)]

(* In region B, a reservation that finds no space returns null and leaves
   the members alone; in A it returns an empty region. *)
Reserve(src) ==
  LET len == Len(src)
      r == Reservation(len)
  IN /\ wr.pc = "idle"
     /\ Interleaved \/ rd.len = 0
     /\ IF is_b /\ r.len <= 0 THEN UNCHANGED <<reservation, is_b>>
        ELSE /\ res_head' = r.at /\ res_size' = r.len
             /\ is_b' = (is_b \/ ~StaysInA(len))
     /\ IF r.len <= 0
        THEN /\ call' = <<"write", src, 0>>
             /\ UNCHANGED wr
        ELSE /\ wr' = [pc |-> "reserved", at |-> r.at, len |-> r.len,
                       src |-> src]
             /\ UNCHANGED call
     /\ UNCHANGED <<data, a_head, a_tail, b_head, b_tail, rd, whole, clears>>

(* memcpy(p, data, res), without the mutex *)
Fill ==
  /\ wr.pc = "reserved"
  /\ data' = [i \in Slots |-> IF i \in wr.at .. wr.at + wr.len - 1
                              THEN wr.src[i - wr.at + 1] ELSE data[i]]
  /\ wr' = [wr EXCEPT !.pc = "filled"]
  /\ UNCHANGED <<regions, reservation, rd, call, whole, clears>>

(* After a clear in between, res_size is 0 and nothing is committed. *)
Commit(asked) ==
  LET len == Least(asked, res_size)
  IN /\ wr.pc = "filled"
     /\ asked = wr.len \/ (MayAbandon /\ asked \in 0 .. wr.len)
     /\ IF is_b THEN b_tail' = b_tail + len /\ UNCHANGED a_tail
        ELSE a_tail' = a_tail + len /\ UNCHANGED b_tail
     /\ res_size' = 0
     /\ wr' = NoWrite
     /\ call' = <<"write", wr.src, asked>>
     /\ whole' = (whole /\ asked = wr.len)
     /\ UNCHANGED <<data, a_head, b_head, is_b, res_head, rd, clears>>

(* The client of the low-level API never commits. *)
Abandon ==
  /\ MayAbandon /\ wr.pc # "idle"
  /\ wr' = NoWrite
  /\ whole' = FALSE
  /\ UNCHANGED <<data, regions, reservation, rd, call, clears>>

-----------------------------------------------------------------------------
(* Mutant: the newer bytes are shown first. *)
PublishedBFirst ==
  IF b_head < b_tail THEN [at |-> b_head, len |-> b_tail - b_head]
  ELSE IF a_head < a_tail THEN [at |-> a_head, len |-> a_tail - a_head]
  ELSE NoRegion

Published ==
  IF a_head < a_tail THEN [at |-> a_head, len |-> a_tail - a_head]
  ELSE IF b_head < b_tail THEN [at |-> b_head, len |-> b_tail - b_head]
  ELSE NoRegion

GetReadPtr ==
  /\ rd.len = 0
  /\ Interleaved \/ wr.pc = "idle"
  /\ Published.len > 0
  /\ rd' = Published
  /\ UNCHANGED <<data, regions, reservation, wr, call, whole, clears>>

(* memcpy(data, p, n), without the mutex *)
CopyOut(n) ==
  /\ n \in 1 .. rd.len
  /\ call' = <<"peek", [i \in 1 .. n |-> data[rd.at + i - 1]], n>>
  /\ UNCHANGED <<data, regions, reservation, wr, rd, whole, clears>>

(* A peek does not decommit. *)
PeekReturns ==
  /\ rd.len > 0
  /\ rd' = NoRegion
  /\ stale' = FALSE
  /\ UNCHANGED <<data, regions, reservation, wr, call, whole, strayed>>

(* Mutant: B becomes A and stays where it is. *)
DecommitAKeepsB(n) ==
  IF a_head + n # a_tail
  THEN /\ a_head' = a_head + n
       /\ UNCHANGED <<a_tail, b_head, b_tail, is_b>>
  ELSE IF b_tail > 0
  THEN /\ a_head' = b_head /\ a_tail' = b_tail /\ is_b' = FALSE
       /\ UNCHANGED <<b_head, b_tail>>
  ELSE /\ a_head' = 0 /\ a_tail' = 0
       /\ UNCHANGED <<b_head, b_tail, is_b>>

DecommitA(n) ==
  IF a_head + n # a_tail
  THEN /\ a_head' = a_head + n
       /\ UNCHANGED <<a_tail, b_head, b_tail, is_b>>
  ELSE IF b_tail > 0
  THEN /\ a_head' = b_head /\ a_tail' = b_tail
       /\ b_head' = 0 /\ b_tail' = 0 /\ is_b' = FALSE
  ELSE /\ a_head' = 0 /\ a_tail' = 0
       /\ UNCHANGED <<b_head, b_tail, is_b>>

(* Mutant: region B stays open when it is drained. *)
DecommitBStaysOpen(n) ==
  /\ IF b_head + n # b_tail THEN b_head' = b_head + n /\ UNCHANGED b_tail
     ELSE b_head' = 0 /\ b_tail' = 0
  /\ UNCHANGED <<a_head, a_tail, is_b>>

DecommitB(n) ==
  /\ IF b_head + n # b_tail
     THEN /\ b_head' = b_head + n
          /\ UNCHANGED <<b_tail, is_b>>
     ELSE b_head' = 0 /\ b_tail' = 0 /\ is_b' = FALSE
  /\ UNCHANGED <<a_head, a_tail>>

(* decommit(n) trusts n: a region that a clear has taken back may be longer
   than what is published now. *)
Decommit(n) ==
  /\ n \in 1 .. rd.len
  /\ IF a_head < a_tail THEN DecommitA(n)
     ELSE IF b_head < b_tail THEN DecommitB(n)
     ELSE UNCHANGED regions
  /\ rd' = NoRegion
  /\ call' = <<"skip", <<>>, n>>
  /\ stale' = FALSE
  /\ strayed' = (0 < Published.len /\ Published.len < n)
  /\ UNCHANGED <<data, reservation, wr, whole>>

(* clear knows nothing of a region that the producer or the consumer holds. *)
Clear ==
  /\ ClearsAnytime \/ (wr.pc = "idle" /\ rd.len = 0)
  /\ a_head' = 0 /\ a_tail' = 0 /\ b_head' = 0 /\ b_tail' = 0
  /\ is_b' = FALSE
  /\ res_size' = 0
  /\ call' = <<"clear", <<>>, 0>>
  /\ stale' = (rd.len > 0) /\ strayed' = FALSE
  /\ UNCHANGED <<data, res_head, wr, rd, whole>>

Producer ==
  \/ \E src \in Inputs : Reserve(src)
  \/ Fill
  \/ \E n \in 0 .. Size : Commit(n)
  \/ Abandon

Consumer ==
  \/ GetReadPtr
  \/ \E n \in 1 .. Size : CopyOut(n) \/ Decommit(n)
  \/ PeekReturns

(* Once the consumer has strayed, a_head is behind a_tail and what is read and
   written no longer makes sense: the model goes on with the next clear. *)
Next ==
  \/ Clear
  \/ ~strayed /\ Producer
  \/ ~strayed /\ Consumer

Spec == Init /\ [][Next]_vars

-----------------------------------------------------------------------------
Available == (a_tail - a_head) + (b_tail - b_head)

(* The type invariant. *)
TypeOK ==
  /\ data \in [Slots -> Bytes]
  /\ {a_head, a_tail, b_head, b_tail, res_head, res_size} \subseteq 0 .. Size
  /\ is_b \in BOOLEAN
  /\ wr \in [pc : {"idle", "reserved", "filled"}, at : 0 .. Size,
             len : 0 .. Size, src : Inputs \cup {<<>>}]
  /\ rd \in [at : 0 .. Size, len : 0 .. Size]
  /\ whole \in BOOLEAN /\ stale \in BOOLEAN /\ strayed \in BOOLEAN

InOrder ==
  /\ 0 <= a_head /\ a_head <= a_tail /\ a_tail <= Size
  /\ 0 <= b_head /\ b_head <= b_tail /\ b_tail <= Size
  /\ ~is_b => b_tail = 0
  /\ a_head < a_tail => b_tail <= a_head

(* The committed regions stay inside the array and apart, whatever the two
   threads interleave and whenever the buffer is cleared: B lies in front of
   what is left of A, and is empty unless it is open.  The exception is a
   consumer that had a region when the buffer was cleared, and decommits more
   of it than was written since. *)
RegionsApart == ~strayed => InOrder

Apart(r, from, to) == from >= to \/ r.at + r.len <= from \/ to <= r.at
Within(r, from, to) == from <= r.at /\ r.at + r.len <= to

(* The producer never writes a byte the consumer may be reading: a reservation
   lies inside the array and apart from what is committed, also one that was
   made before a clear; and what the consumer got a pointer to stays committed
   until it decommits, unless the buffer is cleared meanwhile.  The two
   memcpy's need no mutex as long as clear is not called between
   get_read_ptr and decommit. *)
NoRace ==
  /\ wr.len > 0 /\ ~strayed => /\ Within(wr, 0, Size)
                               /\ Apart(wr, a_head, a_tail)
                               /\ Apart(wr, b_head, b_tail)
  /\ rd.len > 0 /\ ~stale =>
       Within(rd, a_head, a_tail) \/ Within(rd, b_head, b_tail)

Refuses == Size > 0 /\ Available = 0 /\ wr.pc = "idle" /\ Reservation(1).len # 1

(* As long as every reservation was committed in full, an empty buffer that
   nobody is using accepts data: the region that a reservation opened is
   closed again, whatever the consumer did in between and whenever the buffer
   was cleared, unless the consumer strayed. *)
EmptyAcceptsDataIfCommitted == whole /\ ~strayed => ~Refuses

-----------------------------------------------------------------------------
(* The buffer is a byte queue that accepts part of a write and shows part of
   its contents: A holds the older bytes, B the newer ones. *)
Contents ==
  [i \in 1 .. a_tail - a_head |-> data[a_head + i - 1]] \o
  [i \in 1 .. b_tail - b_head |-> data[b_head + i - 1]]

Fifo == INSTANCE ByteFifo
          WITH fifo <- Contents, open <- TRUE, Capacity <- Size,
               Lengths <- 1 .. Size, Greedy <- FALSE

ImplementsByteFifo == Fifo!Spec
=============================================================================
