--------------------------- MODULE RingBufferProofs ----------------------------
(***************************************************************************)
(* For a ring of any size, any inputs and lengths and any threads: its     *)
(* indexes never disagree, no sum overflows, what the only producer or the *)
(* only consumer was told without the mutex stays true, and the ring is a  *)
(* byte queue.                                                             *)
(***************************************************************************)
EXTENDS RingBuffer, SequenceTheorems, TLAPS

(* The inductive invariant of the three indexes.  With Size = 0 nothing is
   ever written and they stay 0. *)
Indexes ==
  /\ head \in Nat /\ tail \in Nat /\ count \in Nat
  /\ IndexesAgree
  /\ Size = 0 => head = 0 /\ tail = 0

Stores ==
  /\ data \in [Slots -> Bytes]
  /\ freed \in BOOLEAN

Observations ==
  /\ seenFree \in [Producers -> Nat]
  /\ seenAvail \in [Consumers -> Nat]

-----------------------------------------------------------------------------
(* The remainder by Size of a position less than two turns ahead, as
   write and read compute it. *)
LEMMA Wrap ==
  ASSUME NEW S \in Nat \ {0}, NEW a \in Nat, a < 2 * S
  PROVE  a % S = IF a < S THEN a ELSE a - S
<1> DEFINE q == a \div S
           r == a % S
<1>1. a = S * q + r /\ r \in 0 .. S - 1 /\ q \in Int
  OBVIOUS
<1> HIDE DEF q, r
<1>2. q < 2
  <2> SUFFICES ASSUME q >= 2 PROVE FALSE
    BY <1>1
  <2>1. S * q >= S * 2
    BY <1>1
  <2> QED
    BY <1>1, <2>1
<1>3. q >= 0
  <2> SUFFICES ASSUME q <= -1 PROVE FALSE
    BY <1>1
  <2>1. S * q <= S * (-1)
    BY <1>1
  <2> QED
    BY <1>1, <2>1
<1>4. CASE q = 0
  <2>1. S * q = 0
    BY <1>4
  <2>2. r = a
    BY <1>1, <2>1
  <2> QED
    BY <1>1, <2>2 DEF r
<1>5. CASE q = 1
  <2>1. S * q = S
    BY <1>5
  <2>2. r = a - S
    BY <1>1, <2>1
  <2> QED
    BY <1>1, <2>2 DEF r
<1> QED
  BY <1>1, <1>2, <1>3, <1>4, <1>5

(* What a write stores is no longer than its input nor than the room left. *)
LEMMA WriteFits ==
  ASSUME Indexes, NEW src \in Inputs
  PROVE  /\ ToWrite(src) \in Int
         /\ ToWrite(src) <= Len(src)
         /\ ToWrite(src) <= Size - count
         /\ freed => ToWrite(src) = 0
         /\ ToWrite(src) >= 0
BY RingBufferAssumption DEF Indexes, IndexesAgree, ToWrite, Least

(* What a read takes is there. *)
LEMMA ReadFits ==
  ASSUME Indexes, NEW len \in Lengths
  PROVE  ToRead(len) \in 0 .. count
BY RingBufferAssumption DEF Indexes, IndexesAgree, ToRead, Least

(* Where the read position is after n bytes. *)
LEMMA HeadWraps ==
  ASSUME Indexes, NEW n \in 0 .. count, n > 0
  PROVE  (head + n) % Size = IF head + n < Size THEN head + n
                             ELSE head + n - Size
<1> USE RingBufferAssumption DEF Indexes, IndexesAgree
<1>1. Size > 0 /\ head + n \in Nat /\ head + n < 2 * Size
  OBVIOUS
<1>2. QED
  BY <1>1, Wrap

LEMMA AdvanceKeepsIndexes ==
  ASSUME Indexes, NEW c, NEW n \in 0 .. count, Advance(c, n)
  PROVE  Indexes'
<1> USE RingBufferAssumption DEF Indexes, IndexesAgree
<1>1. CASE n <= 0
  BY <1>1 DEF Advance, indexes
<1>2. CASE n > 0
  <2>1. (head + n) % Size = IF head + n < Size THEN head + n
                            ELSE head + n - Size
    BY <1>2, HeadWraps
  <2>2. head' = (head + n) % Size /\ count' = count - n /\ tail' = tail
    BY <1>2 DEF Advance
  <2> QED
    BY <1>2, <2>1, <2>2
<1> QED
  BY <1>1, <1>2

LEMMA StoreKeepsIndexes ==
  ASSUME Indexes, NEW n \in Nat, n > 0, n <= Size - count,
         tail' = (tail + n) % Size, count' = count + n, head' = head
  PROVE  Indexes'
<1> USE RingBufferAssumption DEF Indexes, IndexesAgree
<1>1. Size > 0 /\ tail + n \in Nat /\ tail + n < 2 * Size
  OBVIOUS
<1>2. (tail + n) % Size = IF tail + n < Size THEN tail + n
                          ELSE tail + n - Size
  BY <1>1, Wrap
<1> QED
  BY <1>1, <1>2

LEMMA IndexesInductive == Indexes /\ [Next]_vars => Indexes'
<1> SUFFICES ASSUME Indexes, [Next]_vars PROVE Indexes'
  OBVIOUS
<1> USE RingBufferAssumption
<1>1. ASSUME NEW p \in Producers, NEW src \in Inputs, Write(p, src)
      PROVE  Indexes'
  <2> DEFINE n == ToWrite(src)
  <2>1. CASE n <= 0
    BY <1>1, <2>1 DEF Write, indexes, Indexes, IndexesAgree
  <2>2. CASE n > 0
    <3>1. n \in Nat /\ n <= Size - count
      BY <2>2, WriteFits
    <3>2. /\ tail' = (tail + n) % Size
          /\ count' = count + n
          /\ head' = head
      BY <1>1, <2>2, <3>1 DEF Write
    <3> QED
      BY <2>2, <3>1, <3>2, StoreKeepsIndexes
  <2> QED
    BY <2>1, <2>2, WriteFits
<1>2. ASSUME NEW c \in Consumers, NEW len \in Lengths,
             Read(c, len) \/ Skip(c, len)
      PROVE  Indexes'
  <2>1. Advance(c, ToRead(len))
    BY <1>2 DEF Read, Skip
  <2> QED
    BY <2>1, ReadFits, AdvanceKeepsIndexes
<1>3. ASSUME NEW c \in Consumers, Clear(c)
      PROVE  Indexes'
  <2>1. CASE freed
    BY <1>3, <2>1 DEF Clear, indexes, Indexes, IndexesAgree
  <2>2. CASE ~freed
    BY <1>3, <2>2 DEF Clear, Indexes, IndexesAgree
  <2> QED
    BY <2>1, <2>2
<1>4. ASSUME UNCHANGED indexes PROVE Indexes'
  BY <1>4 DEF indexes, Indexes, IndexesAgree
<1>5. ASSUME NEW p \in Producers, AskFreeSpace(p) PROVE Indexes'
  BY <1>4, <1>5 DEF AskFreeSpace
<1>6. ASSUME NEW c \in Consumers, AskAvailable(c) PROVE Indexes'
  BY <1>4, <1>6 DEF AskAvailable
<1>7. ASSUME NEW len \in Lengths, Peek(len) PROVE Indexes'
  BY <1>4, <1>7 DEF Peek
<1>8. ASSUME Destroy PROVE Indexes'
  BY <1>4, <1>8 DEF Destroy
<1>9. ASSUME UNCHANGED vars PROVE Indexes'
  BY <1>4, <1>9 DEF vars
<1> QED
  BY <1>1, <1>2, <1>3, <1>5, <1>6, <1>7, <1>8, <1>9 DEF Next

-----------------------------------------------------------------------------
(* The two memcpy's of a write stay inside the array and inside the input. *)
LEMMA StoredInArray ==
  ASSUME Indexes, Stores, NEW src \in Inputs, NEW n \in Nat,
         n <= Len(src), n <= Size - count
  PROVE  Stored(src, n) \in [Slots -> Bytes]
<1> DEFINE first == Least(n, Size - tail)
<1>1. src \in Seq(Bytes) /\ Size \in Nat
  BY RingBufferAssumption
<1>2. first \in Nat /\ first <= n
  BY <1>1 DEF Indexes, IndexesAgree, Least
<1> HIDE DEF first
<1>3. ASSUME NEW i \in Slots
      PROVE  (IF i \in tail .. tail + first - 1 THEN src[i - tail + 1]
              ELSE IF i < n - first THEN src[first + i + 1]
              ELSE data[i]) \in Bytes
  <2>1. i \in Int /\ i >= 0 /\ tail \in Nat
    BY <1>1 DEF Slots, Indexes
  <2>2. CASE i \in tail .. tail + first - 1
    <3>1. i - tail + 1 \in 1 .. Len(src)
      BY <1>1, <1>2, <2>1, <2>2
    <3> QED
      BY <1>1, <2>2, <3>1
  <2>3. CASE i \notin tail .. tail + first - 1 /\ i < n - first
    <3>1. first + i + 1 \in 1 .. Len(src)
      BY <1>1, <1>2, <2>1, <2>3
    <3> QED
      BY <1>1, <2>3, <3>1
  <2>4. CASE i \notin tail .. tail + first - 1 /\ ~(i < n - first)
    BY <2>4 DEF Stores
  <2> QED
    BY <2>2, <2>3, <2>4
<1> QED
  BY <1>3 DEF Stored, first

LEMMA StoresInductive == Indexes /\ Stores /\ [Next]_vars => Stores'
<1> SUFFICES ASSUME Indexes, Stores, [Next]_vars PROVE Stores'
  OBVIOUS
<1>1. ASSUME UNCHANGED <<data, freed>> PROVE Stores'
  BY <1>1 DEF Stores
<1>2. ASSUME NEW p \in Producers, NEW src \in Inputs, Write(p, src)
      PROVE  Stores'
  <2> DEFINE n == ToWrite(src)
  <2>1. n \in Int
    BY WriteFits
  <2>2. CASE n <= 0
    BY <1>1, <1>2, <2>2 DEF Write
  <2>3. CASE n > 0
    <3>1. n \in Nat /\ n <= Len(src) /\ n <= Size - count
      BY <2>1, <2>3, WriteFits
    <3>2. data' = Stored(src, n) /\ freed' = freed
      BY <1>2, <2>1, <2>3 DEF Write
    <3> HIDE DEF n
    <3> QED
      BY <3>1, <3>2, StoredInArray DEF Stores
  <2> QED
    BY <2>1, <2>2, <2>3
<1>3. ASSUME NEW c \in Consumers, NEW len \in Lengths,
             Read(c, len) \/ Skip(c, len)
      PROVE  Stores'
  BY <1>1, <1>3 DEF Read, Skip, Advance
<1>4. ASSUME NEW c \in Consumers, Clear(c) PROVE Stores'
  BY <1>1, <1>4 DEF Clear
<1>5. ASSUME NEW p \in Producers, AskFreeSpace(p) PROVE Stores'
  BY <1>1, <1>5 DEF AskFreeSpace
<1>6. ASSUME NEW c \in Consumers, AskAvailable(c) PROVE Stores'
  BY <1>1, <1>6 DEF AskAvailable
<1>7. ASSUME NEW len \in Lengths, Peek(len) PROVE Stores'
  BY <1>1, <1>7 DEF Peek
<1>8. ASSUME Destroy PROVE Stores'
  BY <1>8 DEF Destroy, Stores
<1>9. ASSUME UNCHANGED vars PROVE Stores'
  BY <1>1, <1>9 DEF vars
<1> QED
  BY <1>2, <1>3, <1>4, <1>5, <1>6, <1>7, <1>8, <1>9 DEF Next

-----------------------------------------------------------------------------
(* What is left of an observation after n more bytes. *)
LEMMA UsedUpType ==
  ASSUME NEW T, NEW seen \in [T -> Nat], NEW t \in T, NEW n \in Nat
  PROVE  /\ UsedUp(seen, t, n) \in [T -> Nat]
         /\ UsedUp(seen, t, n)[t] = IF seen[t] > n THEN seen[t] - n ELSE 0
BY DEF UsedUp

LEMMA ObservationsInductive ==
  /\ Indexes /\ Stores
  /\ Observations /\ ObservationsHold
  /\ [Next]_vars
  => Observations' /\ ObservationsHold'
<1> SUFFICES ASSUME Indexes, Stores, Observations, ObservationsHold, [Next]_vars
             PROVE  Observations' /\ ObservationsHold'
  OBVIOUS
<1> USE RingBufferAssumption
<1>0. /\ Size \in Nat /\ count \in Nat /\ count <= Size
      /\ freed \in BOOLEAN
  BY DEF Indexes, IndexesAgree, Stores
<1>1. ASSUME NEW p \in Producers, NEW src \in Inputs, Write(p, src)
      PROVE  Observations' /\ ObservationsHold'
  <2> DEFINE n == ToWrite(src)
  <2>1. /\ n \in Nat
        /\ seenFree' = UsedUp(seenFree, p, n)
        /\ UNCHANGED <<freed, seenAvail>>
    BY <1>1, WriteFits DEF Write
  <2>2. count' = count + n
    <3>1. CASE n <= 0
      BY <1>0, <1>1, <2>1, <3>1 DEF Write, indexes
    <3>2. CASE n > 0
      BY <1>1, <2>1, <3>2 DEF Write
    <3> QED
      BY <2>1, <3>1, <3>2
  <2> HIDE DEF n
  <2>3. /\ seenFree' \in [Producers -> Nat]
        /\ seenFree'[p] = IF seenFree[p] > n THEN seenFree[p] - n ELSE 0
    BY <2>1, UsedUpType DEF Observations
  <2>4. Observations'
    BY <2>1, <2>3 DEF Observations
  <2>5. ASSUME ~freed', NEW q \in Producers, Producers = {q}
        PROVE  seenFree'[q] <= Size - count'
    <3>1. q = p
      BY <2>5
    <3>2. ~freed /\ seenFree[p] <= Size - count /\ seenFree[p] \in Nat
      BY <2>1, <2>5, <3>1 DEF ObservationsHold, Observations
    <3>3. n <= Size - count
      BY <3>2, WriteFits DEF n
    <3> QED
      BY <1>0, <2>1, <2>2, <2>3, <3>1, <3>2, <3>3
  <2>6. ASSUME ~freed', NEW c \in Consumers, Consumers = {c}
        PROVE  seenAvail'[c] <= count'
    BY <1>0, <2>1, <2>2, <2>6 DEF ObservationsHold, Observations
  <2> QED
    BY <2>4, <2>5, <2>6 DEF ObservationsHold
<1>2. ASSUME NEW c \in Consumers, NEW len \in Lengths,
             Read(c, len) \/ Skip(c, len)
      PROVE  Observations' /\ ObservationsHold'
  <2> DEFINE n == ToRead(len)
  <2>1. /\ n \in 0 .. count
        /\ Advance(c, n)
    BY <1>2, ReadFits DEF Read, Skip
  <2> HIDE DEF n
  <2>2. /\ seenAvail' = UsedUp(seenAvail, c, n)
        /\ UNCHANGED <<freed, seenFree>>
    BY <2>1 DEF Advance
  <2>3. count' = count - n
    <3>1. CASE n <= 0
      BY <1>0, <2>1, <3>1 DEF Advance, indexes
    <3>2. CASE n > 0
      BY <2>1, <3>2 DEF Advance
    <3> QED
      BY <1>0, <2>1, <3>1, <3>2
  <2>4. /\ seenAvail' \in [Consumers -> Nat]
        /\ seenAvail'[c] = IF seenAvail[c] > n THEN seenAvail[c] - n ELSE 0
    BY <1>0, <2>1, <2>2, UsedUpType DEF Observations
  <2>5. Observations'
    BY <2>2, <2>4 DEF Observations
  <2>6. ASSUME ~freed', NEW p \in Producers, Producers = {p}
        PROVE  seenFree'[p] <= Size - count'
    <3>1. seenFree[p] <= Size - count /\ seenFree[p] \in Nat
      BY <2>2, <2>6 DEF ObservationsHold, Observations
    <3> QED
      BY <1>0, <2>1, <2>2, <2>3, <3>1
  <2>7. ASSUME ~freed', NEW d \in Consumers, Consumers = {d}
        PROVE  seenAvail'[d] <= count'
    <3>1. d = c
      BY <2>7
    <3>2. seenAvail[c] <= count /\ seenAvail[c] \in Nat
      BY <2>2, <2>7, <3>1 DEF ObservationsHold, Observations
    <3> QED
      BY <1>0, <2>1, <2>3, <2>4, <3>1, <3>2
  <2> QED
    BY <2>5, <2>6, <2>7 DEF ObservationsHold
<1>3. ASSUME NEW c \in Consumers, Clear(c)
      PROVE  Observations' /\ ObservationsHold'
  <2>1. /\ seenAvail' = [seenAvail EXCEPT ![c] = 0]
        /\ UNCHANGED <<freed, seenFree>>
    BY <1>3 DEF Clear
  <2>2. Observations'
    BY <2>1 DEF Observations
  <2>3. ASSUME ~freed' PROVE count' = 0
    BY <1>3, <2>1, <2>3 DEF Clear
  <2>4. ASSUME ~freed', NEW p \in Producers, Producers = {p}
        PROVE  seenFree'[p] <= Size - count'
    <3>1. seenFree[p] <= Size - count /\ seenFree[p] \in Nat
      BY <2>1, <2>4 DEF ObservationsHold, Observations
    <3> QED
      BY <1>0, <2>1, <2>3, <2>4, <3>1
  <2>5. ASSUME ~freed', NEW d \in Consumers, Consumers = {d}
        PROVE  seenAvail'[d] <= count'
    <3>1. seenAvail'[d] = 0
      BY <2>1, <2>5 DEF Observations
    <3> QED
      BY <2>3, <2>5, <3>1
  <2> QED
    BY <2>2, <2>4, <2>5 DEF ObservationsHold
<1>4. ASSUME NEW p \in Producers, AskFreeSpace(p)
      PROVE  Observations' /\ ObservationsHold'
  <2>1. /\ seenFree' = [seenFree EXCEPT ![p] = IF freed THEN 0
                                               ELSE Size - count]
        /\ count' = count /\ UNCHANGED <<freed, seenAvail>>
    BY <1>4 DEF AskFreeSpace, indexes
  <2>2. (IF freed THEN 0 ELSE Size - count) \in Nat
    BY <1>0
  <2> QED
    BY <1>0, <2>1, <2>2 DEF Observations, ObservationsHold
<1>5. ASSUME NEW c \in Consumers, AskAvailable(c)
      PROVE  Observations' /\ ObservationsHold'
  <2>1. /\ seenAvail' = [seenAvail EXCEPT ![c] = IF freed THEN 0 ELSE count]
        /\ count' = count /\ UNCHANGED <<freed, seenFree>>
    BY <1>5 DEF AskAvailable, indexes
  <2> QED
    BY <1>0, <2>1 DEF Observations, ObservationsHold
<1>6. ASSUME NEW len \in Lengths, Peek(len)
      PROVE  Observations' /\ ObservationsHold'
  BY <1>6 DEF Peek, indexes, Observations, ObservationsHold
<1>7. ASSUME Destroy PROVE Observations' /\ ObservationsHold'
  BY <1>7 DEF Destroy, Observations, ObservationsHold
<1>8. ASSUME UNCHANGED vars PROVE Observations' /\ ObservationsHold'
  BY <1>8 DEF vars, indexes, Observations, ObservationsHold
<1> QED
  BY <1>1, <1>2, <1>3, <1>4, <1>5, <1>6, <1>7, <1>8 DEF Next

-----------------------------------------------------------------------------
(* The inductive invariant. *)
IInv == Indexes /\ Stores /\ Observations /\ ObservationsHold

(* Every reachable state satisfies the inductive invariant. *)
THEOREM Inductive == Spec => []IInv
<1>1. Init => IInv
  <2> SUFFICES ASSUME Init PROVE IInv
    OBVIOUS
  <2>1. Indexes
    BY RingBufferAssumption DEF Init, Indexes, IndexesAgree
  <2>2. Stores
    BY DEF Init, Stores
  <2>3. Observations
    BY DEF Init, Observations
  <2>4. ObservationsHold
    BY RingBufferAssumption DEF Init, ObservationsHold
  <2> QED
    BY <2>1, <2>2, <2>3, <2>4 DEF IInv
<1>2. IInv /\ [Next]_vars => IInv'
  BY IndexesInductive, StoresInductive, ObservationsInductive DEF IInv
<1> QED
  BY <1>1, <1>2, PTL DEF Spec

(* The members of a ring of any size have their types: head, tail and count of
   native/src/buffer_native.cpp are never negative and the array keeps its
   length. *)
THEOREM RingTypeCorrect == Spec => []TypeOK
<1>1. IInv => TypeOK
  BY DEF IInv, Indexes, Stores, Observations, TypeOK
<1> QED
  BY <1>1, Inductive, PTL

(* The write position stays `count' bytes after the read position in a ring of
   any size, through every wrap-around, clear and destroy. *)
THEOREM IndexesAlwaysAgree == Spec => []IndexesAgree
<1>1. IInv => IndexesAgree
  BY DEF IInv, Indexes
<1> QED
  BY <1>1, Inductive, PTL

(* Neither sum that write and read compute overflows an int, if twice the size
   does not. *)
THEOREM SumsAlwaysFit == Spec => []SumsFit
<1>1. IInv => SumsFit
  BY RingBufferAssumption DEF IInv, Indexes, IndexesAgree, SumsFit
<1> QED
  BY <1>1, Inductive, PTL

(* What available() and free_space() report without the mutex stays true for
   the only consumer and the only producer, however many threads there are on
   the other side. *)
THEOREM ObservationsAlwaysHold == Spec => []ObservationsHold
<1>1. IInv => ObservationsHold
  BY DEF IInv
<1> QED
  BY <1>1, Inductive, PTL

-----------------------------------------------------------------------------
(***************************************************************************)
(* The ring implements ByteFifo.                                           *)
(***************************************************************************)

(* The queue that the ring stands for, and where its k-th byte is. *)
Queue == IF freed THEN <<>> ELSE Contents
Slot(k) == IF head + k - 1 < Size THEN head + k - 1 ELSE head + k - 1 - Size

(* A function on 1 .. n is a sequence of length n. *)
LEMMA FunctionIsSeq ==
  ASSUME NEW S, NEW n \in Nat, NEW f \in [1 .. n -> S]
  PROVE  f \in Seq(S) /\ Len(f) = n
<1>1. f \in Seq(S)
  BY SeqDef
<1>2. Len(f) \in Nat /\ 1 .. Len(f) = 1 .. n
  BY <1>1, LenProperties
<1>3. QED
  BY <1>1, <1>2

LEMMA SlotInArray ==
  ASSUME Indexes, NEW k \in 1 .. count
  PROVE  Slot(k) \in Slots
BY RingBufferAssumption DEF Indexes, IndexesAgree, Slot, Slots

ContentsAre ==
  /\ Contents \in Seq(Bytes) /\ Len(Contents) = count
  /\ \A k \in 1 .. count : Contents[k] = data[Slot(k)]

(* The queued bytes are a sequence of bytes as long as `count' says. *)
LEMMA ContentsBytes == Indexes /\ Stores => ContentsAre
<1> SUFFICES ASSUME Indexes, Stores PROVE ContentsAre
  OBVIOUS
<1>1. Contents = [k \in 1 .. count |-> data[Slot(k)]]
  BY DEF Contents, Slot
<1>2. \A k \in 1 .. count : data[Slot(k)] \in Bytes
  BY SlotInArray DEF Stores
<1>3. Contents \in [1 .. count -> Bytes] /\ count \in Nat
  BY <1>1, <1>2 DEF Indexes
<1>4. QED
  BY <1>1, <1>3, FunctionIsSeq DEF ContentsAre

QueueIs == Queue \in Seq(Bytes) /\ Len(Queue) = IF freed THEN 0 ELSE count

(* A destroyed ring holds nothing. *)
LEMMA QueueType == Indexes /\ Stores => QueueIs
BY ContentsBytes, EmptySeq DEF Queue, QueueIs, ContentsAre

(* The two memcpy's of write leave the queued bytes alone and put the new ones
   behind them. *)
LEMMA StoredBytes ==
  ASSUME Indexes, Stores, NEW src \in Inputs, NEW n \in Nat,
         n <= Len(src), n <= Size - count, NEW k \in 1 .. count + n
  PROVE  Stored(src, n)[Slot(k)] = IF k <= count THEN data[Slot(k)]
                                   ELSE src[k - count]
<1> DEFINE first == Least(n, Size - tail)
<1> USE RingBufferAssumption DEF Indexes, IndexesAgree
<1>1. /\ Size \in Nat \ {0} /\ head \in 0 .. Size - 1 /\ tail \in 0 .. Size - 1
      /\ count \in 0 .. Size /\ n \in 0 .. Size - count /\ k \in 1 .. Size
  OBVIOUS
<1>2. first = IF n <= Size - tail THEN n ELSE Size - tail
  BY DEF Least
<1>3. Slot(k) \in Slots
  BY <1>1 DEF Slot, Slots
<1>4. Stored(src, n)[Slot(k)] =
        IF Slot(k) \in tail .. tail + first - 1 THEN src[Slot(k) - tail + 1]
        ELSE IF Slot(k) < n - first THEN src[first + Slot(k) + 1]
        ELSE data[Slot(k)]
  BY <1>3 DEF Stored
<1> HIDE DEF first
<1>5. CASE k <= count
  <2>1. /\ Slot(k) \notin tail .. tail + first - 1
        /\ ~(Slot(k) < n - first)
    BY <1>1, <1>2, <1>5 DEF Slot
  <2>2. QED
    BY <1>4, <1>5, <2>1
<1>6. CASE k > count
  <2>1. CASE Slot(k) >= tail
    <3>1. /\ Slot(k) \in tail .. tail + first - 1
          /\ Slot(k) - tail + 1 = k - count
      BY <1>1, <1>2, <1>6, <2>1 DEF Slot
    <3>2. QED
      BY <1>1, <1>4, <1>6, <3>1
  <2>2. CASE Slot(k) < tail
    <3>1. /\ Slot(k) < n - first
          /\ first + Slot(k) + 1 = k - count
      BY <1>1, <1>2, <1>6, <2>2 DEF Slot
    <3>2. Slot(k) \notin tail .. tail + first - 1
      BY <1>1, <1>3, <2>2 DEF Slots
    <3>3. QED
      BY <1>1, <1>4, <1>6, <3>1, <3>2
  <2>3. QED
    BY <1>1, <1>3, <2>1, <2>2 DEF Slots
<1>7. QED
  BY <1>1, <1>5, <1>6

(* A write appends as much of its input as ToWrite says. *)
LEMMA WriteAppends ==
  ASSUME Indexes, Stores, Indexes', Stores',
         NEW p, NEW src \in Inputs, Write(p, src), NEW n, n = ToWrite(src)
  PROVE  Queue' = Queue \o SubSeq(src, 1, n)
<1>1. /\ n \in Nat /\ n <= Len(src) /\ n <= Size - count /\ (freed => n = 0)
      /\ src \in Seq(Bytes) /\ freed' = freed
  BY WriteFits, RingBufferAssumption DEF Write
<1>2. ASSUME n = 0 PROVE UNCHANGED <<data, indexes>>
  BY <1>2 DEF Write
<1>3. ASSUME n > 0
      PROVE  data' = Stored(src, n) /\ count' = count + n /\ head' = head
  BY <1>1, <1>3 DEF Write
<1> DEFINE written == SubSeq(src, 1, n)
<1>4. /\ written \in Seq(Bytes) /\ Len(written) = n
      /\ \A k \in 1 .. n : written[k] = src[k]
  <2>1. \A k \in 1 .. n : src[k] \in Bytes
    BY <1>1, ElementOfSeq
  <2>2. QED
    BY <1>1, <2>1, SubSeqProperties
<1> HIDE DEF written
<1>5. CASE n = 0
  <2>1. Queue' = Queue
    BY <1>1, <1>2, <1>5 DEF Queue, Contents, indexes
  <2>2. written = <<>>
    BY <1>4, <1>5, EmptySeq
  <2>3. QED
    BY <2>1, <2>2, QueueType, ConcatEmptySeq DEF QueueIs, written
<1>6. CASE n > 0
  <2>1. Queue = Contents /\ Queue' = Contents'
    BY <1>1, <1>6 DEF Queue
  <2>2. /\ Contents' \in Seq(Bytes) /\ Len(Contents') = count + n
        /\ \A k \in 1 .. count + n : Contents'[k] = Stored(src, n)[Slot(k)]
    <3>1. ContentsAre'
      BY ContentsBytes, PTL
    <3>2. \A k : Slot(k)' = Slot(k)
      BY <1>3, <1>6 DEF Slot
    <3>3. QED
      BY <1>3, <1>6, <3>1, <3>2 DEF ContentsAre
  <2>3. /\ Contents \o written \in Seq(Bytes)
        /\ Len(Contents \o written) = count + n
        /\ \A k \in 1 .. count + n : (Contents \o written)[k] =
             IF k <= count THEN Contents[k] ELSE written[k - count]
    <3>1. Contents \in Seq(Bytes) /\ Len(Contents) = count
      BY ContentsBytes DEF ContentsAre
    <3>2. /\ Contents \o written \in Seq(Bytes)
          /\ Len(Contents \o written) = Len(Contents) + Len(written)
          /\ \A k \in 1 .. Len(Contents) + Len(written) :
               (Contents \o written)[k] =
                 IF k <= Len(Contents) THEN Contents[k]
                 ELSE written[k - Len(Contents)]
      BY <1>4, <3>1, ConcatProperties
    <3>3. QED
      BY <1>4, <3>1, <3>2
  <2>4. ASSUME NEW k \in 1 .. count + n
        PROVE  Contents'[k] = (Contents \o written)[k]
    <3>1. Contents'[k] = IF k <= count THEN data[Slot(k)] ELSE src[k - count]
      BY <1>1, <2>2, StoredBytes
    <3>2. CASE k <= count
      BY <2>3, <3>1, <3>2, ContentsBytes DEF ContentsAre, Indexes
    <3>3. CASE k > count
      <4>1. k - count \in 1 .. n
        BY <1>1, <3>3 DEF Indexes
      <4>2. QED
        BY <1>4, <2>3, <3>1, <3>3, <4>1 DEF Indexes
    <3>4. k <= count \/ k > count
      BY <1>1 DEF Indexes
    <3>5. QED
      BY <3>2, <3>3, <3>4
  <2>5. Contents' = Contents \o written
    BY <2>2, <2>3, <2>4, SeqEqual
  <2>6. QED
    BY <2>1, <2>5 DEF written
<1>7. QED
  BY <1>1, <1>5, <1>6

(* What read and skip advance over is a prefix of the queue. *)
LEMMA AdvanceRemoves ==
  ASSUME Indexes, Stores, Indexes', Stores',
         NEW c, NEW n \in 0 .. count, freed => n = 0, Advance(c, n)
  PROVE  Queue' = SubSeq(Queue, n + 1, Len(Queue))
<1>1. /\ UNCHANGED <<data, freed>> /\ count \in Nat
      /\ Queue \in Seq(Bytes) /\ Len(Queue) = IF freed THEN 0 ELSE count
  BY QueueType DEF QueueIs, Advance, Indexes
<1>2. CASE n = 0
  <2>1. Queue' = Queue
    BY <1>1, <1>2 DEF Advance, indexes, Queue, Contents
  <2>2. SubSeq(Queue, 1, Len(Queue)) = Queue
    BY <1>1, SubSeqFull
  <2>3. QED
    BY <1>2, <2>1, <2>2
<1>3. CASE n > 0
  <2>1. /\ ~freed /\ Queue = Contents /\ Queue' = Contents'
        /\ head' = (head + n) % Size /\ count' = count - n
    BY <1>1, <1>3 DEF Advance, Queue
  <2>2. /\ Size \in Nat \ {0} /\ head \in 0 .. Size - 1
        /\ count \in 0 .. Size /\ n \in 1 .. count
    BY <1>3, RingBufferAssumption DEF Indexes, IndexesAgree
  <2>3. head' = IF head + n < Size THEN head + n ELSE head + n - Size
    BY <1>3, <2>1, HeadWraps
  <2>4. \A k \in 1 .. count - n : Slot(k)' = Slot(k + n)
    BY <2>2, <2>3 DEF Slot
  <2>5. /\ Contents' \in Seq(Bytes) /\ Len(Contents') = count - n
        /\ \A k \in 1 .. count - n : Contents'[k] = data[Slot(k + n)]
    <3>1. ContentsAre'
      BY ContentsBytes, PTL
    <3>2. QED
      BY <1>1, <2>1, <2>4, <3>1 DEF ContentsAre
  <2>6. /\ SubSeq(Contents, n + 1, count) \in Seq(Bytes)
        /\ Len(SubSeq(Contents, n + 1, count)) = count - n
        /\ \A k \in 1 .. count - n :
             SubSeq(Contents, n + 1, count)[k] = Contents[k + n]
    <3>1. \A k \in n + 1 .. count : Contents[k] \in Bytes
      BY <2>2, ContentsBytes, ElementOfSeq DEF ContentsAre
    <3>2. /\ SubSeq(Contents, n + 1, count) \in Seq(Bytes)
          /\ Len(SubSeq(Contents, n + 1, count)) =
               IF n + 1 <= count THEN count - (n + 1) + 1 ELSE 0
          /\ \A k \in 1 .. count - (n + 1) + 1 :
               SubSeq(Contents, n + 1, count)[k] = Contents[(n + 1) + k - 1]
      <4>1. n + 1 \in Int /\ count \in Int
        BY <2>2
      <4>2. QED
        BY <3>1, <4>1, SubSeqProperties
    <3>3. \A k \in 1 .. count - n : (n + 1) + k - 1 = k + n
      BY <2>2
    <3>4. count - (n + 1) + 1 = count - n
      BY <2>2
    <3>5. QED
      BY <2>2, <3>2, <3>3, <3>4
  <2>7. \A k \in 1 .. count - n : Contents[k + n] = data[Slot(k + n)]
    <3>1. \A k \in 1 .. count - n : k + n \in 1 .. count
      BY <2>2
    <3>2. QED
      BY <3>1, ContentsBytes DEF ContentsAre
  <2>8. Contents' = SubSeq(Contents, n + 1, count)
    BY <2>5, <2>6, <2>7, SeqEqual
  <2>9. QED
    BY <1>1, <2>1, <2>8
<1>4. QED
  BY <1>2, <1>3

(* The two memcpy's of read copy out a prefix of the queue. *)
LEMMA FetchedBytes ==
  ASSUME Indexes, Stores, NEW n \in 0 .. count, freed => n = 0
  PROVE  Fetched(n) = SubSeq(Queue, 1, n)
<1> DEFINE first == Least(n, Size - head)
<1>1. /\ count \in Nat /\ n \in Nat
      /\ Queue \in Seq(Bytes) /\ Len(Queue) = IF freed THEN 0 ELSE count
  BY QueueType DEF QueueIs, Indexes
<1>2. first = IF n <= Size - head THEN n ELSE Size - head
  BY DEF Least
<1>3. Fetched(n) = [k \in 1 .. n |-> IF k <= first THEN data[head + k - 1]
                                     ELSE data[k - first - 1]]
  BY DEF Fetched
<1> HIDE DEF first
<1>4. ASSUME NEW k \in 1 .. n
      PROVE  /\ Fetched(n)[k] = Queue[k] /\ Queue[k] \in Bytes
  <2>1. Queue = Contents /\ Contents[k] = data[Slot(k)]
    BY <1>1, ContentsBytes DEF ContentsAre, Queue
  <2>2. /\ Size \in Nat \ {0} /\ head \in 0 .. Size - 1 /\ count <= Size
        /\ k \in 1 .. count
    BY RingBufferAssumption DEF Indexes, IndexesAgree
  <2>3. Fetched(n)[k] = IF k <= first THEN data[head + k - 1]
                        ELSE data[k - first - 1]
    BY <1>3
  <2>4. IF k <= first THEN head + k - 1 = Slot(k) ELSE k - first - 1 = Slot(k)
    BY <1>1, <1>2, <2>2 DEF Slot
  <2>5. Contents[k] \in Bytes
    BY <2>2, ContentsBytes, ElementOfSeq DEF ContentsAre
  <2>6. QED
    BY <2>1, <2>3, <2>4, <2>5
<1>5. Fetched(n) \in Seq(Bytes) /\ Len(Fetched(n)) = n
  <2>1. Fetched(n) \in [1 .. n -> Bytes]
    BY <1>3, <1>4
  <2>2. QED
    BY <1>1, <2>1, FunctionIsSeq
<1>6. /\ SubSeq(Queue, 1, n) \in Seq(Bytes) /\ Len(SubSeq(Queue, 1, n)) = n
      /\ \A k \in 1 .. n : SubSeq(Queue, 1, n)[k] = Queue[k]
  BY <1>1, <1>4, SubSeqProperties
<1>7. QED
  BY <1>4, <1>5, <1>6, SeqEqual

(* A read, a peek or a skip is as long as the queue allows. *)
LEMMA ReadLength ==
  ASSUME Indexes, Stores, NEW len \in Lengths
  PROVE  /\ ToRead(len) \in 0 .. count /\ (freed => ToRead(len) = 0)
         /\ ToRead(len) = Fifo!Least(len, Len(Queue))
BY ReadFits, QueueType, RingBufferAssumption
DEF QueueIs, ToRead, Least, Fifo!Least, Indexes

LEMMA FifoStep ==
  Indexes /\ Stores /\ [Next]_vars => [Fifo!Next]_Fifo!vars
<1> SUFFICES ASSUME Indexes, Stores, [Next]_vars
             PROVE  Fifo!Next \/ UNCHANGED Fifo!vars
  OBVIOUS
<1>1. Indexes' /\ Stores'
  BY IndexesInductive, StoresInductive
<1> DEFINE Quiet == UNCHANGED Fifo!vars
<1>2. ASSUME NEW p \in Producers, NEW src \in Inputs, Write(p, src)
      PROVE  Fifo!Write(src)
  <2>1. /\ call' = <<"write", src, ToWrite(src)>> /\ freed' = freed
        /\ Queue' = Queue \o SubSeq(src, 1, ToWrite(src))
    BY <1>1, <1>2, WriteAppends DEF Write
  <2> DEFINE room == IF ~freed THEN Fifo!Least(Len(src), Size - Len(Queue))
                     ELSE 0
  <2>2. ToWrite(src) = room
    BY QueueType DEF QueueIs, ToWrite, Least, Fifo!Least
  <2>3. ToWrite(src) \in 0 .. Len(src) /\ ToWrite(src) <= ToWrite(src)
    BY WriteFits, RingBufferAssumption, LenProperties
  <2>4. QED
    BY <2>1, <2>2, <2>3 DEF Fifo!Write, Fifo!Prefix, Queue
<1>3. ASSUME NEW c \in Consumers, NEW len \in Lengths, Read(c, len)
      PROVE  Fifo!Read(len)
  <2>1. /\ call' = <<"read", SubSeq(Queue, 1, ToRead(len)), ToRead(len)>>
        /\ Queue' = SubSeq(Queue, ToRead(len) + 1, Len(Queue))
        /\ freed' = freed
    BY <1>1, <1>3, ReadLength, FetchedBytes, AdvanceRemoves DEF Read, Advance
  <2>2. QED
    BY <2>1, ReadLength DEF Fifo!Read, Fifo!Prefix, Fifo!Rest, Queue
<1>4. ASSUME NEW len \in Lengths, Peek(len)
      PROVE  Fifo!Peek(len)
  <2>1. /\ call' = <<"peek", SubSeq(Queue, 1, ToRead(len)), ToRead(len)>>
        /\ freed' = freed
    BY <1>4, ReadLength, FetchedBytes DEF Peek
  <2>2. Queue' = Queue
    BY <1>4 DEF Peek, indexes, Queue, Contents
  <2>3. QED
    BY <2>1, <2>2, ReadLength DEF Fifo!Peek, Fifo!Prefix, Queue
<1>5. ASSUME NEW c \in Consumers, NEW len \in Lengths, Skip(c, len)
      PROVE  Fifo!Skip(len)
  <2>1. /\ call' = <<"skip", <<>>, ToRead(len)>>
        /\ Queue' = SubSeq(Queue, ToRead(len) + 1, Len(Queue))
        /\ freed' = freed
    BY <1>1, <1>5, ReadLength, AdvanceRemoves DEF Skip, Advance
  <2>2. QED
    BY <2>1, ReadLength DEF Fifo!Skip, Fifo!Rest, Queue
<1>6. ASSUME NEW c \in Consumers, Clear(c)
      PROVE  Fifo!Clear
  <2>1. call' = <<"clear", <<>>, 0>> /\ freed' = freed
    BY <1>6 DEF Clear
  <2>2. Queue' = <<>>
    <3>1. CASE freed
      BY <2>1, <3>1 DEF Queue
    <3>2. CASE ~freed
      <4>1. count' = 0
        BY <1>6, <3>2 DEF Clear
      <4>2. QueueIs'
        BY <1>1, QueueType, PTL
      <4>3. QED
        BY <2>1, <3>2, <4>1, <4>2, EmptySeq DEF QueueIs
    <3>3. QED
      BY <3>1, <3>2
  <2>3. QED
    BY <2>1, <2>2 DEF Fifo!Clear, Queue
<1>7. ASSUME Destroy PROVE Fifo!Destroy
  BY <1>7 DEF Destroy, Fifo!Destroy
<1>8. ASSUME UNCHANGED <<data, indexes, freed, call>> PROVE Quiet
  BY <1>8 DEF indexes, Contents, Fifo!vars
<1> HIDE DEF Quiet
<1>9. ASSUME \/ \E p \in Producers : AskFreeSpace(p)
             \/ \E c \in Consumers : AskAvailable(c)
             \/ UNCHANGED vars
      PROVE  Quiet
  BY <1>8, <1>9 DEF AskFreeSpace, AskAvailable, vars
<1>10. Fifo!Next \/ Quiet
  BY <1>2, <1>3, <1>4, <1>5, <1>6, <1>7, <1>9 DEF Next, Fifo!Next
<1>11. QED
  BY <1>10 DEF Quiet

(* A ring of any size is a byte queue: what is read is what was written, in
   order and across the end of the array, a write takes all there is room for,
   and a peek takes nothing. *)
THEOREM RingImplementsFifo == Spec => ImplementsByteFifo
<1>1. Init => Fifo!Init
  <2> SUFFICES ASSUME Init PROVE Fifo!Init
    OBVIOUS
  <2>1. Contents = <<>>
    BY DEF Init, Contents
  <2>2. QED
    BY <2>1 DEF Init, Fifo!Init
<1>2. IInv /\ [Next]_vars => [Fifo!Next]_Fifo!vars
  BY FifoStep DEF IInv
<1>3. QED
  BY <1>1, <1>2, Inductive, PTL DEF Spec, ImplementsByteFifo, Fifo!Spec
=============================================================================
