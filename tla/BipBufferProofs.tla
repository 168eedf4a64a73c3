---------------------------- MODULE BipBufferProofs ----------------------------
(***************************************************************************)
(* For a buffer of any size and any inputs, whatever one producer and one  *)
(* consumer interleave: the regions stay apart, the copies outside the     *)
(* mutex do not meet, and an empty buffer accepts data if every            *)
(* reservation was committed in full.  If no operation overlaps another,   *)
(* the buffer is a byte queue.                                             *)
(***************************************************************************)
EXTENDS BipBuffer, SequenceTheorems, TLAPS

Members ==
  /\ a_head \in Nat /\ a_tail \in Nat /\ b_head \in Nat /\ b_tail \in Nat
  /\ is_b \in BOOLEAN /\ whole \in BOOLEAN /\ stale \in BOOLEAN
  /\ res_head \in 0 .. Size /\ res_size \in 0 .. Size

(* An empty region starts at 0, and B is only read once A is empty. *)
Layout ==
  /\ InOrder
  /\ a_head = a_tail => a_head = 0
  /\ b_head = b_tail => b_head = 0
  /\ b_head > 0 => a_head = a_tail

(* The producer's own account of its region. *)
Taken ==
  /\ wr \in [pc : {"idle", "reserved", "filled"}, at : 0 .. Size,
             len : 0 .. Size, src : Inputs \cup {<<>>}]
  /\ wr.pc = "idle" => wr.len = 0
  /\ wr.pc # "idle" =>
       /\ wr.len > 0 /\ wr.src \in Inputs /\ wr.len <= Len(wr.src)
       /\ wr.at + wr.len <= Size

(* Nothing is published nor reserved: so it is from a clear until the commit of
   what was reserved before it. *)
Emptied ==
  /\ res_size = 0 /\ ~is_b
  /\ a_head = 0 /\ a_tail = 0 /\ b_head = 0 /\ b_tail = 0

(* The producer's region is the one it reserved, or the buffer was cleared
   meanwhile.  While B is open it starts behind B and ends in front of A,
   unless the consumer emptied A before anything was committed to B; otherwise
   it lies behind A. *)
Reserved ==
  /\ Taken
  /\ wr.pc # "idle" =>
       /\ res_size = wr.len \/ Emptied
       /\ ~is_b => wr.at >= a_tail
       /\ is_b /\ a_head < a_tail => wr.at = b_tail /\ wr.at + wr.len <= a_head
       /\ is_b /\ a_head = a_tail => wr.at = 0 /\ b_tail = 0

(* What the consumer was shown is still the start of what is published, if the
   buffer was not cleared meanwhile.  If it was, everything since lies in A and
   starts at 0. *)
Region == rd \in [at : 0 .. Size, len : 0 .. Size]
Shown ==
  /\ Region
  /\ rd.len > 0 /\ ~stale => rd.at = Published.at /\ rd.len <= Published.len
  /\ stale => rd.len > 0 /\ a_head = 0 /\ ~is_b

(* B does not stay open without data. *)
Closed == whole /\ is_b /\ wr.pc = "idle" => b_tail > 0

Stores == data \in [Slots -> Bytes]

(* Without a clear between the steps of a write or a read *)
Undisturbed ==
  ~ClearsAnytime => ~stale /\ (wr.pc # "idle" => res_size = wr.len)

Ordered ==
  /\ Members /\ Layout /\ Reserved /\ Shown /\ Closed /\ Stores
  /\ Undisturbed /\ strayed = FALSE

(* What is left once the consumer has strayed *)
Strayed ==
  /\ Members /\ Taken /\ Region /\ Stores
  /\ {a_head, a_tail, b_head, b_tail} \subseteq 0 .. Size
  /\ strayed = TRUE /\ stale = FALSE /\ rd.len = 0 /\ ClearsAnytime

(* The inductive invariant. *)
IInv == Ordered \/ Strayed

-----------------------------------------------------------------------------
(* What a reservation can be. *)
LEMMA ReservationFits ==
  ASSUME Ordered, NEW n \in Nat, n > 0
  PROVE  LET r == Reservation(n) IN
         /\ r.at \in 0 .. Size /\ r.len \in Int /\ r.len <= n
         /\ r.len > 0 => r.at + r.len <= Size
         /\ is_b => r.at = b_tail /\ r.len <= a_head - b_tail
         /\ ~is_b /\ StaysInA(n) => r.at = a_tail /\ r.len >= 0
         /\ ~is_b /\ ~StaysInA(n) =>
              r.at = 0 /\ 0 < r.len /\ r.len <= a_head /\ a_head < a_tail
<1> USE BipBufferAssumption DEF Ordered, Members, Layout, InOrder, Reservation,
        Least
<1>1. CASE is_b
  BY <1>1
<1>2. CASE ~is_b /\ StaysInA(n)
  BY <1>2
<1>3. CASE ~is_b /\ ~StaysInA(n)
  BY <1>3 DEF StaysInA
<1> QED
  BY <1>1, <1>2, <1>3

(* A nonempty input. *)
LEMMA InputLength ==
  ASSUME NEW src \in Inputs
  PROVE  src \in Seq(Bytes) /\ Len(src) \in Nat /\ Len(src) > 0
BY BipBufferAssumption

LEMMA ReserveKeeps ==
  ASSUME Ordered, NEW src \in Inputs, Reserve(src)
  PROVE  Ordered'
<1> DEFINE n == Len(src)
           r == Reservation(n)
<1>1. n \in Nat /\ n > 0
  BY InputLength
<1>2. /\ r.at \in 0 .. Size /\ r.len \in Int /\ r.len <= n
      /\ r.len > 0 => r.at + r.len <= Size
      /\ is_b => r.at = b_tail /\ r.len <= a_head - b_tail
      /\ ~is_b /\ StaysInA(n) => r.at = a_tail /\ r.len >= 0
      /\ ~is_b /\ ~StaysInA(n) =>
           r.at = 0 /\ 0 < r.len /\ r.len <= a_head /\ a_head < a_tail
  BY <1>1, ReservationFits
<1>3. /\ wr.pc = "idle"
      /\ UNCHANGED <<data, a_head, a_tail, b_head, b_tail, rd, whole, stale, strayed>>
      /\ IF is_b /\ r.len <= 0 THEN UNCHANGED <<<<res_head, res_size>>, is_b>>
         ELSE /\ res_head' = r.at /\ res_size' = r.len
              /\ is_b' = (is_b \/ ~StaysInA(n))
      /\ IF r.len <= 0 THEN wr' = wr
         ELSE wr' = [pc |-> "reserved", at |-> r.at, len |-> r.len,
                     src |-> src]
  BY Zenon DEF Reserve, reservation, clears
<1> DEFINE stays == StaysInA(n)
<1>4. stays \in BOOLEAN
  BY DEF StaysInA
<1> HIDE DEF r, n, stays
<1>5. Stores' /\ strayed' = FALSE
  BY <1>3 DEF Ordered, Stores
<1>8. ASSUME stale => ~is_b' PROVE Shown'
  BY <1>3, <1>8 DEF Ordered, Shown, Region, Published, NoRegion
<1>6. CASE r.len <= 0
  <2>1. is_b' = is_b /\ wr' = wr
    BY <1>2, <1>3, <1>4, <1>6 DEF stays, Ordered, Members
  <2>2. Members'
    BY <1>2, <1>3, <1>6, <2>1, BipBufferAssumption DEF Ordered, Members, stays
  <2>3. Layout' /\ Closed'
    BY <1>3, <2>1 DEF Ordered, Layout, InOrder, Closed
  <2>4. Reserved'
    BY <1>3, <2>1 DEF Ordered, Reserved, Taken, Emptied
  <2>5. Shown' /\ Undisturbed'
    BY <1>3, <1>8, <2>1 DEF Ordered, Shown, Undisturbed
  <2> QED
    BY <1>5, <2>2, <2>3, <2>4, <2>5 DEF Ordered
<1>7. CASE r.len > 0
  <2>1. /\ res_head' = r.at /\ res_size' = r.len
        /\ is_b' \in BOOLEAN /\ (is_b => is_b')
        /\ (is_b' => is_b \/ ~stays) /\ (~is_b' => stays)
    <3>1. ~(is_b /\ r.len <= 0)
      BY <1>2, <1>7
    <3>2. res_head' = r.at /\ res_size' = r.len /\ is_b' = (is_b \/ ~stays)
      BY <1>3, <3>1 DEF stays
    <3> QED
      BY <3>2
  <2>2. Members'
    BY <1>2, <1>3, <1>7, <2>1, BipBufferAssumption DEF Ordered, Members
  <2>3. Layout' /\ Closed'
    BY <1>2, <1>3, <1>7, <2>1 DEF Ordered, Members, Layout, InOrder, Closed
  <2>4. Reserved'
    <3>0. wr' = [pc |-> "reserved", at |-> r.at, len |-> r.len, src |-> src]
      BY <1>2, <1>3, <1>7
    <3>1. /\ wr'.pc = "reserved" /\ wr'.at = r.at /\ wr'.len = r.len
          /\ wr'.src = src
      BY <3>0
    <3>2. /\ ~is_b' => r.at = a_tail
          /\ is_b' => r.at = b_tail /\ r.at + r.len <= a_head
      BY <1>2, <1>7, <2>1 DEF stays, Ordered, Members, Layout, InOrder
    <3>3. r.len \in 0 .. Size /\ r.at + r.len <= Size /\ r.len <= Len(src)
      BY <1>2, <1>7, BipBufferAssumption DEF n
    <3>4. wr' \in [pc : {"idle", "reserved", "filled"}, at : 0 .. Size,
                   len : 0 .. Size, src : Inputs \cup {<<>>}]
      BY <1>2, <3>0, <3>3
    <3>5. is_b' => a_head < a_tail
      BY <1>2, <1>7, <3>2 DEF Ordered, Members, Layout, InOrder
    <3> QED
      BY <1>2, <1>3, <1>7, <2>1, <3>1, <3>2, <3>3, <3>4, <3>5
         DEF Reserved, Taken, Emptied, Ordered, Members
  <2>5. stale => ~is_b'
    <3>1. a_head = 0 => stays
      BY BipBufferAssumption DEF stays, StaysInA, Ordered, Members, Layout, InOrder
    <3> QED
      BY <2>1, <3>1 DEF Ordered, Shown
  <2>6. Shown' /\ Undisturbed'
    BY <1>2, <1>3, <1>7, <1>8, <2>1, <2>5 DEF Ordered, Undisturbed
  <2> QED
    BY <1>5, <2>2, <2>3, <2>4, <2>6 DEF Ordered
<1> QED
  BY <1>2, <1>6, <1>7

LEMMA FillKeeps ==
  ASSUME Ordered, Fill
  PROVE  Ordered'
<1>1. /\ wr.pc = "reserved"
      /\ wr' = [wr EXCEPT !.pc = "filled"]
      /\ UNCHANGED <<a_head, a_tail, b_head, b_tail, is_b, res_head, res_size,
                     rd, whole, stale, strayed>>
  BY DEF Fill, regions, reservation, clears
<1>2. /\ wr \in [pc : {"idle", "reserved", "filled"}, at : 0 .. Size,
                 len : 0 .. Size, src : Inputs \cup {<<>>}]
      /\ wr.src \in Inputs /\ wr.len <= Len(wr.src)
  BY <1>1 DEF Ordered, Reserved, Taken, Emptied
<1>3. Stores'
  <2>1. ASSUME NEW i \in Slots, i \in wr.at .. wr.at + wr.len - 1
        PROVE  wr.src[i - wr.at + 1] \in Bytes
    <3>1. wr.src \in Seq(Bytes) /\ Len(wr.src) \in Nat
      BY <1>2, InputLength
    <3>2. i - wr.at + 1 \in 1 .. Len(wr.src)
      BY <1>2, <2>1, <3>1
    <3> QED
      BY <3>1, <3>2
  <2> QED
    BY <2>1 DEF Fill, Ordered, Stores
<1>4. Members' /\ Layout' /\ Shown'
  BY <1>1 DEF Ordered, Members, Layout, InOrder, Shown, Region, Published, NoRegion
<1>5. Closed'
  BY <1>1, <1>2 DEF Closed
<1>6. Reserved'
  <2>1. /\ wr'.pc = "filled" /\ wr'.at = wr.at /\ wr'.len = wr.len
        /\ wr'.src = wr.src
        /\ wr' \in [pc : {"idle", "reserved", "filled"}, at : 0 .. Size,
                    len : 0 .. Size, src : Inputs \cup {<<>>}]
    BY <1>1, <1>2
  <2> QED
    BY <1>1, <2>1 DEF Ordered, Reserved, Taken, Emptied
<1>7. Undisturbed' /\ strayed' = FALSE
  BY <1>1, <1>2 DEF Ordered, Undisturbed
<1> QED
  BY <1>3, <1>4, <1>5, <1>6, <1>7 DEF Ordered

(* The producer without a region. *)
LEMMA NothingReserved ==
  ASSUME wr' = NoWrite, BipBufferAssumption
  PROVE  Reserved' /\ wr'.pc = "idle"
BY DEF Reserved, Taken, Emptied, NoWrite, BipBufferAssumption

LEMMA CommitKeeps ==
  ASSUME Ordered, NEW asked \in 0 .. Size, Commit(asked)
  PROVE  Ordered'
<1>1. /\ wr.pc = "filled"
      /\ asked \in 0 .. wr.len
      /\ wr.len > 0 /\ wr.len \in 0 .. Size
      /\ res_size = wr.len \/ Emptied
      /\ wr.at \in 0 .. Size /\ wr.at + wr.len <= Size
      /\ ~is_b => wr.at >= a_tail
      /\ is_b /\ a_head < a_tail => wr.at = b_tail /\ wr.at + wr.len <= a_head
      /\ is_b /\ a_head = a_tail => wr.at = 0 /\ b_tail = 0
  BY DEF Commit, Ordered, Reserved, Taken, Emptied
<1> DEFINE len == Least(asked, res_size)
<1>2. /\ len \in 0 .. asked /\ len <= wr.len
      /\ ~Emptied => len = asked
      /\ Emptied => len = 0
  BY <1>1 DEF Least, Emptied
<1> HIDE DEF len
<1>3. /\ IF is_b THEN b_tail' = b_tail + len /\ a_tail' = a_tail
         ELSE a_tail' = a_tail + len /\ b_tail' = b_tail
      /\ res_size' = 0
      /\ wr' = NoWrite
      /\ UNCHANGED <<data, a_head, b_head, is_b, res_head, rd, stale,
                     strayed>>
      /\ whole' = (whole /\ asked = wr.len)
  BY Zenon DEF Commit, len, clears
<1>4. whole' \in BOOLEAN /\ (whole' => whole /\ asked = wr.len)
  BY <1>3
<1>5. Reserved' /\ wr'.pc = "idle"
  BY <1>3, NothingReserved, BipBufferAssumption
<1>6. Stores' /\ Undisturbed' /\ strayed' = FALSE
  BY <1>3, <1>5 DEF Ordered, Stores, Undisturbed
<1>7. CASE is_b
  <2>1. b_tail' = b_tail + len /\ a_tail' = a_tail
    BY <1>3, <1>7
  <2>2. Members' /\ Layout'
    BY <1>1, <1>2, <1>3, <1>4, <1>7, <2>1, BipBufferAssumption
       DEF Ordered, Members, Layout, InOrder
  <2>3. Shown'
    BY <1>1, <1>2, <1>3, <1>7, <2>1, BipBufferAssumption
       DEF Ordered, Members, Layout, InOrder, Shown, Region, Published, NoRegion
  <2>4. Closed'
    BY <1>1, <1>2, <1>4, <1>7, <2>1 DEF Ordered, Members, Closed, Emptied
  <2> QED
    BY <1>5, <1>6, <2>2, <2>3, <2>4 DEF Ordered
<1>8. CASE ~is_b
  <2>1. a_tail' = a_tail + len /\ b_tail' = b_tail
    BY <1>3, <1>8
  <2>2. Members' /\ Layout'
    BY <1>1, <1>2, <1>3, <1>4, <1>8, <2>1, BipBufferAssumption
       DEF Ordered, Members, Layout, InOrder
  <2>3. Shown'
    BY <1>1, <1>2, <1>3, <1>8, <2>1, BipBufferAssumption
       DEF Ordered, Members, Layout, InOrder, Shown, Region, Published, NoRegion
  <2>4. Closed'
    BY <1>3, <1>8 DEF Ordered, Members, Closed
  <2> QED
    BY <1>5, <1>6, <2>2, <2>3, <2>4 DEF Ordered
<1> QED
  BY <1>7, <1>8

LEMMA AbandonKeeps ==
  ASSUME Ordered, Abandon
  PROVE  Ordered'
<1>1. /\ wr' = NoWrite /\ whole' = FALSE
      /\ UNCHANGED <<data, a_head, a_tail, b_head, b_tail, is_b,
                     res_head, res_size, rd, stale, strayed>>
  BY DEF Abandon, regions, reservation, clears
<1>2. Reserved'
  BY <1>1, NothingReserved, BipBufferAssumption
<1>3. Members' /\ Layout' /\ Shown' /\ Closed' /\ Stores'
  BY <1>1 DEF Ordered, Members, Layout, InOrder, Shown, Region, Published, NoRegion,
              Closed, Stores
<1>4. Undisturbed' /\ strayed' = FALSE
  BY <1>1, <1>2, NothingReserved, BipBufferAssumption DEF Ordered, Undisturbed
<1> QED
  BY <1>2, <1>3, <1>4 DEF Ordered

-----------------------------------------------------------------------------
LEMMA GetReadPtrKeeps ==
  ASSUME Ordered, GetReadPtr
  PROVE  Ordered'
<1>1. /\ rd' = Published /\ rd.len = 0 /\ Published.len > 0
      /\ UNCHANGED <<data, a_head, a_tail, b_head, b_tail, is_b,
                     res_head, res_size, wr, whole, stale, strayed>>
  BY DEF GetReadPtr, regions, reservation, clears
<1>2. Published \in [at : 0 .. Size, len : 0 .. Size]
  BY BipBufferAssumption DEF Ordered, Members, Layout, InOrder, Published,
                             NoRegion
<1>3. Published' = Published
  BY <1>1 DEF Published, NoRegion
<1> HIDE DEF Published
<1>4. Shown'
  <2>1. ~stale
    BY <1>1 DEF Ordered, Shown
  <2> QED
    BY <1>1, <1>2, <1>3, <2>1 DEF Ordered, Shown, Region
<1>5. Members' /\ Layout' /\ Reserved' /\ Closed' /\ Stores'
  BY <1>1 DEF Ordered, Members, Layout, InOrder, Reserved, Taken, Emptied, Closed, Stores
<1>6. Undisturbed' /\ strayed' = FALSE
  BY <1>1 DEF Ordered, Undisturbed
<1> QED
  BY <1>4, <1>5, <1>6 DEF Ordered

(* The consumer without a region. *)
LEMMA NothingShown ==
  ASSUME rd' = NoRegion, stale' = FALSE, BipBufferAssumption
  PROVE  Shown'
BY DEF Shown, Region, NoRegion, BipBufferAssumption

LEMMA PeekReturnsKeeps ==
  ASSUME Ordered, PeekReturns
  PROVE  Ordered'
<1>1. /\ rd' = NoRegion /\ stale' = FALSE
      /\ UNCHANGED <<data, a_head, a_tail, b_head, b_tail, is_b,
                     res_head, res_size, wr, whole, strayed>>
  BY DEF PeekReturns, regions, reservation
<1>2. Shown'
  BY <1>1, NothingShown, BipBufferAssumption
<1>3. Members' /\ Layout' /\ Reserved' /\ Closed' /\ Stores'
  BY <1>1 DEF Ordered, Members, Layout, InOrder, Reserved, Taken, Emptied, Closed, Stores
<1>4. Undisturbed' /\ strayed' = FALSE
  BY <1>1 DEF Ordered, Undisturbed
<1> QED
  BY <1>2, <1>3, <1>4 DEF Ordered

(* A step that changes no member and no pointer. *)
LEMMA NothingChanges ==
  ASSUME Ordered,
         UNCHANGED <<data, regions, reservation, wr, rd, whole, clears>>
  PROVE  Ordered'
BY DEF regions, reservation, clears, Undisturbed, Ordered, Members, Layout, InOrder, Reserved, Taken, Emptied,
       Shown, Region, Published, NoRegion, Closed, Stores

(* A consumer that decommits no more than is published *)
LEMMA DecommitKeeps ==
  ASSUME Ordered, NEW n \in 1 .. Size, Decommit(n),
         ~ (0 < Published.len /\ Published.len < n)
  PROVE  Ordered'
<1>1. /\ n \in 1 .. rd.len
      /\ rd' = NoRegion /\ stale' = FALSE /\ strayed' = FALSE
      /\ UNCHANGED <<data, res_head, res_size, wr, whole>>
      /\ IF a_head < a_tail THEN DecommitA(n)
         ELSE IF b_head < b_tail THEN DecommitB(n) ELSE UNCHANGED regions
  <2>1. strayed' = (0 < Published.len /\ Published.len < n)
    BY Zenon DEF Decommit
  <2>2. strayed' = FALSE
    BY <2>1
  <2> QED
    BY <2>2, Zenon DEF Decommit, reservation
<1>2. Shown' /\ Undisturbed' /\ strayed' = FALSE
  BY <1>1, NothingShown, BipBufferAssumption DEF Ordered, Undisturbed
<1>3. Stores'
  BY <1>1 DEF Ordered, Stores
<1>4. Published.len > 0 => n <= Published.len
  BY DEF Ordered, Members, Published, NoRegion
<1> USE BipBufferAssumption
<1>5. CASE a_head < a_tail
  <2>1. n <= a_tail - a_head
    BY <1>1, <1>4, <1>5 DEF Published, Ordered, Members
  <2>2. b_head = 0 /\ b_tail <= a_head
    BY <1>5 DEF Ordered, Members, Layout, InOrder
  <2>3. DecommitA(n)
    BY <1>1, <1>5
  <2>4. CASE a_head + n # a_tail
    <3>1. /\ a_head' = a_head + n
          /\ UNCHANGED <<a_tail, b_head, b_tail, is_b>>
      BY <2>3, <2>4 DEF DecommitA
    <3>2. a_head + n < a_tail
      BY <2>1, <2>4 DEF Ordered, Members
    <3>3. Members' /\ Layout' /\ Closed'
      <4>0. stale' \in BOOLEAN
        BY <1>1
      <4>1. Members' /\ Closed'
        BY <1>1, <3>1, <4>0 DEF Ordered, Members, Closed
      <4>2. Layout'
        BY <2>2, <3>1, <3>2 DEF Ordered, Members, Layout, InOrder
      <4> QED
        BY <4>1, <4>2
    <3>4. Reserved'
      BY <1>1, <1>5, <2>2, <3>1, <3>2 DEF Ordered, Members, Reserved, Taken, Emptied
    <3> QED
      BY <1>2, <1>3, <3>3, <3>4 DEF Ordered
  <2>5. CASE a_head + n = a_tail /\ b_tail > 0
    <3>1. /\ a_head' = b_head /\ a_tail' = b_tail
          /\ b_head' = 0 /\ b_tail' = 0 /\ is_b' = FALSE
      BY <2>3, <2>5 DEF DecommitA
    <3>2. Members' /\ Layout' /\ Closed'
      <4>0. stale' \in BOOLEAN
        BY <1>1
      <4>1. Members' /\ Closed'
        BY <1>1, <3>1, <4>0 DEF Ordered, Members, Closed
      <4>2. Layout'
        BY <2>2, <2>5, <3>1 DEF Ordered, Members, Layout, InOrder
      <4> QED
        BY <4>1, <4>2
    <3>3. is_b
      BY <2>5 DEF Ordered, Layout, InOrder
    <3>4. Reserved'
      BY <1>1, <1>5, <2>2, <3>1, <3>3 DEF Ordered, Members, Reserved, Taken, Emptied
    <3> QED
      BY <1>2, <1>3, <3>2, <3>4 DEF Ordered
  <2>6. CASE a_head + n = a_tail /\ ~(b_tail > 0)
    <3>1. /\ a_head' = 0 /\ a_tail' = 0
          /\ UNCHANGED <<b_head, b_tail, is_b>>
      BY <2>3, <2>6 DEF DecommitA
    <3>2. b_tail = 0
      BY <2>6 DEF Ordered, Members
    <3>3. Members' /\ Layout' /\ Closed'
      BY <1>1, <2>2, <2>6, <3>1, <3>2
         DEF Ordered, Members, Layout, InOrder, Closed
    <3>4. Reserved'
      BY <1>1, <1>5, <2>2, <3>1, <3>2 DEF Ordered, Members, Reserved, Taken, Emptied
    <3> QED
      BY <1>2, <1>3, <3>3, <3>4 DEF Ordered
  <2> QED
    BY <2>4, <2>5, <2>6
<1>6. CASE ~(a_head < a_tail) /\ b_head < b_tail
  <2>1. n <= b_tail - b_head
    BY <1>1, <1>4, <1>6 DEF Published, Ordered, Members
  <2>2. a_head = 0 /\ a_tail = 0
    BY <1>6 DEF Ordered, Members, Layout, InOrder
  <2>3. is_b /\ wr.pc = "idle"
    BY <1>6, <2>2 DEF Ordered, Members, Layout, InOrder, Reserved, Taken, Emptied
  <2>4. DecommitB(n)
    BY <1>1, <1>6
  <2>5. CASE b_head + n # b_tail
    <3>1. /\ b_head' = b_head + n
          /\ UNCHANGED <<a_head, a_tail, b_tail, is_b>>
      BY <2>4, <2>5 DEF DecommitB
    <3>2. Members' /\ Layout' /\ Closed' /\ Reserved'
      <4>0. stale' \in BOOLEAN
        BY <1>1
      <4>1. Members' /\ Closed'
        BY <1>1, <3>1, <4>0 DEF Ordered, Members, Closed
      <4>2. Layout'
        BY <1>6, <2>1, <2>2, <2>3, <2>5, <3>1
           DEF Ordered, Members, Layout, InOrder
      <4>3. Reserved'
        BY <1>1, <2>3 DEF Ordered, Reserved, Taken
      <4> QED
        BY <4>1, <4>2, <4>3
    <3> QED
      BY <1>2, <1>3, <3>2 DEF Ordered
  <2>6. CASE b_head + n = b_tail
    <3>1. /\ b_head' = 0 /\ b_tail' = 0 /\ is_b' = FALSE
          /\ UNCHANGED <<a_head, a_tail>>
      BY <2>4, <2>6 DEF DecommitB
    <3>2. Members' /\ Layout' /\ Closed' /\ Reserved'
      BY <1>1, <1>6, <2>2, <2>3, <3>1
         DEF Ordered, Members, Layout, InOrder, Closed, Reserved, Taken, Emptied
    <3> QED
      BY <1>2, <1>3, <3>2 DEF Ordered
  <2> QED
    BY <2>5, <2>6
<1>7. CASE ~(a_head < a_tail) /\ ~(b_head < b_tail)
  <2>1. UNCHANGED <<a_head, a_tail, b_head, b_tail, is_b>>
    BY <1>1, <1>7 DEF regions
  <2>2. Members' /\ Layout' /\ Closed' /\ Reserved'
    BY <1>1, <2>1
       DEF Ordered, Members, Layout, InOrder, Closed, Reserved, Taken, Emptied
  <2> QED
    BY <1>2, <1>3, <2>2 DEF Ordered
<1> QED
  BY <1>5, <1>6, <1>7

(* One that decommits more: it had a region when the buffer was cleared. *)
LEMMA DecommitStrays ==
  ASSUME Ordered, NEW n \in 1 .. Size, Decommit(n),
         0 < Published.len, Published.len < n
  PROVE  Strayed'
<1>1. /\ n \in 1 .. rd.len
      /\ rd' = NoRegion /\ stale' = FALSE /\ strayed' = TRUE
      /\ UNCHANGED <<data, res_head, res_size, wr, whole>>
      /\ IF a_head < a_tail THEN DecommitA(n)
         ELSE IF b_head < b_tail THEN DecommitB(n) ELSE UNCHANGED regions
  <2>1. strayed' = (0 < Published.len /\ Published.len < n)
    BY Zenon DEF Decommit
  <2>2. strayed' = TRUE
    BY <2>1
  <2> QED
    BY <2>2, Zenon DEF Decommit, reservation
<1>2. stale /\ a_head = 0 /\ ~is_b
  BY <1>1 DEF Ordered, Members, Shown, Region, Published, NoRegion
<1>3. b_head = 0 /\ b_tail = 0 /\ a_tail \in 1 .. Size /\ a_tail < n
  BY <1>2, BipBufferAssumption
     DEF Ordered, Members, Layout, InOrder, Published, NoRegion
<1>4. /\ a_head' = n /\ UNCHANGED <<a_tail, b_head, b_tail, is_b>>
  BY <1>1, <1>2, <1>3 DEF DecommitA
<1>5. ClearsAnytime
  BY <1>2 DEF Ordered, Undisturbed
<1>6. Members' /\ {a_head', a_tail', b_head', b_tail'} \subseteq 0 .. Size
  <2>1. a_head' \in 0 .. Size /\ a_tail' \in 0 .. Size /\ b_head' = 0 /\ b_tail' = 0
    BY <1>3, <1>4, BipBufferAssumption
  <2>2. stale' \in BOOLEAN
    BY <1>1
  <2>3. Members'
    BY <1>1, <1>4, <2>1, <2>2, BipBufferAssumption DEF Ordered, Members
  <2> QED
    BY <2>1, <2>3, BipBufferAssumption
<1>7. Taken' /\ Region' /\ Stores'
  BY <1>1, BipBufferAssumption
     DEF Ordered, Reserved, Taken, Region, NoRegion, Stores
<1> QED
  BY <1>1, <1>5, <1>6, <1>7 DEF Strayed, NoRegion

(* clear restores the order, whatever the consumer has done. *)
LEMMA ClearKeeps ==
  ASSUME IInv, Clear
  PROVE  Ordered'
<1> USE BipBufferAssumption
<1>1. /\ ClearsAnytime \/ (wr.pc = "idle" /\ rd.len = 0)
      /\ a_head' = 0 /\ a_tail' = 0 /\ b_head' = 0 /\ b_tail' = 0
      /\ is_b' = FALSE /\ res_size' = 0
      /\ stale' = (rd.len > 0) /\ strayed' = FALSE
      /\ UNCHANGED <<data, res_head, wr, rd, whole>>
  BY DEF Clear
<1>2. Members /\ Taken /\ Region /\ Stores
  BY DEF IInv, Ordered, Reserved, Shown, Strayed
<1>3. Members' /\ Closed' /\ Stores'
  <2>0. stale' = TRUE \/ stale' = FALSE
    BY <1>1
  <2>1. stale' \in BOOLEAN /\ is_b' \in BOOLEAN
    BY <1>1, <2>0
  <2>2. res_size' \in 0 .. Size
    BY <1>1
  <2>3. Members'
    BY <1>1, <1>2, <2>1, <2>2 DEF Members
  <2>4. Closed' /\ Stores'
    BY <1>1, <1>2 DEF Closed, Stores
  <2> QED
    BY <2>3, <2>4
<1>4. Layout'
  BY <1>1 DEF Layout, InOrder
<1>5. Reserved'
  BY <1>1, <1>2 DEF Reserved, Taken, Emptied
<1>6. Shown'
  <2>1. stale' <=> rd.len > 0
    BY <1>1
  <2> QED
    BY <1>1, <1>2, <2>1 DEF Shown, Region
<1>7. Undisturbed'
  BY <1>1, <1>2 DEF Undisturbed, Taken
<1> QED
  BY <1>1, <1>3, <1>4, <1>5, <1>6, <1>7 DEF Ordered

-----------------------------------------------------------------------------
(* Every reachable state satisfies the inductive invariant. *)
THEOREM Inductive == Spec => []IInv
<1>1. Init => Ordered
  <2> SUFFICES ASSUME Init PROVE Ordered
    OBVIOUS
  <2>0. is_b \in BOOLEAN /\ whole \in BOOLEAN /\ stale \in BOOLEAN
    BY DEF Init
  <2>1. Members
    <3>1. res_head \in 0 .. Size /\ res_size \in 0 .. Size
      BY BipBufferAssumption DEF Init
    <3> QED
      BY <2>0, <3>1 DEF Init, Members
  <2>2. Layout
    BY BipBufferAssumption DEF Init, Layout, InOrder
  <2>3. Reserved /\ Shown
    BY BipBufferAssumption
       DEF Init, NoWrite, NoRegion, Reserved, Taken, Emptied, Shown, Region
  <2>4. Closed /\ Stores /\ Undisturbed /\ strayed = FALSE
    BY DEF Init, NoWrite, Closed, Stores, Undisturbed
  <2> QED
    BY <2>1, <2>2, <2>3, <2>4 DEF Ordered
<1>2. IInv /\ [Next]_vars => IInv'
  <2> SUFFICES ASSUME IInv, [Next]_vars PROVE IInv'
    OBVIOUS
  <2>1. CASE Clear
    BY <2>1, ClearKeeps DEF IInv
  <2>2. CASE UNCHANGED vars
    <3>1. Ordered => Ordered'
      BY <2>2, NothingChanges DEF vars
    <3>2. Strayed => Strayed'
      BY <2>2
      DEF vars, regions, reservation, clears, Strayed, Members, Taken, Region,
          Stores
    <3> QED
      BY <3>1, <3>2 DEF IInv
  <2>3. CASE strayed = FALSE /\ Producer
    <3>1. Ordered
      BY <2>3 DEF IInv, Strayed
    <3> QED
      BY <2>3, <3>1, ReserveKeeps, FillKeeps, CommitKeeps, AbandonKeeps
         DEF Producer, IInv
  <2>4. CASE strayed = FALSE /\ Consumer
    <3>1. Ordered
      BY <2>4 DEF IInv, Strayed
    <3>2. ASSUME NEW n \in 1 .. Size, CopyOut(n) PROVE Ordered'
      BY <3>1, <3>2, NothingChanges DEF CopyOut
    <3>3. ASSUME NEW n \in 1 .. Size, Decommit(n) PROVE IInv'
      <4>1. CASE 0 < Published.len /\ Published.len < n
        BY <3>1, <3>3, <4>1, DecommitStrays DEF IInv
      <4>2. CASE ~ (0 < Published.len /\ Published.len < n)
        BY <3>1, <3>3, <4>2, DecommitKeeps DEF IInv
      <4> QED
        BY <4>1, <4>2
    <3> QED
      BY <2>4, <3>1, <3>2, <3>3, GetReadPtrKeeps, PeekReturnsKeeps
         DEF Consumer, IInv
  <2>5. strayed \in BOOLEAN
    BY DEF IInv, Ordered, Strayed
  <2> QED
    BY <2>1, <2>2, <2>3, <2>4, <2>5 DEF Next
<1> QED
  BY <1>1, <1>2, PTL DEF Spec, IInv

(* The members of a buffer of any size have their types, and its indexes never
   leave the array, whatever is reserved, committed, abandoned and cleared. *)
THEOREM BipTypeCorrect == Spec => []TypeOK
<1>1. Ordered => TypeOK
  <2> SUFFICES ASSUME Ordered PROVE TypeOK
    OBVIOUS
  <2>1. {a_head, a_tail, b_head, b_tail, res_head, res_size} \subseteq 0 .. Size
    BY BipBufferAssumption DEF Ordered, Members, Layout, InOrder
  <2>2. is_b \in BOOLEAN /\ whole \in BOOLEAN /\ stale \in BOOLEAN
    BY DEF Ordered, Members
  <2>3. data \in [Slots -> Bytes] /\ strayed \in BOOLEAN
    BY DEF Ordered, Stores
  <2> QED
    BY <2>1, <2>2, <2>3 DEF Ordered, Reserved, Taken, Shown, Region, TypeOK
<1>2. Strayed => TypeOK
  BY DEF Strayed, Members, Taken, Region, Stores, TypeOK
<1> QED
  BY <1>1, <1>2, Inductive, PTL DEF IInv

(* In a buffer of any size the committed regions A and B stay inside the array
   and apart, also when it is cleared between the steps of a write or a read,
   until a consumer decommits more of a region it got before a clear than was
   written after it. *)
THEOREM RegionsAlwaysApart == Spec => []RegionsApart
<1>1. IInv => RegionsApart
  BY DEF IInv, Ordered, Strayed, Layout, RegionsApart
<1> QED
  BY <1>1, Inductive, PTL

(* The memcpy of one producer and that of one consumer, both made without the
   mutex, never touch the same byte of a buffer of any size: the producer's
   region is apart from all that is published, a clear in the middle of a write
   included, and the consumer's is published, unless a clear came between
   get_read_ptr and decommit. *)
THEOREM NeverRaces == Spec => []NoRace
<1>1. Ordered => NoRace
  <2> SUFFICES ASSUME Ordered PROVE NoRace
    OBVIOUS
  <2>1. ASSUME wr.len > 0
        PROVE  /\ Within(wr, 0, Size)
               /\ Apart(wr, a_head, a_tail)
               /\ Apart(wr, b_head, b_tail)
    BY <2>1
    DEF Ordered, Members, Layout, InOrder, Reserved, Taken, Emptied, Within, Apart
  <2>2. ASSUME rd.len > 0, ~stale
        PROVE  Within(rd, a_head, a_tail) \/ Within(rd, b_head, b_tail)
    BY <2>2
    DEF Ordered, Members, Layout, InOrder, Shown, Region, Published, NoRegion,
        Within
  <2> QED
    BY <2>1, <2>2 DEF NoRace
<1>2. Strayed => NoRace
  BY DEF Strayed, NoRace
<1> QED
  BY <1>1, <1>2, Inductive, PTL DEF IInv

(* A buffer of any size that is empty and unused accepts a byte, as long as
   every reservation was committed in full. *)
THEOREM EmptyAlwaysAccepts == Spec => []EmptyAcceptsDataIfCommitted
<1>1. Ordered => EmptyAcceptsDataIfCommitted
  BY BipBufferAssumption
     DEF Ordered, Members, Layout, InOrder, Closed,
         EmptyAcceptsDataIfCommitted, Refuses, Available, Reservation, StaysInA,
         Least
<1>2. Strayed => EmptyAcceptsDataIfCommitted
  BY DEF Strayed, EmptyAcceptsDataIfCommitted
<1> QED
  BY <1>1, <1>2, Inductive, PTL DEF IInv
-----------------------------------------------------------------------------
(***************************************************************************)
(* The buffer as a byte queue, when operations do not overlap.             *)
(***************************************************************************)
LEMMA FunctionIsSeq ==
  ASSUME NEW S, NEW n \in Nat, NEW f \in [1 .. n -> S]
  PROVE  f \in Seq(S) /\ Len(f) = n
<1>1. f \in Seq(S)
  BY SeqDef
<1>2. Len(f) \in Nat /\ 1 .. Len(f) = 1 .. n
  BY <1>1, LenProperties
<1>3. QED
  BY <1>1, <1>2

(* Where the k-th byte of the queue is: A before B. *)
Place(k) == IF k <= a_tail - a_head THEN a_head + k - 1
            ELSE b_head + (k - (a_tail - a_head)) - 1

ContentsAre ==
  /\ Contents \in Seq(Bytes) /\ Len(Contents) = Available /\ Available \in Nat
  /\ \A k \in 1 .. Available : Contents[k] = data[Place(k)] /\ Contents[k] \in Bytes

LEMMA ContentsBytes == Ordered => ContentsAre
<1> SUFFICES ASSUME Ordered PROVE ContentsAre
  OBVIOUS
<1>1. PICK m, n : m = a_tail - a_head /\ n = b_tail - b_head
  OBVIOUS
<1>2. /\ m \in Nat /\ n \in Nat /\ Available = m + n
      /\ \A i \in 1 .. m : a_head + i - 1 \in Slots
      /\ \A i \in 1 .. n : b_head + i - 1 \in Slots
  BY <1>1, BipBufferAssumption DEF Ordered, Members, Layout, InOrder, Slots, Available
<1>3. PICK s, t : /\ s = [i \in 1 .. m |-> data[a_head + i - 1]]
                  /\ t = [i \in 1 .. n |-> data[b_head + i - 1]]
  OBVIOUS
<1>4. s \in [1 .. m -> Bytes] /\ t \in [1 .. n -> Bytes]
  BY <1>2, <1>3 DEF Ordered, Stores
<1>5. s \in Seq(Bytes) /\ Len(s) = m /\ t \in Seq(Bytes) /\ Len(t) = n
  BY <1>2, <1>4, FunctionIsSeq
<1>6. Contents = s \o t
  BY <1>1, <1>3 DEF Contents
<1>7. /\ s \o t \in Seq(Bytes) /\ Len(s \o t) = m + n
      /\ \A k \in 1 .. m + n : (s \o t)[k] = IF k <= m THEN s[k] ELSE t[k - m]
  BY <1>5, ConcatProperties
<1>8. ASSUME NEW k \in 1 .. m + n
      PROVE  Contents[k] = data[Place(k)] /\ Contents[k] \in Bytes
  <2>1. CASE k <= m
    <3>1. k \in 1 .. m
      BY <1>2, <2>1
    <3>2. Contents[k] = s[k] /\ s[k] = data[a_head + k - 1] /\ s[k] \in Bytes
      BY <1>3, <1>4, <1>6, <1>7, <2>1, <3>1
    <3>3. QED
      BY <1>1, <2>1, <3>2 DEF Place
  <2>2. CASE ~ (k <= m)
    <3>1. k - m \in 1 .. n
      BY <1>2, <2>2
    <3>2. Contents[k] = t[k - m] /\ t[k - m] = data[b_head + (k - m) - 1] /\ t[k - m] \in Bytes
      BY <1>3, <1>4, <1>6, <1>7, <2>2, <3>1
    <3>3. QED
      BY <1>1, <2>2, <3>2 DEF Place
  <2>3. QED
    BY <2>1, <2>2
<1>9. QED
  BY <1>2, <1>6, <1>7, <1>8 DEF ContentsAre

(* While the producer is at work the consumer is not; the region that was
   reserved continues the one it will be committed to, and once it is filled
   it holds the input. *)
TurnsTaken ==
  /\ wr.pc # "idle" =>
       /\ rd.len = 0
       /\ wr.at = IF is_b THEN b_tail ELSE a_tail
  /\ wr.pc = "filled" =>
       \A i \in 1 .. wr.len : data[wr.at + i - 1] = wr.src[i]

(* The regions, as numbers *)
Numbers ==
  /\ a_head \in Nat /\ a_tail \in Nat /\ b_head \in Nat /\ b_tail \in Nat /\ Size \in Nat
  /\ a_head <= a_tail /\ a_tail <= Size /\ b_head <= b_tail /\ b_tail <= Size
  /\ ~is_b => b_tail = 0
  /\ a_head < a_tail => b_tail <= a_head
  /\ a_head = a_tail => a_head = 0
  /\ b_head > 0 => a_head = a_tail

LEMMA Numbered == Ordered => Numbers
BY BipBufferAssumption DEF Ordered, Members, Layout, InOrder, Numbers

(* n bytes are published behind those that are. *)
LEMMA Committed ==
  ASSUME ~ClearsAnytime, Ordered, Ordered', TurnsTaken, NEW asked \in 0 .. Size, Commit(asked)
  PROVE  /\ Contents' = Contents \o SubSeq(wr.src, 1, asked)
         /\ asked <= Len(wr.src) /\ asked <= Size - Len(Contents)
<1>0. Numbers
  BY Numbered
<1>1. /\ wr.pc = "filled" /\ asked \in 0 .. wr.len
      /\ wr.len > 0 /\ res_size = wr.len /\ wr.len \in 0 .. Size
      /\ wr.at + wr.len <= Size /\ wr.src \in Inputs /\ wr.len <= Len(wr.src)
      /\ is_b /\ a_head < a_tail => wr.at = b_tail /\ wr.at + wr.len <= a_head
      /\ is_b /\ a_head = a_tail => wr.at = 0 /\ b_tail = 0
  BY DEF Commit, Ordered, Reserved, Taken, Undisturbed
<1>2. Least(asked, res_size) = asked
  BY <1>1 DEF Least
<1>3. /\ IF is_b THEN b_tail' = b_tail + asked /\ a_tail' = a_tail
         ELSE a_tail' = a_tail + asked /\ b_tail' = b_tail
      /\ UNCHANGED <<data, a_head, b_head>>
  BY <1>2, Zenon DEF Commit
<1>4. /\ wr.at = IF is_b THEN b_tail ELSE a_tail
      /\ \A i \in 1 .. wr.len : data[wr.at + i - 1] = wr.src[i]
  BY <1>1 DEF TurnsTaken
<1>5. PICK s, c, c2, m : /\ s = SubSeq(wr.src, 1, asked) /\ c = Contents /\ c2 = Contents'
                         /\ m = Available
  OBVIOUS
<1>6. /\ c \in Seq(Bytes) /\ Len(c) = m /\ m \in Nat
      /\ \A k \in 1 .. m : c[k] = data[Place(k)]
  BY <1>5, ContentsBytes DEF ContentsAre
<1>7. ContentsAre'
  BY ContentsBytes, PTL
<1>8. /\ asked \in Nat /\ Available' = m + asked /\ m + asked <= Size
  <2>1. CASE is_b
    <3>1. b_tail' = b_tail + asked /\ a_tail' = a_tail
      BY <1>3, <2>1
    <3>2. a_head < a_tail \/ (a_head = a_tail /\ wr.at = 0)
      BY <1>1, <1>0, <2>1 DEF Numbers
    <3>3. b_tail + asked <= Size /\ (a_head < a_tail => b_tail + asked <= a_head)
      BY <1>0, <1>1, <1>4, <2>1, <3>2 DEF Numbers
    <3>4. QED
      BY <1>0, <1>1, <1>3, <1>5, <3>1, <3>3 DEF Available, Numbers
  <2>2. CASE ~is_b
    <3>1. a_tail' = a_tail + asked /\ b_tail' = b_tail
      BY <1>3, <2>2
    <3>2. a_tail + asked <= Size
      BY <1>0, <1>1, <1>4, <2>2 DEF Numbers
    <3>3. QED
      BY <1>0, <1>1, <1>3, <1>5, <2>2, <3>1, <3>2 DEF Available, Numbers
  <2>3. QED
    BY <2>1, <2>2
<1>9. /\ c2 \in Seq(Bytes) /\ Len(c2) = m + asked
      /\ \A k \in 1 .. m + asked : c2[k] = data'[Place(k)']
  BY <1>5, <1>7, <1>8 DEF ContentsAre
<1>10. /\ s \in Seq(Bytes) /\ Len(s) = asked /\ \A i \in 1 .. asked : s[i] = wr.src[i]
  <2>1. wr.src \in Seq(Bytes) /\ Len(wr.src) \in Nat
    BY <1>1, InputLength
  <2>2. \A i \in 1 .. asked : i \in 1 .. Len(wr.src)
    BY <1>1, <2>1
  <2>3. \A i \in 1 .. asked : wr.src[i] \in Bytes
    BY <2>1, <2>2, ElementOfSeq
  <2>4. 1 \in Int /\ asked \in Int /\ (IF 1 <= asked THEN asked - 1 + 1 ELSE 0) = asked
        /\ asked - 1 + 1 = asked /\ \A i \in 1 .. asked : 1 + i - 1 = i
    BY <1>8
  <2>5. /\ s \in Seq(Bytes) /\ Len(s) = (IF 1 <= asked THEN asked - 1 + 1 ELSE 0)
        /\ \A i \in 1 .. asked - 1 + 1 : s[i] = wr.src[1 + i - 1]
    BY <1>5, <2>3, <2>4, SubSeqProperties
  <2>6. QED
    BY <2>4, <2>5
<1>11. /\ c \o s \in Seq(Bytes) /\ Len(c \o s) = m + asked
       /\ \A k \in 1 .. m + asked : (c \o s)[k] = IF k <= m THEN c[k] ELSE s[k - m]
  BY <1>6, <1>10, ConcatProperties
<1>12. ASSUME NEW k \in 1 .. m + asked PROVE c2[k] = (c \o s)[k]
  <2>1. CASE k <= m
    <3>1. k \in 1 .. m /\ Place(k)' = Place(k)
      <4>1. k \in 1 .. m
        BY <1>6, <1>8, <2>1
      <4>2. CASE is_b
        BY <1>3, <4>1, <4>2 DEF Place
      <4>3. CASE ~is_b
        <5>1. /\ a_tail' = a_tail + asked /\ a_head' = a_head
              /\ m = a_tail - a_head /\ k <= a_tail - a_head /\ k <= a_tail' - a_head
          BY <1>0, <1>3, <1>5, <1>8, <4>1, <4>3 DEF Available, Numbers
        <5>2. QED
          BY <4>1, <5>1 DEF Place
      <4>4. QED
        BY <4>1, <4>2, <4>3
    <3>2. QED
      BY <1>3, <1>6, <1>9, <1>11, <2>1, <3>1
  <2>2. CASE ~ (k <= m)
    <3>1. k - m \in 1 .. asked /\ k - m \in 1 .. wr.len
      BY <1>1, <1>6, <1>8, <2>2
    <3>2. Place(k)' = wr.at + (k - m) - 1
      <4>1. k \in Nat /\ k > m /\ k <= m + asked
        BY <1>6, <1>8, <2>2
      <4>2. CASE is_b
        <5>1. /\ a_tail' = a_tail /\ a_head' = a_head /\ b_head' = b_head
              /\ ~ (k <= a_tail - a_head)
              /\ b_head + (k - (a_tail - a_head)) - 1 = b_tail + (k - m) - 1
          BY <1>0, <1>3, <1>5, <4>1, <4>2 DEF Available, Numbers
        <5>2. QED
          BY <1>4, <4>2, <5>1 DEF Place
      <4>3. CASE ~is_b
        <5>1. /\ a_tail' = a_tail + asked /\ a_head' = a_head
              /\ k <= (a_tail + asked) - a_head
              /\ a_head + k - 1 = a_tail + (k - m) - 1
          BY <1>0, <1>3, <1>5, <1>8, <4>1, <4>3 DEF Available, Numbers
        <5>2. QED
          BY <1>4, <4>3, <5>1 DEF Place
      <4>4. QED
        BY <4>2, <4>3
    <3>3. c2[k] = wr.src[k - m]
      BY <1>3, <1>4, <1>9, <3>1, <3>2
    <3>4. QED
      BY <1>10, <1>11, <2>2, <3>1, <3>3
  <2>3. QED
    BY <2>1, <2>2
<1>13. c2 = c \o s
  BY <1>9, <1>11, <1>12, SeqEqual
<1>14. asked <= Len(wr.src)
  BY <1>1, InputLength
<1>15. QED
  BY <1>5, <1>6, <1>8, <1>13, <1>14, BipBufferAssumption

(* What the consumer was shown is the beginning of the queue. *)
LEMMA ShownFirst ==
  ASSUME Ordered, ~stale, NEW n \in 1 .. rd.len
  PROVE  /\ n \in Nat /\ n <= Len(Contents) /\ n <= Size
         /\ SubSeq(Contents, 1, n) = [i \in 1 .. n |-> data[rd.at + i - 1]]
<1>1. /\ rd.at = Published.at /\ rd.len <= Published.len /\ rd.len \in 0 .. Size /\ n \in Nat
      /\ n <= rd.len
  BY DEF Ordered, Shown, Region
<1>2. PICK c, m : c = Contents /\ m = Available
  OBVIOUS
<1>3. /\ c \in Seq(Bytes) /\ Len(c) = m /\ m \in Nat
      /\ \A k \in 1 .. m : c[k] = data[Place(k)] /\ c[k] \in Bytes
  BY <1>2, ContentsBytes DEF ContentsAre
<1>4. n <= m /\ \A i \in 1 .. n : Place(i) = rd.at + i - 1
  <2>1. CASE a_head < a_tail
    BY <1>1, <1>2, <2>1
       DEF Published, Available, Place, Ordered, Members, Layout, InOrder
  <2>2. CASE ~ (a_head < a_tail)
    BY <1>1, <1>2, <2>2
       DEF Published, NoRegion, Available, Place, Ordered, Members, Layout, InOrder
  <2>3. QED
    BY <2>1, <2>2
<1>5. PICK s, t : s = SubSeq(c, 1, n) /\ t = [i \in 1 .. n |-> data[rd.at + i - 1]]
  OBVIOUS
<1>6. \A i \in 1 .. n : i \in 1 .. m /\ 1 + i - 1 = i
  BY <1>1, <1>3, <1>4
<1>7. \A i \in 1 .. n : c[i] = t[i] /\ c[i] \in Bytes
  BY <1>3, <1>4, <1>5, <1>6
<1>8. t \in Seq(Bytes) /\ Len(t) = n
  <2>1. t \in [1 .. n -> Bytes]
    BY <1>5, <1>7
  <2>2. QED
    BY <1>1, <2>1, FunctionIsSeq
<1>9. s \in Seq(Bytes) /\ Len(s) = n /\ \A i \in 1 .. n : s[i] = c[i]
  <2>1. 1 \in Int /\ n \in Int /\ (IF 1 <= n THEN n - 1 + 1 ELSE 0) = n /\ n - 1 + 1 = n
    BY <1>1
  <2>2. /\ s \in Seq(Bytes) /\ Len(s) = (IF 1 <= n THEN n - 1 + 1 ELSE 0)
        /\ \A i \in 1 .. n - 1 + 1 : s[i] = c[1 + i - 1]
    BY <1>5, <1>7, <2>1, SubSeqProperties
  <2>3. QED
    BY <1>6, <2>1, <2>2
<1>10. s = t
  BY <1>7, <1>8, <1>9, SeqEqual
<1>11. QED
  BY <1>1, <1>2, <1>3, <1>4, <1>5, <1>10, BipBufferAssumption

(* A decommit removes them, whether A goes on, B takes its place or is
   drained. *)
LEMMA Decommitted ==
  ASSUME Ordered, Ordered', ~stale, NEW n \in 1 .. Size, Decommit(n)
  PROVE  /\ Contents' = SubSeq(Contents, n + 1, Len(Contents))
         /\ n <= Len(Contents)
<1>0. n \in Nat /\ Numbers
  BY Numbered
<1>1. /\ n \in 1 .. rd.len /\ n \in Nat /\ data' = data
      /\ IF a_head < a_tail THEN DecommitA(n)
         ELSE IF b_head < b_tail THEN DecommitB(n) ELSE UNCHANGED regions
  BY <1>0, Zenon DEF Decommit
<1>2. PICK c, c2, m, r : /\ c = Contents /\ c2 = Contents' /\ m = Available
                         /\ r = SubSeq(c, n + 1, m)
  OBVIOUS
<1>3. /\ c \in Seq(Bytes) /\ Len(c) = m /\ m \in Nat
      /\ \A k \in 1 .. m : c[k] = data[Place(k)] /\ c[k] \in Bytes
  BY <1>2, ContentsBytes DEF ContentsAre
<1>4. n <= m
  BY <1>1, <1>2, <1>3, ShownFirst
<1>5. ContentsAre'
  BY ContentsBytes, PTL
<1>6. /\ n <= Published.len /\ Published.len \in Nat
      /\ a_head < a_tail => Published.len = a_tail - a_head
      /\ ~ (a_head < a_tail) => b_head < b_tail /\ Published.len = b_tail - b_head
  <2>1. n <= Published.len /\ n > 0
    BY <1>1 DEF Ordered, Shown, Region, Published, NoRegion, Members
  <2>2. QED
    BY <2>1 DEF Ordered, Members, Published, NoRegion
<1>7. Available' = m - n /\ \A k \in 1 .. m - n : Place(k)' = Place(n + k)
  <2>1. CASE a_head < a_tail /\ a_head + n # a_tail
    <3>1. a_head' = a_head + n /\ a_tail' = a_tail /\ b_head' = b_head /\ b_tail' = b_tail
      BY <1>1, <2>1 DEF DecommitA
    <3>2. Available' = m - n
      BY <1>0, <1>2, <3>1 DEF Available, Numbers
    <3>3. ASSUME NEW k \in 1 .. m - n PROVE Place(k)' = Place(n + k)
      <4>1. /\ k \in Nat /\ n + k \in Nat
            /\ a_tail - a_head \in Nat /\ a_tail' - a_head' = (a_tail - a_head) - n
            /\ k <= a_tail' - a_head' <=> n + k <= a_tail - a_head
        BY <1>0, <1>3, <3>1 DEF Numbers
      <4>2. /\ a_head' + k - 1 = a_head + (n + k) - 1
            /\ b_head' + (k - (a_tail' - a_head')) - 1 =
                 b_head + ((n + k) - (a_tail - a_head)) - 1
        BY <1>0, <3>1, <4>1 DEF Numbers
      <4> QED
        BY <4>1, <4>2 DEF Place
    <3> QED
      BY <3>2, <3>3
  <2>2. CASE a_head < a_tail /\ a_head + n = a_tail /\ b_tail > 0
    <3>1. a_head' = b_head /\ a_tail' = b_tail /\ b_head' = 0 /\ b_tail' = 0
      BY <1>1, <2>2 DEF DecommitA
    <3>2. QED
      BY <1>0, <1>2, <1>3, <1>4, <1>6, <2>2, <3>1
         DEF Available, Place, Numbers
  <2>3. CASE a_head < a_tail /\ a_head + n = a_tail /\ ~ (b_tail > 0)
    <3>1. a_head' = 0 /\ a_tail' = 0 /\ b_head' = b_head /\ b_tail' = b_tail
      BY <1>1, <2>3 DEF DecommitA
    <3>2. QED
      BY <1>0, <1>2, <1>3, <1>4, <1>6, <2>3, <3>1
         DEF Available, Place, Numbers
  <2>4. CASE ~ (a_head < a_tail) /\ b_head + n # b_tail
    <3>1. a_head' = a_head /\ a_tail' = a_tail /\ b_head' = b_head + n /\ b_tail' = b_tail
      BY <1>1, <1>6, <2>4 DEF DecommitB
    <3>2. QED
      BY <1>0, <1>2, <1>3, <1>4, <1>6, <2>4, <3>1
         DEF Available, Place, Numbers
  <2>5. CASE ~ (a_head < a_tail) /\ b_head + n = b_tail
    <3>1. a_head' = a_head /\ a_tail' = a_tail /\ b_head' = 0 /\ b_tail' = 0
      BY <1>1, <1>6, <2>5 DEF DecommitB
    <3>2. QED
      BY <1>0, <1>2, <1>3, <1>4, <1>6, <2>5, <3>1
         DEF Available, Place, Numbers
  <2>6. QED
    BY <2>1, <2>2, <2>3, <2>4, <2>5
<1>8. /\ c2 \in Seq(Bytes) /\ Len(c2) = m - n
      /\ \A k \in 1 .. m - n : c2[k] = data[Place(n + k)]
  BY <1>1, <1>2, <1>5, <1>7 DEF ContentsAre
<1>9. \A k \in 1 .. m - n : n + k \in 1 .. m /\ (n + 1) + k - 1 = n + k
  BY <1>1, <1>3, <1>4
<1>10. r \in Seq(Bytes) /\ Len(r) = m - n /\ \A k \in 1 .. m - n : r[k] = c[n + k]
  <2>1. /\ n + 1 \in Int /\ m \in Int /\ m - (n + 1) + 1 = m - n
        /\ (IF n + 1 <= m THEN m - (n + 1) + 1 ELSE 0) = m - n
        /\ \A i \in n + 1 .. m : i \in 1 .. m
    BY <1>1, <1>3, <1>4
  <2>2. \A i \in n + 1 .. m : c[i] \in Bytes
    BY <1>3, <2>1
  <2>3. /\ r \in Seq(Bytes) /\ Len(r) = (IF n + 1 <= m THEN m - (n + 1) + 1 ELSE 0)
        /\ \A k \in 1 .. m - (n + 1) + 1 : r[k] = c[(n + 1) + k - 1]
    BY <1>2, <2>1, <2>2, SubSeqProperties
  <2>4. QED
    BY <1>9, <2>1, <2>3
<1>11. \A k \in 1 .. m - n : c2[k] = r[k]
  BY <1>3, <1>8, <1>9, <1>10
<1>12. c2 = r
  BY <1>8, <1>10, <1>11, SeqEqual
<1>13. QED
  BY <1>2, <1>3, <1>4, <1>12

(* Turns stay taken: a step of one thread is made while the other has no
   region. *)
LEMMA TurnsStep ==
  ASSUME ~Interleaved, ~ClearsAnytime, Ordered, TurnsTaken, [Next]_vars
  PROVE  TurnsTaken'
<1>1. ASSUME NEW src \in Inputs, Reserve(src) PROVE TurnsTaken'
  <2> DEFINE n == Len(src)
             r == Reservation(n)
  <2>1. n \in Nat /\ n > 0
    BY InputLength
  <2>2. /\ is_b => r.at = b_tail
        /\ ~is_b /\ StaysInA(n) => r.at = a_tail
        /\ ~is_b /\ ~StaysInA(n) => r.at = 0
    BY <2>1, ReservationFits
  <2>3. /\ wr.pc = "idle" /\ rd.len = 0
        /\ UNCHANGED <<data, a_tail, b_tail, rd>>
        /\ IF is_b /\ r.len <= 0 THEN is_b' = is_b ELSE is_b' = (is_b \/ ~StaysInA(n))
        /\ IF r.len <= 0 THEN wr' = wr
           ELSE wr' = [pc |-> "reserved", at |-> r.at, len |-> r.len, src |-> src]
    BY <1>1, Zenon DEF Reserve, reservation
  <2> HIDE DEF r, n
  <2>4. CASE r.len <= 0
    BY <2>3, <2>4 DEF TurnsTaken
  <2>5. CASE ~ (r.len <= 0)
    <3>1. /\ wr'.pc = "reserved" /\ wr'.at = r.at /\ rd'.len = 0
      BY <2>3, <2>5
    <3>2. is_b' = (is_b \/ ~StaysInA(n))
      BY <2>3, <2>5
    <3>3. ~is_b => b_tail = 0
      BY DEF Ordered, Layout, InOrder
    <3>4. wr'.at = IF is_b' THEN b_tail' ELSE a_tail'
      BY <2>2, <2>3, <3>1, <3>2, <3>3
    <3>5. QED
      BY <3>1, <3>4 DEF TurnsTaken
  <2>6. QED
    BY <2>4, <2>5
<1>2. ASSUME Fill PROVE TurnsTaken'
  <2>1. /\ wr.pc = "reserved" /\ wr' = [wr EXCEPT !.pc = "filled"]
        /\ UNCHANGED <<a_tail, b_tail, is_b, rd>>
    BY <1>2 DEF Fill, regions
  <2>2. /\ wr'.at = wr.at /\ wr'.len = wr.len /\ wr'.src = wr.src
        /\ wr.at \in Nat /\ wr.len \in Nat /\ wr.at + wr.len <= Size
    BY <2>1, BipBufferAssumption DEF Ordered, Reserved, Taken, Emptied
  <2>3. ASSUME NEW i \in 1 .. wr.len PROVE data'[wr.at + i - 1] = wr.src[i]
    <3>1. /\ wr.at + i - 1 \in Slots /\ wr.at + i - 1 \in wr.at .. wr.at + wr.len - 1
          /\ (wr.at + i - 1) - wr.at + 1 = i
      BY <2>2, BipBufferAssumption DEF Slots
    <3>2. QED
      BY <1>2, <3>1 DEF Fill
  <2>4. QED
    BY <2>1, <2>2, <2>3 DEF TurnsTaken
<1>3. ASSUME wr' = NoWrite PROVE TurnsTaken'
  BY <1>3 DEF TurnsTaken, NoWrite
<1>4. ASSUME wr.pc = "idle", wr' = wr PROVE TurnsTaken'
  BY <1>4 DEF TurnsTaken
<1>5. ASSUME UNCHANGED <<data, regions, wr, rd>> PROVE TurnsTaken'
  BY <1>5 DEF TurnsTaken, regions
<1>6. CASE Producer
  BY <1>1, <1>2, <1>3, <1>6 DEF Producer, Commit, Abandon
<1>7. CASE Consumer
  <2>1. GetReadPtr => wr.pc = "idle" /\ wr' = wr
    BY DEF GetReadPtr
  <2>2. ASSUME NEW n \in 1 .. Size, Decommit(n) PROVE wr.pc = "idle" /\ wr' = wr
    <3>1. wr.pc = "idle"
      BY <2>2 DEF Decommit, TurnsTaken, Ordered, Shown, Region
    <3>2. QED
      BY <2>2, <3>1 DEF Decommit
  <2>3. PeekReturns => wr.pc = "idle" /\ wr' = wr
    BY DEF PeekReturns, TurnsTaken, Ordered, Shown, Region
  <2>4. QED
    BY <1>4, <1>5, <1>7, <2>1, <2>2, <2>3 DEF Consumer, CopyOut
<1>8. CASE Clear
  BY <1>4, <1>8 DEF Clear
<1>9. CASE UNCHANGED vars
  BY <1>5, <1>9 DEF vars
<1>10. QED
  BY <1>6, <1>7, <1>8, <1>9 DEF Next

(* A step that leaves the bytes and the regions alone *)
LEMMA SameContents ==
  ASSUME UNCHANGED <<data, a_head, a_tail, b_head, b_tail>>
  PROVE  Contents' = Contents
BY DEF Contents

(* Every step of the buffer is one of a byte queue, or none. *)
LEMMA FifoStep ==
  ASSUME ~Interleaved, ~ClearsAnytime, Ordered, Ordered', TurnsTaken, [Next]_vars
  PROVE  [Fifo!Next]_Fifo!vars
<1>00. ~stale
  BY DEF Ordered, Undisturbed
<1> DEFINE Quiet == UNCHANGED Fifo!vars
<1>0. ContentsAre
  BY ContentsBytes
<1>1. ASSUME NEW src \in Inputs, Reserve(src) PROVE Fifo!Write(src) \/ Quiet
  <2>1. Contents' = Contents
    BY <1>1, SameContents DEF Reserve
  <2>2. CASE call' = call
    BY <2>1, <2>2 DEF Fifo!vars
  <2>3. CASE call' = <<"write", src, 0>>
    <3>1. SubSeq(src, 1, 0) = <<>> /\ Contents \o <<>> = Contents
      BY <1>0, SubSeqEmpty, ConcatEmptySeq DEF ContentsAre
    <3>2. /\ Len(src) \in Nat /\ Len(Contents) <= Size /\ Len(Contents) \in Nat /\ Size \in Nat
      BY <1>0, InputLength, BipBufferAssumption
         DEF ContentsAre, Available, Ordered, Members, Layout, InOrder
    <3>3. 0 \in 0 .. Len(src) /\ 0 <= Fifo!Least(Len(src), Size - Len(Contents))
      BY <3>2 DEF Fifo!Least
    <3>4. QED
      BY <2>1, <2>3, <3>1, <3>3 DEF Fifo!Write, Fifo!Prefix
  <2>4. QED
    BY <1>1, <2>2, <2>3 DEF Reserve
<1>2. ASSUME NEW n \in 0 .. Size, Commit(n) PROVE Fifo!Write(wr.src) /\ wr.src \in Inputs
  <2>1. /\ Contents' = Contents \o SubSeq(wr.src, 1, n)
        /\ n <= Len(wr.src) /\ n <= Size - Len(Contents)
    BY <1>2, Committed
  <2>2. call' = <<"write", wr.src, n>> /\ wr.src \in Inputs
    BY <1>2 DEF Commit, Ordered, Reserved, Taken, Emptied
  <2>3. n \in 0 .. Len(wr.src) /\ n <= Fifo!Least(Len(wr.src), Size - Len(Contents))
    BY <2>1, <2>2, InputLength DEF Fifo!Least
  <2>4. QED
    BY <2>1, <2>2, <2>3 DEF Fifo!Write, Fifo!Prefix
<1>3. ASSUME Fill PROVE Quiet
  <2>1. /\ wr.pc = "reserved" /\ UNCHANGED <<a_head, a_tail, b_head, b_tail, call>>
    BY <1>3 DEF Fill, regions
  <2>2. ContentsAre'
    BY ContentsBytes, PTL
  <2>3. Available' = Available /\ \A k : Place(k)' = Place(k)
    BY <2>1 DEF Available, Place
  <2>4. ASSUME NEW k \in 1 .. Available PROVE data'[Place(k)] = data[Place(k)]
    <3>1. Place(k) \in Slots /\ Place(k) \notin wr.at .. wr.at + wr.len - 1
      <4>0. Numbers
        BY Numbered
      <4>1. /\ wr.at = IF is_b THEN b_tail ELSE a_tail
            /\ wr.len \in 0 .. Size /\ wr.at + wr.len <= Size
            /\ is_b /\ a_head < a_tail => wr.at + wr.len <= a_head
        BY <2>1 DEF TurnsTaken, Ordered, Reserved, Taken, Emptied
      <4>2. PICK p : p = Place(k)
        OBVIOUS
      <4>3. p \in Nat /\ \/ a_head <= p /\ p < a_tail
                         \/ b_head <= p /\ p < b_tail
        BY <4>0, <4>2 DEF Available, Place, Numbers
      <4>4. p \notin wr.at .. wr.at + wr.len - 1
        BY <4>0, <4>1, <4>3 DEF Numbers
      <4>5. p \in Slots
        BY <4>0, <4>3 DEF Numbers, Slots
      <4>6. QED
        BY <4>2, <4>4, <4>5
    <3>2. QED
      BY <1>3, <3>1 DEF Fill
  <2>5. \A k \in 1 .. Available : Contents'[k] = Contents[k]
    BY <1>0, <2>2, <2>3, <2>4 DEF ContentsAre
  <2>6. Contents' = Contents
    <3>1. PICK c, c2 : c = Contents /\ c2 = Contents'
      OBVIOUS
    <3>2. /\ c \in Seq(Bytes) /\ c2 \in Seq(Bytes) /\ Len(c) = Len(c2)
          /\ \A k \in 1 .. Len(c) : c[k] = c2[k]
      BY <1>0, <2>2, <2>3, <2>5, <3>1 DEF ContentsAre
    <3>3. QED
      BY <3>1, <3>2, SeqEqual
  <2>7. QED
    BY <2>1, <2>6 DEF Fifo!vars
<1>4. ASSUME UNCHANGED <<data, regions, call>> PROVE Quiet
  BY <1>4, SameContents DEF regions, Fifo!vars
<1>5. ASSUME NEW n \in 1 .. Size, CopyOut(n) PROVE Fifo!Peek(n)
  <2>1. /\ n \in 1 .. rd.len /\ call' = <<"peek", [i \in 1 .. n |-> data[rd.at + i - 1]], n>>
        /\ UNCHANGED <<data, regions>>
    BY <1>5 DEF CopyOut
  <2>2. Contents' = Contents
    BY <2>1, SameContents DEF regions
  <2>3. /\ n <= Len(Contents)
        /\ SubSeq(Contents, 1, n) = [i \in 1 .. n |-> data[rd.at + i - 1]]
    BY <1>00, <2>1, ShownFirst
  <2>4. n \in 0 .. Fifo!Least(n, Len(Contents))
    BY <2>3 DEF Fifo!Least
  <2>5. QED
    BY <2>1, <2>2, <2>3, <2>4 DEF Fifo!Peek, Fifo!Prefix
<1>6. ASSUME NEW n \in 1 .. Size, Decommit(n) PROVE Fifo!Skip(n)
  <2>1. /\ Contents' = SubSeq(Contents, n + 1, Len(Contents)) /\ n <= Len(Contents)
        /\ call' = <<"skip", <<>>, n>>
    BY <1>00, <1>6, Decommitted DEF Decommit
  <2>2. n \in 0 .. Fifo!Least(n, Len(Contents))
    BY <2>1 DEF Fifo!Least
  <2>3. QED
    BY <2>1, <2>2 DEF Fifo!Skip, Fifo!Rest
<1>7. ASSUME Clear PROVE Fifo!Clear
  <2>1. ContentsAre' /\ Available' = 0 /\ call' = <<"clear", <<>>, 0>>
    <3>1. ContentsAre'
      BY ContentsBytes, PTL
    <3>2. QED
      BY <1>7, <3>1 DEF Clear, Available
  <2>2. Contents' = <<>>
    BY <2>1, EmptySeq DEF ContentsAre
  <2>3. QED
    BY <2>1, <2>2 DEF Fifo!Clear
<1> HIDE DEF Quiet
<1>8. CASE Producer
  <2>1. Abandon => Quiet
    BY <1>4 DEF Abandon
  <2>2. QED
    BY <1>1, <1>2, <1>3, <1>8, <2>1 DEF Producer, Fifo!Next, Quiet
<1>9. CASE Consumer
  <2>1. GetReadPtr \/ PeekReturns => Quiet
    BY <1>4 DEF GetReadPtr, PeekReturns
  <2>2. QED
    BY <1>5, <1>6, <1>9, <2>1 DEF Consumer, Fifo!Next, Quiet
<1>10. CASE UNCHANGED vars
  BY <1>4, <1>10 DEF vars, Quiet
<1>11. QED
  BY <1>7, <1>8, <1>9, <1>10 DEF Next, Fifo!Next, Quiet

(* BipBuffer::reserve, commit, get_read_ptr and decommit, when no operation
   overlaps another: a buffer of any size is a byte queue, whatever is
   reserved and not committed: what is shown is the oldest of what was
   committed, across the changes from A to B and back. *)
THEOREM BipImplementsFifo ==
  ASSUME ~Interleaved, ~ClearsAnytime
  PROVE  Spec => ImplementsByteFifo
<1>1. Init => TurnsTaken /\ Fifo!Init
  <2> SUFFICES ASSUME Init PROVE TurnsTaken /\ Fifo!Init
    OBVIOUS
  <2>1. TurnsTaken
    BY DEF Init, TurnsTaken, NoWrite
  <2>2. Contents = <<>>
    BY DEF Init, Contents
  <2>3. QED
    BY <2>1, <2>2 DEF Init, Fifo!Init
<1>5. IInv => Ordered
  BY DEF IInv, Strayed
<1>2. Ordered /\ TurnsTaken /\ [Next]_vars => TurnsTaken'
  BY TurnsStep
<1>3. Ordered /\ Ordered' /\ TurnsTaken /\ [Next]_vars => [Fifo!Next]_Fifo!vars
  BY FifoStep
<1>4. QED
  BY <1>1, <1>2, <1>3, <1>5, Inductive, PTL DEF Spec, ImplementsByteFifo, Fifo!Spec
=============================================================================
