----------------------------- MODULE SharedMapping -----------------------------
(***************************************************************************)
(* Memory mapped from a shared memory segment (SharedMemory.hx over        *)
(* shm_native.cpp, POSIX branch) or from a file (MemoryMap.hx over fs_mmap_* *)
(* of fs_native.cpp).  Several processes open the segment by its name; an  *)
(* open is several system calls, between which other processes run.  A     *)
(* mapping keeps the length it was made with, the segment has its own.     *)
(* read and write change nothing but bytes: which ones is Copied below.    *)
(***************************************************************************)
EXTENDS Integers, FiniteSets

CONSTANTS
  ShmObjects,  (* SharedMemory objects, in any number of processes          *)
  FileObjects, (* MemoryMap objects                                         *)
  Sizes,       (* sizes that are asked for                                  *)
  FileLength,  (* the length of the file                                    *)
  MaxInt,      (* the largest int                                           *)
  Addresses,   (* what mappings are identified by; bound: how many there are *)
  NULL,        (* handle 0                                                  *)
  MaxSegments  (* bound: segments ever made                                 *)

ASSUME SharedMappingAssumption ==
  /\ ShmObjects \cap FileObjects = {}
  /\ MaxInt \in Nat /\ FileLength \in Nat /\ Sizes \subseteq 1 .. MaxInt
  /\ MaxSegments \in Nat /\ NULL \notin Addresses

Objects == ShmObjects \cup FileObjects
File == MaxSegments + 1
Segments == 1 .. File

VARIABLES
  length,   (* per segment, the file included: its current length           *)
  current,  (* the segment the name stands for, 0 if there is none          *)
  used,     (* segments made so far                                         *)
  map,      (* the mappings that exist: segment and length                  *)
  obj,      (* per object: the open under way (its step, segment, writable and
               size); the handle unless _closed is set                      *)
  shrunk,   (* history: the segments that were made shorter                 *)
  leaked,   (* history: mappings whose object was opened again, or that no
               object ever got                                              *)
  mapAllocs (* g_active_allocations, as far as mappings count in it         *)

segments == <<length, current, used, shrunk>>
mappings == <<map, mapAllocs>>
Live == DOMAIN map
mappingVars == <<segments, mappings, obj, leaked>>

(* All methods but open test handle.isValid && !_closed: an object that was
   closed is like a new one. *)
NewObject == [pc |-> "idle", seg |-> 0, writable |-> FALSE, size |-> 0, handle |-> NULL]
Usable(o) == obj[o].handle # NULL

MappingInit ==
  /\ length = [s \in Segments |-> IF s = File THEN FileLength ELSE 0]
  /\ current = 0 /\ used = 0
  /\ map = <<>>
  /\ obj = [o \in Objects |-> NewObject]
  /\ shrunk = {} /\ leaked = {} /\ mapAllocs = 0

(* The open of o returns handle h: the Haxe object forgets the one it had. *)
Returns(o, h) ==
  /\ obj' = [obj EXCEPT ![o] = [NewObject EXCEPT !.handle = h]]
  /\ leaked' = leaked \cup (IF Usable(o) THEN {obj[o].handle} ELSE {})

(* mmap and malloc: h is any address that is not in use. *)
Mapped(h, s, n) ==
  /\ h \in Addresses \ Live
  /\ map' = [m \in Live \cup {h} |->
               IF m = h THEN [seg |-> s, len |-> n] ELSE map[m]]

(* shm_open: with O_CREAT if writable, and -1 if it finds nothing. *)
ShmOpen(o, n, writable) ==
  /\ obj[o].pc = "idle"
  /\ IF current = 0 /\ writable
     THEN used < MaxSegments /\ used' = used + 1 /\ current' = used + 1
     ELSE UNCHANGED <<used, current>>
  /\ obj' = [obj EXCEPT ![o] = [@ EXCEPT !.pc = "opened", !.seg = current',
                                         !.size = n, !.writable = writable]]
  /\ UNCHANGED <<length, shrunk, mappings, leaked>>

(* shm_open, ftruncate or mmap fails; what was done so far stays. *)
ShmOpenFails(o) ==
  /\ obj[o].pc # "idle"
  /\ Returns(o, NULL)
  /\ UNCHANGED <<segments, mappings>>

(* ftruncate, by a writer only *)
ShmTruncate(o) ==
  LET s == obj[o].seg
  IN /\ obj[o].pc = "opened" /\ obj[o].writable
     /\ obj' = [obj EXCEPT ![o].pc = "sized"]
     /\ length' = [length EXCEPT ![s] = obj[o].size]
     /\ shrunk' = IF obj[o].size < length[s] THEN shrunk \cup {s} ELSE shrunk
     /\ UNCHANGED <<current, used, mappings, leaked>>

(* Mutant: a reader maps the size it was asked for. *)
MapLengthAsked(o) == obj[o].size

MapLength(o) ==
  IF obj[o].writable THEN obj[o].size ELSE length[obj[o].seg]

(* fstat by a reader, and mmap, which refuses a length of 0; the mapping is not
   counted.  What happens between the two is what may happen after them. *)
ShmMap(o) ==
  LET n == MapLength(o)
  IN /\ obj[o].seg # 0
     /\ obj[o].pc = IF obj[o].writable THEN "sized" ELSE "opened"
     /\ n # 0
     /\ \E h \in Addresses : Mapped(h, obj[o].seg, n) /\ Returns(o, h)
     /\ UNCHANGED <<segments, mapAllocs>>

ShmUnlink ==
  /\ current' = 0
  /\ UNCHANGED <<length, used, shrunk, mappings, obj, leaked>>

(* MemoryMap.open: the size is not compared with the length of the file;
   whether the mapping is writable makes no difference here. *)
FileOpen(o, n) ==
  /\ obj[o] = NewObject
  /\ \E h \in Addresses :
       /\ Mapped(h, File, n)
       /\ obj' = [obj EXCEPT ![o] = [NewObject EXCEPT !.handle = h]]
  /\ mapAllocs' = mapAllocs + 1
  /\ UNCHANGED <<segments, leaked>>

(* No memory for the record of the mapping: the file stays mapped, and open
   returns 0. *)
FileOpenFails(o, n) ==
  /\ obj[o] = NewObject
  /\ \E h \in Addresses : Mapped(h, File, n) /\ leaked' = leaked \cup {h}
  /\ UNCHANGED <<segments, obj, mapAllocs>>

(* Mutant: shared memory is counted down although it was not counted up. *)
CloseCountsEvery(o) ==
  /\ Usable(o) /\ obj[o].pc = "idle"
  /\ obj' = [obj EXCEPT ![o] = NewObject]
  /\ map' = [m \in Live \ {obj[o].handle} |-> map[m]]
  /\ mapAllocs' = mapAllocs - 1
  /\ UNCHANGED <<segments, leaked>>

(* close, by the client or by the finalizer, sets _closed. *)
CloseMapping(o) ==
  /\ Usable(o) /\ obj[o].pc = "idle"
  /\ obj' = [obj EXCEPT ![o] = NewObject]
  /\ map' = [m \in Live \ {obj[o].handle} |-> map[m]]
  /\ mapAllocs' = IF map[obj[o].handle].seg = File THEN mapAllocs - 1 ELSE mapAllocs
  /\ UNCHANGED <<segments, leaked>>

MappingNext ==
  \/ \E o \in ShmObjects :
       \/ \E n \in Sizes, w \in BOOLEAN : ShmOpen(o, n, w)
       \/ ShmOpenFails(o) \/ ShmTruncate(o) \/ ShmMap(o)
  \/ \E o \in FileObjects, n \in Sizes : FileOpen(o, n) \/ FileOpenFails(o, n)
  \/ \E o \in Objects : CloseMapping(o)
  \/ ShmUnlink

MappingSpec == MappingInit /\ [][MappingNext]_mappingVars

-----------------------------------------------------------------------------
(* Signed 32-bit sums wrap around in the builds that are made. *)
AsInt(n) == ((n + MaxInt + 1) % (2 * MaxInt + 2)) - MaxInt - 1

(* Mutant: the clamped length does not take the offset into account. *)
CopiedIgnoringOffset(m, offset, len) ==
  LET n == IF AsInt(offset + len) > map[m].len THEN map[m].len ELSE len
  IN offset .. offset + n - 1

(* The bytes that read and write copy, of mapping m: both shorten a range
   that passes the end of the mapping. *)
Copied(m, offset, len) ==
  LET n == IF AsInt(offset + len) > map[m].len
           THEN AsInt(map[m].len - offset) ELSE len
  IN offset .. offset + n - 1

(* The type invariant. *)
MappingTypeOK ==
  /\ length \in [Segments -> Nat]
  /\ current \in 0 .. used /\ used \in 0 .. MaxSegments
  /\ Live \cup leaked \subseteq Addresses
  /\ \A m \in Live : map[m] \in [seg : Segments, len : 1 .. MaxInt]
  /\ obj \in [Objects -> [pc : {"idle", "opened", "sized"},
                seg : 0 .. MaxSegments, writable : BOOLEAN,
                size : Sizes \cup {0}, handle : Addresses \cup {NULL}]]
  /\ mapAllocs \in Int

(* A read or write copies the bytes it was asked for that the mapping has, and
   no other, as long as the range starts at 0 or later and its end is an int.
   Any other range of one byte or more takes the copy out of the mapping: the
   sum that is compared with the size has wrapped around, or nothing looks at
   the negative offset. *)
CopiesInsideMapping ==
  \A m \in Live, offset \in -MaxInt - 1 .. MaxInt, len \in 0 .. MaxInt :
    LET asked == offset .. offset + len - 1
        bytes == 0 .. map[m].len - 1
    IN IF len = 0 \/ (offset >= 0 /\ offset + len <= MaxInt)
       THEN Copied(m, offset, len) = asked \cap bytes
       ELSE ~ (Copied(m, offset, len) \subseteq bytes)

(* The bytes behind a shared memory mapping exist (an access to others is a
   bus error) unless another process has opened the segment with a smaller
   size: the order of shm_open, ftruncate, fstat and mmap of two processes
   does not matter otherwise. *)
MappingBacked ==
  \A m \in Live : map[m].seg \notin shrunk \cup {File}
                    => map[m].len <= length[map[m].seg]

(* What an object refers to is mapped, once and for it alone; a mapping
   nothing refers to was lost by opening an object again, or by a failure of
   malloc.  So close, after close or by the finalizer, never unmaps what
   somebody else got.  Every MemoryMap counts once in the allocation counter; a
   SharedMemory, and what was lost of a file, never. *)
HandlesOwned ==
  /\ \A o \in Objects : Usable(o) => obj[o].handle \in Live \ leaked
  /\ \A o, p \in Objects : Usable(o) /\ Usable(p) /\ o # p
                             => obj[o].handle # obj[p].handle
  /\ Live \subseteq leaked \cup {obj[o].handle : o \in {q \in Objects : Usable(q)}}
  /\ mapAllocs = Cardinality({m \in Live \ leaked : map[m].seg = File})

=============================================================================
