------------------------- MODULE InterprocessProofs --------------------------
(***************************************************************************)
(* Theorems about what processes share by name: SharedMapping, for any     *)
(* number of objects, segments and addresses, any sizes and any width of   *)
(* int (the ranges read and write copy, the bytes behind a mapping, who    *)
(* owns one); and NamedLocks, for any number of processes, permits and     *)
(* semaphores made under the name.                                         *)
(***************************************************************************)
EXTENDS SharedMapping, NamedLocks, FiniteSetTheorems, TLAPS

-----------------------------------------------------------------------------
(***************************************************************************)
(* Shared memory.                                                          *)
(***************************************************************************)

(* An object that is between two system calls of open. *)
InOpen ==
  \A o \in Objects :
    /\ obj[o].pc # "idle" /\ obj[o].writable => obj[o].seg # 0
    /\ obj[o].pc = "sized" => obj[o].writable

(* The length of a segment is one somebody asked for. *)
LengthsFit == \A s \in 1 .. MaxSegments : length[s] <= MaxInt

TypeInv == MappingTypeOK /\ InOpen /\ LengthsFit /\ IsFiniteSet(Live)

(* Between ftruncate and mmap of a writer, only another ftruncate can have made
   the segment shorter. *)
SizedBacked ==
  \A o \in Objects :
    obj[o].pc = "sized" => obj[o].seg \in shrunk \/ obj[o].size <= length[obj[o].seg]

ObjectType == [pc : {"idle", "opened", "sized"}, seg : 0 .. MaxSegments,
               writable : BOOLEAN, size : Sizes \cup {0}, handle : Addresses \cup {NULL}]

LEMMA NewObjectTyped ==
  /\ NewObject \in ObjectType /\ NewObject.pc = "idle" /\ NewObject.handle = NULL
  BY SharedMappingAssumption DEF NewObject, ObjectType

LEMMA TypeInvInit == MappingInit => TypeInv /\ SizedBacked /\ MappingBacked
<1> SUFFICES ASSUME MappingInit PROVE TypeInv /\ SizedBacked /\ MappingBacked
  OBVIOUS
<1>1. Live = {} /\ IsFiniteSet(Live)
  BY FS_EmptySet DEF MappingInit, Live
<1>2. obj \in [Objects -> ObjectType] /\ \A o \in Objects : obj[o].pc = "idle"
  BY NewObjectTyped DEF MappingInit
<1>3. /\ length \in [Segments -> Nat] /\ LengthsFit
      /\ current \in 0 .. used /\ used \in 0 .. MaxSegments
  BY SharedMappingAssumption DEF MappingInit, LengthsFit, Segments, File
<1>4. MappingTypeOK
  BY <1>1, <1>2, <1>3 DEF MappingTypeOK, MappingInit, ObjectType
<1>5. QED
  BY <1>1, <1>2, <1>3, <1>4 DEF TypeInv, InOpen, SizedBacked, MappingBacked

-----------------------------------------------------------------------------
(***************************************************************************)
(* What the helpers of the actions do.                                     *)
(***************************************************************************)
LEMMA MapsOne ==
  ASSUME NEW h, NEW s \in Segments, NEW n \in 1 .. MaxInt, Mapped(h, s, n), TypeInv
  PROVE  /\ h \in Addresses /\ h \notin Live /\ h # NULL
         /\ Live' = Live \cup {h} /\ IsFiniteSet(Live')
         /\ map'[h] = [seg |-> s, len |-> n]
         /\ \A m \in Live : map'[m] = map[m]
         /\ \A m \in Live' : map'[m] \in [seg : Segments, len : 1 .. MaxInt]
<1>1. h \in Addresses /\ h \notin Live /\ h # NULL
  BY SharedMappingAssumption DEF Mapped
<1>2. Live' = Live \cup {h}
  BY DEF Mapped, Live
<1>3. map'[h] = [seg |-> s, len |-> n] /\ \A m \in Live : map'[m] = map[m]
  BY <1>1 DEF Mapped
<1>4. IsFiniteSet(Live')
  BY <1>2, FS_AddElement DEF TypeInv
<1>5. \A m \in Live' : map'[m] \in [seg : Segments, len : 1 .. MaxInt]
  BY <1>2, <1>3 DEF TypeInv, MappingTypeOK
<1>6. QED
  BY <1>1, <1>2, <1>3, <1>4, <1>5

LEMMA ReturnsOne ==
  ASSUME NEW o \in Objects, NEW h \in Addresses \cup {NULL}, Returns(o, h), TypeInv
  PROVE  /\ obj' \in [Objects -> ObjectType] /\ obj'[o].pc = "idle"
         /\ obj'[o].handle = h
         /\ \A p \in Objects : p # o => obj'[p] = obj[p]
         /\ leaked' = leaked \cup (IF Usable(o) THEN {obj[o].handle} ELSE {})
         /\ leaked' \subseteq Addresses
<1>1. obj \in [Objects -> ObjectType] /\ obj[o] \in ObjectType
  BY DEF TypeInv, MappingTypeOK, ObjectType
<1> DEFINE r == [NewObject EXCEPT !.handle = h]
<1>2. r \in ObjectType /\ r.pc = "idle" /\ r.handle = h
  BY NewObjectTyped DEF NewObject, ObjectType
<1> HIDE DEF r
<1>3. obj' = [obj EXCEPT ![o] = r]
  BY DEF Returns, r
<1>4. leaked' \subseteq Addresses
  BY <1>1 DEF Returns, Usable, ObjectType, TypeInv, MappingTypeOK
<1>5. QED
  BY <1>1, <1>2, <1>3, <1>4, NewObjectTyped DEF Returns

-----------------------------------------------------------------------------
(***************************************************************************)
(* Types, and the bytes behind a mapping.                                  *)
(***************************************************************************)
BackedInv == TypeInv /\ SizedBacked /\ MappingBacked

LEMMA SameObjects ==
  ASSUME BackedInv, UNCHANGED segments, UNCHANGED map, UNCHANGED mapAllocs,
         NEW o \in Objects, obj' \in [Objects -> ObjectType],
         \A p \in Objects : p # o => obj'[p] = obj[p],
         obj'[o].pc = "idle", leaked' \subseteq Addresses
  PROVE  BackedInv'
<1>1. UNCHANGED <<length, current, used, shrunk, map, mapAllocs>> /\ Live' = Live
  BY DEF segments, Live
<1>2. MappingTypeOK'
  BY <1>1 DEF BackedInv, TypeInv, MappingTypeOK, ObjectType
<1>3. InOpen' /\ LengthsFit' /\ SizedBacked' /\ MappingBacked' /\ IsFiniteSet(Live')
  BY <1>1 DEF BackedInv, TypeInv, InOpen, LengthsFit, SizedBacked, MappingBacked
<1>4. QED
  BY <1>2, <1>3 DEF BackedInv, TypeInv

LEMMA BackedStep == BackedInv /\ [MappingNext]_mappingVars => BackedInv'
<1> SUFFICES ASSUME BackedInv, [MappingNext]_mappingVars PROVE BackedInv'
  OBVIOUS
<1> USE SharedMappingAssumption
<1>0. /\ TypeInv /\ MappingTypeOK /\ InOpen /\ LengthsFit /\ SizedBacked /\ MappingBacked
      /\ obj \in [Objects -> ObjectType]
  BY DEF BackedInv, TypeInv, MappingTypeOK, ObjectType
<1>1. ASSUME NEW o \in Objects, NEW n \in Sizes, NEW w \in BOOLEAN, ShmOpen(o, n, w)
      PROVE  BackedInv'
  <2> DEFINE r == [obj[o] EXCEPT !.pc = "opened", !.seg = current', !.size = n,
                                 !.writable = w]
  <2>1. /\ current' \in 0 .. used' /\ used' \in 0 .. MaxSegments
        /\ w => current' # 0
    BY <1>0, <1>1 DEF ShmOpen, MappingTypeOK
  <2>2. r \in ObjectType /\ r.pc = "opened" /\ r.seg = current' /\ r.writable = w
    <3>1. PICK s \in 0 .. MaxSegments : s = current'
      BY <2>1
    <3>2. PICK x \in ObjectType : x = obj[o]
      BY <1>0
    <3>3. PICK y \in ObjectType : y = [x EXCEPT !.pc = "opened"]
      BY DEF ObjectType
    <3>4. PICK z \in ObjectType : z = [y EXCEPT !.seg = s]
      BY DEF ObjectType
    <3>5. PICK u \in ObjectType : u = [z EXCEPT !.size = n]
      BY DEF ObjectType
    <3>6. PICK v \in ObjectType : v = [u EXCEPT !.writable = w]
      BY DEF ObjectType
    <3>7. v = r
      BY <3>1, <3>2, <3>3, <3>4, <3>5, <3>6 DEF ObjectType
    <3>8. v.pc = "opened" /\ v.seg = s /\ v.writable = w
      BY <3>3, <3>4, <3>5, <3>6 DEF ObjectType
    <3>9. QED
      BY <3>1, <3>7, <3>8
  <2>3. obj' = [obj EXCEPT ![o] = r]
    BY <1>1 DEF ShmOpen
  <2> HIDE DEF r
  <2>4. UNCHANGED <<length, shrunk, map, mapAllocs, leaked>> /\ Live' = Live
    BY <1>1 DEF ShmOpen, mappings, Live
  <2>5. MappingTypeOK'
    BY <1>0, <2>1, <2>2, <2>3, <2>4 DEF MappingTypeOK, ObjectType
  <2>6. InOpen' /\ SizedBacked'
    BY <1>0, <2>1, <2>2, <2>3, <2>4 DEF InOpen, SizedBacked
  <2>7. LengthsFit' /\ MappingBacked' /\ IsFiniteSet(Live')
    BY <1>0, <2>4 DEF LengthsFit, MappingBacked, TypeInv
  <2>8. QED
    BY <2>5, <2>6, <2>7 DEF BackedInv, TypeInv
<1>2. ASSUME NEW o \in Objects, Returns(o, NULL), UNCHANGED <<segments, map, mapAllocs>>
      PROVE  BackedInv'
  BY <1>0, <1>2, ReturnsOne, SameObjects
<1>3. ASSUME NEW o \in Objects, ShmOpenFails(o) PROVE BackedInv'
  BY <1>2, <1>3 DEF ShmOpenFails, mappings
<1>4. ASSUME NEW o \in Objects, ShmTruncate(o) PROVE BackedInv'
  <2> PICK s \in 0 .. MaxSegments : s = obj[o].seg
    BY <1>0 DEF ObjectType
  <2>1. /\ obj[o].pc = "opened" /\ obj[o].writable
        /\ obj' = [obj EXCEPT ![o] = [@ EXCEPT !.pc = "sized"]]
        /\ length' = [length EXCEPT ![s] = obj[o].size]
        /\ shrunk' = IF obj[o].size < length[s] THEN shrunk \cup {s} ELSE shrunk
        /\ UNCHANGED <<current, used, map, mapAllocs, leaked>> /\ Live' = Live
    BY <1>4 DEF ShmTruncate, mappings, Live
  <2>2. s \in 1 .. MaxSegments /\ s \in Segments
    BY <1>0, <2>1 DEF InOpen, Segments, File
  <2>3. /\ [obj[o] EXCEPT !.pc = "sized"] \in ObjectType
        /\ obj[o].size \in 0 .. MaxInt
    BY <1>0 DEF ObjectType
  <2>4. MappingTypeOK'
    <3>1. obj' \in [Objects -> ObjectType]
      BY <1>0, <2>1, <2>3
    <3>2. length' \in [Segments -> Nat]
      <4>1. obj[o].size \in Nat
        BY <2>3
      <4>2. QED
        BY <1>0, <2>1, <4>1 DEF MappingTypeOK
    <3>3. QED
      BY <1>0, <2>1, <3>1, <3>2 DEF MappingTypeOK, ObjectType
  <2>5. LengthsFit'
    BY <1>0, <2>1, <2>2, <2>3 DEF LengthsFit, MappingTypeOK, Segments, File
  <2>6. InOpen'
    BY <1>0, <2>1 DEF InOpen, ObjectType
  <2>7. \A r \in Segments : r \notin shrunk' => r \notin shrunk /\ length[r] <= length'[r]
    BY <1>0, <2>1, <2>2, <2>3 DEF MappingTypeOK
  <2>8. SizedBacked'
    <3>1. ASSUME NEW p \in Objects, obj'[p].pc = "sized"
          PROVE  obj'[p].seg \in shrunk' \/ obj'[p].size <= length'[obj'[p].seg]
      <4>1. CASE p = o
        <5>1. obj'[p].seg = s /\ obj'[p].size = obj[o].size
          BY <1>0, <2>1, <4>1 DEF ObjectType
        <5>2. length'[s] = obj[o].size
          BY <1>0, <2>1, <2>2 DEF MappingTypeOK
        <5>3. QED
          BY <2>3, <5>1, <5>2
      <4>2. CASE p # o
        <5>1. /\ obj'[p] = obj[p] /\ obj[p].pc = "sized" /\ obj[p].size \in Nat
              /\ obj[p].seg \in Segments
          BY <1>0, <2>1, <3>1, <4>2 DEF InOpen, ObjectType, Segments, File
        <5>2. length[obj[p].seg] \in Nat /\ length'[obj[p].seg] \in Nat
          BY <1>0, <2>4, <5>1 DEF MappingTypeOK
        <5>3. QED
          BY <1>0, <2>7, <5>1, <5>2 DEF SizedBacked
      <4>3. QED
        BY <4>1, <4>2
    <3>2. QED
      BY <3>1 DEF SizedBacked
  <2>9. MappingBacked'
    <3>1. ASSUME NEW m \in Live, map[m].seg \notin shrunk' \cup {File}
          PROVE  map[m].len <= length'[map[m].seg]
      <4>1. map[m].seg \in Segments /\ map[m].len \in Nat
        BY <1>0 DEF MappingTypeOK
      <4>2. length[map[m].seg] \in Nat /\ length'[map[m].seg] \in Nat
        BY <1>0, <2>4, <4>1 DEF MappingTypeOK
      <4>3. QED
        BY <1>0, <2>7, <3>1, <4>1, <4>2 DEF MappingBacked
    <3>2. QED
      BY <2>1, <3>1 DEF MappingBacked
  <2>10. QED
    BY <1>0, <2>1, <2>4, <2>5, <2>6, <2>8, <2>9 DEF BackedInv, TypeInv
<1>5. ASSUME NEW o \in Objects, ShmMap(o) PROVE BackedInv'
  <2> PICK n \in 0 .. MaxInt, s \in 1 .. MaxSegments : n = MapLength(o) /\ s = obj[o].seg
    <3>1. obj[o].seg \in 1 .. MaxSegments /\ obj[o].size \in 0 .. MaxInt
      <4>1. obj[o] \in ObjectType /\ obj[o].seg # 0
        BY <1>0, <1>5 DEF ShmMap
      <4>2. obj[o].seg \in 0 .. MaxSegments /\ obj[o].size \in Sizes \cup {0}
        BY <4>1 DEF ObjectType
      <4>3. obj[o].seg \in 1 .. MaxSegments
        BY <4>1, <4>2
      <4>4. \A k \in Sizes \cup {0} : k \in 0 .. MaxInt
        OBVIOUS
      <4>5. QED
        BY <4>2, <4>3, <4>4
    <3>2. length[obj[o].seg] \in 0 .. MaxInt
      BY <1>0, <3>1 DEF MappingTypeOK, LengthsFit, Segments, File
    <3>3. QED
      BY <3>1, <3>2 DEF MapLength
  <2>1. s \in Segments /\ s # File
    BY DEF Segments, File
  <2>2. UNCHANGED <<length, current, used, shrunk, mapAllocs>> /\ UNCHANGED segments
    BY <1>5 DEF ShmMap, segments
  <2>3. BackedInv'
    <3>1. PICK h \in Addresses : Mapped(h, s, n) /\ Returns(o, h)
      BY <1>5 DEF ShmMap
    <3>2. /\ h \in Addresses /\ Live' = Live \cup {h} /\ IsFiniteSet(Live')
          /\ map'[h] = [seg |-> s, len |-> n]
          /\ \A m \in Live : map'[m] = map[m]
          /\ \A m \in Live' : map'[m] \in [seg : Segments, len : 1 .. MaxInt]
      <4>1. n \in 1 .. MaxInt
        BY <1>5 DEF ShmMap
      <4>2. QED
        BY <1>0, <2>1, <3>1, <4>1, MapsOne
    <3>3. /\ obj' \in [Objects -> ObjectType] /\ obj'[o].pc = "idle"
          /\ \A p \in Objects : p # o => obj'[p] = obj[p]
          /\ leaked' \subseteq Addresses
      BY <1>0, <3>1, ReturnsOne
    <3>4. MappingTypeOK'
      BY <1>0, <2>2, <3>2, <3>3 DEF MappingTypeOK, ObjectType
    <3>5. InOpen' /\ LengthsFit' /\ SizedBacked'
      BY <1>0, <2>2, <3>3 DEF InOpen, LengthsFit, SizedBacked
    <3>6. s \in shrunk \/ n <= length[s]
      <4>1. CASE obj[o].writable
        BY <1>0, <1>5, <4>1 DEF ShmMap, MapLength, SizedBacked
      <4>2. CASE ~obj[o].writable
        BY <4>2 DEF MapLength
      <4>3. QED
        BY <4>1, <4>2
    <3>7. MappingBacked'
      BY <1>0, <2>2, <3>2, <3>6 DEF MappingBacked
    <3>8. QED
      BY <3>2, <3>4, <3>5, <3>7 DEF BackedInv, TypeInv
  <2>4. QED
    BY <2>3
<1>6. CASE ShmUnlink
  <2>1. UNCHANGED <<length, used, shrunk, map, mapAllocs, obj, leaked>>
        /\ Live' = Live /\ current' = 0
    BY <1>6 DEF ShmUnlink, mappings, Live
  <2>2. QED
    BY <1>0, <2>1
       DEF BackedInv, TypeInv, MappingTypeOK, InOpen, LengthsFit, SizedBacked, MappingBacked
<1>7. ASSUME NEW o \in Objects, NEW n \in Sizes, FileOpen(o, n) PROVE BackedInv'
  <2>1. n \in 1 .. MaxInt /\ File \in Segments
    BY DEF File, Segments
  <2>2. PICK h \in Addresses : /\ Mapped(h, File, n)
          /\ obj' = [obj EXCEPT ![o] = [NewObject EXCEPT !.handle = h]]
    BY <1>7 DEF FileOpen
  <2>3. /\ Live' = Live \cup {h} /\ IsFiniteSet(Live')
        /\ map'[h] = [seg |-> File, len |-> n]
        /\ \A m \in Live : map'[m] = map[m]
        /\ \A m \in Live' : map'[m] \in [seg : Segments, len : 1 .. MaxInt]
    BY <1>0, <2>1, <2>2, MapsOne
  <2>4. /\ [NewObject EXCEPT !.handle = h] \in ObjectType
        /\ [NewObject EXCEPT !.handle = h].pc = "idle"
    BY NewObjectTyped DEF NewObject, ObjectType
  <2>5. UNCHANGED <<length, current, used, shrunk, leaked>> /\ mapAllocs' = mapAllocs + 1
    BY <1>7 DEF FileOpen, segments
  <2>6. MappingTypeOK'
    BY <1>0, <2>2, <2>3, <2>4, <2>5 DEF MappingTypeOK, ObjectType
  <2>7. InOpen' /\ LengthsFit' /\ SizedBacked'
    BY <1>0, <2>2, <2>4, <2>5 DEF InOpen, LengthsFit, SizedBacked
  <2>8. MappingBacked'
    BY <1>0, <2>3, <2>5 DEF MappingBacked
  <2>9. QED
    BY <2>3, <2>6, <2>7, <2>8 DEF BackedInv, TypeInv
<1>11. ASSUME NEW o \in Objects, NEW n \in Sizes, FileOpenFails(o, n) PROVE BackedInv'
  <2>1. n \in 1 .. MaxInt /\ File \in Segments
    BY DEF File, Segments
  <2>2. PICK h \in Addresses : Mapped(h, File, n) /\ leaked' = leaked \cup {h}
    BY <1>11 DEF FileOpenFails
  <2>3. /\ Live' = Live \cup {h} /\ IsFiniteSet(Live')
        /\ map'[h] = [seg |-> File, len |-> n]
        /\ \A m \in Live : map'[m] = map[m]
        /\ \A m \in Live' : map'[m] \in [seg : Segments, len : 1 .. MaxInt]
    BY <1>0, <2>1, <2>2, MapsOne
  <2>4. UNCHANGED <<length, current, used, shrunk, obj, mapAllocs>>
    BY <1>11 DEF FileOpenFails, segments
  <2>5. MappingTypeOK'
    BY <1>0, <2>2, <2>3, <2>4 DEF MappingTypeOK
  <2>6. InOpen' /\ LengthsFit' /\ SizedBacked'
    BY <1>0, <2>4 DEF InOpen, LengthsFit, SizedBacked
  <2>7. MappingBacked'
    BY <1>0, <2>3, <2>4 DEF MappingBacked
  <2>8. QED
    BY <2>3, <2>5, <2>6, <2>7 DEF BackedInv, TypeInv
<1>8. ASSUME NEW o \in Objects, CloseMapping(o) PROVE BackedInv'
  <2>1. /\ obj' = [obj EXCEPT ![o] = NewObject]
        /\ UNCHANGED <<length, current, used, shrunk, leaked>>
        /\ mapAllocs' = mapAllocs \/ mapAllocs' = mapAllocs - 1
    BY <1>8 DEF CloseMapping, segments
  <2>2. Live' \subseteq Live /\ \A m \in Live' : map'[m] = map[m]
    BY <1>8 DEF CloseMapping, Live
  <2>3. IsFiniteSet(Live')
    BY <1>0, <2>2, FS_Subset DEF TypeInv
  <2>4. MappingTypeOK'
    BY <1>0, <2>1, <2>2, NewObjectTyped DEF MappingTypeOK, ObjectType
  <2>5. InOpen' /\ LengthsFit' /\ SizedBacked'
    BY <1>0, <2>1, NewObjectTyped DEF InOpen, LengthsFit, SizedBacked
  <2>6. MappingBacked'
    BY <1>0, <2>1, <2>2 DEF MappingBacked
  <2>7. QED
    BY <2>3, <2>4, <2>5, <2>6 DEF BackedInv, TypeInv
<1>9. CASE UNCHANGED mappingVars
  <2>1. UNCHANGED <<length, current, used, shrunk, map, mapAllocs, obj, leaked>>
        /\ Live' = Live
    BY <1>9 DEF mappingVars, segments, mappings, Live
  <2>2. QED
    BY <1>0, <2>1
       DEF BackedInv, TypeInv, MappingTypeOK, InOpen, LengthsFit, SizedBacked, MappingBacked
<1>10. QED
  BY <1>1, <1>3, <1>4, <1>5, <1>6, <1>7, <1>8, <1>9, <1>11 DEF MappingNext, Objects

(* The bytes behind a mapping of shared memory exist unless the segment was
   opened with a smaller size, in whatever order two processes open it. *)
THEOREM MappingsBacked == MappingSpec => []MappingBacked
<1>1. MappingInit => BackedInv
  BY TypeInvInit DEF BackedInv
<1>2. BackedInv => MappingBacked
  BY DEF BackedInv
<1>3. QED
  BY <1>1, BackedStep, <1>2, PTL DEF MappingSpec

-----------------------------------------------------------------------------
(***************************************************************************)
(* Who owns a mapping.                                                     *)
(***************************************************************************)
OfFile == {m \in Live \ leaked : map[m].seg = File}

(* A SharedMemory does not refer to a mapping of the file. *)
ShmHandles == \A o \in ShmObjects : Usable(o) => map[obj[o].handle].seg # File

OwnedInv == BackedInv /\ HandlesOwned /\ leaked \subseteq Live /\ ShmHandles

LEMMA OwnedInit == MappingInit => OwnedInv
<1> SUFFICES ASSUME MappingInit PROVE OwnedInv
  OBVIOUS
<1>1. Live = {} /\ leaked = {} /\ mapAllocs = 0 /\ \A o \in Objects : ~Usable(o)
  BY NewObjectTyped DEF MappingInit, Live, Usable
<1>2. {m \in Live \ leaked : map[m].seg = File} = {}
  BY <1>1
<1>3. Cardinality({m \in Live \ leaked : map[m].seg = File}) = 0
  BY <1>2, FS_EmptySet
<1>4. QED
  BY <1>1, <1>3, TypeInvInit DEF OwnedInv, BackedInv, HandlesOwned, ShmHandles, Objects

LEMMA OwnedType ==
  OwnedInv => /\ TypeInv /\ HandlesOwned /\ leaked \subseteq Live /\ ShmHandles
              /\ obj \in [Objects -> ObjectType]
              /\ IsFiniteSet(OfFile) /\ Cardinality(OfFile) \in Nat
<1> SUFFICES ASSUME OwnedInv
             PROVE  /\ TypeInv /\ HandlesOwned /\ leaked \subseteq Live /\ ShmHandles
                    /\ obj \in [Objects -> ObjectType]
                    /\ IsFiniteSet(OfFile) /\ Cardinality(OfFile) \in Nat
  OBVIOUS
<1>1. /\ TypeInv /\ HandlesOwned /\ leaked \subseteq Live /\ ShmHandles
      /\ obj \in [Objects -> ObjectType]
  BY DEF OwnedInv, BackedInv, TypeInv, MappingTypeOK, ObjectType
<1>2. IsFiniteSet(OfFile)
  BY <1>1, FS_Subset DEF TypeInv, OfFile
<1>3. QED
  BY <1>1, <1>2, FS_CardinalityType

(* An object that gets a new mapping, h, and loses track of the one it had. *)
LEMMA NewHandle ==
  ASSUME OwnedInv, NEW o \in Objects, NEW h \in Addresses, h \notin Live,
         h # NULL, Live' = Live \cup {h},
         obj'[o].handle = h, \A p \in Objects : p # o => obj'[p] = obj[p],
         leaked' = leaked \cup (IF Usable(o) THEN {obj[o].handle} ELSE {})
  PROVE  /\ \A p \in Objects : Usable(p)' => obj'[p].handle \in Live' \ leaked'
         /\ \A p, q \in Objects : Usable(p)' /\ Usable(q)' /\ p # q
                                  => obj'[p].handle # obj'[q].handle
         /\ Live' \subseteq leaked' \cup {obj'[p].handle : p \in {q \in Objects : Usable(q)'}}
         /\ leaked' \subseteq Live'
<1>1. HandlesOwned /\ leaked \subseteq Live
  BY OwnedType
<1>2. /\ \A p \in Objects : Usable(p) => obj[p].handle \in Live \ leaked
      /\ \A p, q \in Objects : Usable(p) /\ Usable(q) /\ p # q
                               => obj[p].handle # obj[q].handle
      /\ \A m \in Live : m \in leaked \/ \E p \in Objects : Usable(p) /\ m = obj[p].handle
  BY <1>1 DEF HandlesOwned
<1>3. \A p \in Objects : p # o => (Usable(p)' <=> Usable(p))
  BY DEF Usable
<1>4. Usable(o)'
  BY DEF Usable
<1>5. \A p \in Objects : Usable(p)' => obj'[p].handle \in Live' \ leaked'
  BY <1>1, <1>2, <1>3, <1>4
<1>6. \A p, q \in Objects : Usable(p)' /\ Usable(q)' /\ p # q
                            => obj'[p].handle # obj'[q].handle
  BY <1>2, <1>3, <1>4
<1>7. ASSUME NEW m \in Live', m \notin leaked'
      PROVE  \E p \in Objects : Usable(p)' /\ m = obj'[p].handle
  <2>1. CASE m = h
    BY <1>4, <2>1
  <2>2. CASE m \in Live
    <3>1. PICK p \in Objects : Usable(p) /\ m = obj[p].handle
      BY <1>2, <1>7, <2>2
    <3>2. p # o
      BY <1>7, <3>1
    <3>3. QED
      BY <1>3, <3>1, <3>2
  <2>3. QED
    BY <2>1, <2>2
<1>8. leaked' \subseteq Live'
  BY <1>1, <1>2
<1>9. QED
  BY <1>5, <1>6, <1>7, <1>8

(* An object that has no mapping any more: it was lost or it was unmapped. *)
LEMMA NoHandle ==
  ASSUME OwnedInv, NEW o \in Objects,
         obj'[o].handle = NULL, \A p \in Objects : p # o => obj'[p] = obj[p],
         \/ /\ Live' = Live
            /\ leaked' = leaked \cup (IF Usable(o) THEN {obj[o].handle} ELSE {})
         \/ Usable(o) /\ Live' = Live \ {obj[o].handle} /\ leaked' = leaked
  PROVE  /\ \A p \in Objects : Usable(p)' => obj'[p].handle \in Live' \ leaked'
         /\ \A p, q \in Objects : Usable(p)' /\ Usable(q)' /\ p # q
                                  => obj'[p].handle # obj'[q].handle
         /\ Live' \subseteq leaked' \cup {obj'[p].handle : p \in {q \in Objects : Usable(q)'}}
         /\ leaked' \subseteq Live'
<1>1. HandlesOwned /\ leaked \subseteq Live
  BY OwnedType
<1>2. /\ \A p \in Objects : Usable(p) => obj[p].handle \in Live \ leaked
      /\ \A p, q \in Objects : Usable(p) /\ Usable(q) /\ p # q
                               => obj[p].handle # obj[q].handle
      /\ \A m \in Live : m \in leaked \/ \E p \in Objects : Usable(p) /\ m = obj[p].handle
  BY <1>1 DEF HandlesOwned
<1>3. \A p \in Objects : p # o => (Usable(p)' <=> Usable(p))
  BY DEF Usable
<1>4. ~Usable(o)'
  BY DEF Usable
<1>5. \A p \in Objects : Usable(p)' => obj'[p].handle \in Live' \ leaked'
  BY <1>1, <1>2, <1>3, <1>4
<1>6. \A p, q \in Objects : Usable(p)' /\ Usable(q)' /\ p # q
                            => obj'[p].handle # obj'[q].handle
  BY <1>2, <1>3, <1>4
<1>7. ASSUME NEW m \in Live', m \notin leaked'
      PROVE  \E p \in Objects : Usable(p)' /\ m = obj'[p].handle
  <2>1. PICK p \in Objects : Usable(p) /\ m = obj[p].handle
    BY <1>2, <1>7
  <2>2. p # o
    BY <1>7, <2>1
  <2>3. QED
    BY <1>3, <2>1, <2>2
<1>8. leaked' \subseteq Live'
  BY <1>1, <1>2
<1>9. QED
  BY <1>5, <1>6, <1>7, <1>8

LEMMA OwnedStep == OwnedInv /\ [MappingNext]_mappingVars => OwnedInv'
<1> SUFFICES ASSUME OwnedInv, [MappingNext]_mappingVars PROVE OwnedInv'
  OBVIOUS
<1> USE SharedMappingAssumption
<1>0. /\ TypeInv /\ HandlesOwned /\ leaked \subseteq Live /\ ShmHandles
      /\ obj \in [Objects -> ObjectType]
      /\ IsFiniteSet(OfFile) /\ Cardinality(OfFile) \in Nat
      /\ mapAllocs = Cardinality(OfFile)
  BY OwnedType DEF HandlesOwned, OfFile
<1>1. BackedInv'
  BY BackedStep DEF OwnedInv
<1> DEFINE Owned ==
             /\ \A p \in Objects : Usable(p)' => obj'[p].handle \in Live' \ leaked'
             /\ \A p, q \in Objects : Usable(p)' /\ Usable(q)' /\ p # q
                                      => obj'[p].handle # obj'[q].handle
             /\ Live' \subseteq leaked'
                                 \cup {obj'[p].handle : p \in {q \in Objects : Usable(q)'}}
             /\ leaked' \subseteq Live'
<1>2. ASSUME Owned, mapAllocs' = Cardinality(OfFile'), ShmHandles' PROVE OwnedInv'
  BY <1>1, <1>2 DEF OwnedInv, HandlesOwned, OfFile
<1>3. ASSUME \A p \in Objects : obj'[p].handle = obj[p].handle,
             UNCHANGED <<map, mapAllocs, leaked>>
      PROVE  OwnedInv'
  <2>1. Live' = Live /\ OfFile' = OfFile /\ \A p \in Objects : Usable(p)' <=> Usable(p)
    BY <1>3 DEF Live, OfFile, Usable
  <2>2. Owned
    BY <1>0, <1>3, <2>1 DEF HandlesOwned
  <2>3. ShmHandles'
    BY <1>0, <1>3, <2>1 DEF ShmHandles, Objects, File
  <2>4. QED
    BY <1>0, <1>2, <1>3, <2>1, <2>2, <2>3
<1>4. ASSUME NEW o \in ShmObjects, NEW n \in Sizes, NEW w \in BOOLEAN, ShmOpen(o, n, w)
      PROVE  OwnedInv'
  <2>1. o \in Objects
    BY DEF Objects
  <2>2. \A p \in Objects : obj'[p].handle = obj[p].handle
    BY <1>0, <1>4, <2>1 DEF ShmOpen, ObjectType
  <2>3. QED
    BY <1>3, <1>4, <2>1, <2>2 DEF ShmOpen, mappings
<1>5. ASSUME NEW o \in ShmObjects, ShmTruncate(o) PROVE OwnedInv'
  <2>1. o \in Objects
    BY DEF Objects
  <2>2. \A p \in Objects : obj'[p].handle = obj[p].handle
    BY <1>0, <1>5, <2>1 DEF ShmTruncate, ObjectType
  <2>3. QED
    BY <1>3, <1>5, <2>1, <2>2 DEF ShmTruncate, mappings
<1>6. CASE ShmUnlink
  <2>1. UNCHANGED <<map, mapAllocs, leaked, obj>>
    BY <1>6 DEF ShmUnlink, mappings
  <2>2. QED
    BY <1>3, <2>1
<1>7. ASSUME NEW o \in ShmObjects, ShmOpenFails(o) PROVE OwnedInv'
  <2>1. o \in Objects /\ Returns(o, NULL) /\ UNCHANGED <<map, mapAllocs>>
    BY <1>7 DEF ShmOpenFails, mappings, Objects
  <2>2. /\ obj'[o].handle = NULL /\ \A p \in Objects : p # o => obj'[p] = obj[p]
        /\ leaked' = leaked \cup (IF Usable(o) THEN {obj[o].handle} ELSE {})
    BY <1>0, <2>1, ReturnsOne
  <2>3. Live' = Live /\ OfFile' = OfFile
    BY <1>0, <2>1, <2>2 DEF Live, OfFile, ShmHandles, File
  <2>4. Owned
    BY <2>1, <2>2, <2>3, NoHandle
  <2>5. ShmHandles'
    BY <1>0, <2>1, <2>2 DEF ShmHandles, Objects, Usable, File
  <2>6. QED
    BY <1>0, <1>2, <2>1, <2>3, <2>4, <2>5
<1>8. ASSUME NEW o \in ShmObjects, ShmMap(o) PROVE OwnedInv'
  <2>1. o \in Objects /\ mapAllocs' = mapAllocs
    BY <1>8 DEF Objects, ShmMap
  <2>2. PICK h \in Addresses : Mapped(h, obj[o].seg, MapLength(o)) /\ Returns(o, h)
    BY <1>8 DEF ShmMap
  <2>3. h \notin Live /\ h # NULL /\ Live' = Live \cup {h}
    BY <2>2 DEF Mapped, Live
  <2>4. /\ obj'[o].handle = h /\ \A p \in Objects : p # o => obj'[p] = obj[p]
        /\ leaked' = leaked \cup (IF Usable(o) THEN {obj[o].handle} ELSE {})
    BY <1>0, <2>1, <2>2, ReturnsOne
  <2>5. Owned
    BY <2>1, <2>3, <2>4, NewHandle
  <2>6. /\ map'[h].seg = obj[o].seg /\ \A m \in Live : map'[m] = map[m]
    BY <2>2, <2>3 DEF Mapped, Live
  <2>7. obj[o].seg # File
    <3>1. obj[o] \in ObjectType
      BY <1>0, <2>1
    <3>2. obj[o].seg \in 0 .. MaxSegments
      BY <3>1 DEF ObjectType
    <3>3. QED
      BY <3>2 DEF File
  <2>8. OfFile' = OfFile
    BY <1>0, <2>3, <2>4, <2>6, <2>7 DEF OfFile, File, ShmHandles
  <2>9. ShmHandles'
    <3>1. \A p \in ShmObjects : Usable(p) => obj[p].handle \in Live
      BY <1>0 DEF HandlesOwned, Objects
    <3>2. QED
      BY <1>0, <2>4, <2>6, <2>7, <3>1 DEF ShmHandles, Objects, Usable, File
  <2>10. QED
    BY <1>0, <1>2, <2>1, <2>5, <2>8, <2>9
<1>9. ASSUME NEW o \in FileObjects, NEW n \in Sizes, FileOpen(o, n) PROVE OwnedInv'
  <2>1. o \in Objects /\ obj[o] = NewObject /\ ~Usable(o)
        /\ mapAllocs' = mapAllocs + 1 /\ leaked' = leaked
    BY <1>9, NewObjectTyped DEF Objects, FileOpen, Usable
  <2>2. PICK h \in Addresses : /\ Mapped(h, File, n)
          /\ obj' = [obj EXCEPT ![o] = [NewObject EXCEPT !.handle = h]]
    BY <1>9 DEF FileOpen
  <2>3. h \notin Live /\ h # NULL /\ Live' = Live \cup {h}
    BY <2>2 DEF Mapped, Live
  <2>4. [NewObject EXCEPT !.handle = h].handle = h
    BY DEF NewObject
  <2>5. obj'[o].handle = h /\ \A p \in Objects : p # o => obj'[p] = obj[p]
    BY <1>0, <2>1, <2>2, <2>4
  <2>6. Owned
    BY <2>1, <2>3, <2>5, NewHandle
  <2>7. map'[h].seg = File /\ \A m \in Live : map'[m] = map[m]
    BY <2>2, <2>3 DEF Mapped, Live
  <2>8. OfFile' = OfFile \cup {h} /\ h \notin OfFile
    BY <1>0, <2>1, <2>3, <2>7 DEF OfFile, File
  <2>9. Cardinality(OfFile') = Cardinality(OfFile) + 1
    BY <1>0, <2>8, FS_AddElement
  <2>10. ShmHandles'
    BY <1>0, <2>1, <2>5, <2>7 DEF ShmHandles, HandlesOwned, Objects, Usable, File
  <2>11. QED
    BY <1>0, <1>2, <2>1, <2>6, <2>9, <2>10
<1>14. ASSUME NEW o \in FileObjects, NEW n \in Sizes, FileOpenFails(o, n)
       PROVE  OwnedInv'
  <2>1. PICK h \in Addresses : Mapped(h, File, n) /\ leaked' = leaked \cup {h}
    BY <1>14 DEF FileOpenFails
  <2>2. UNCHANGED <<obj, mapAllocs>>
    BY <1>14 DEF FileOpenFails
  <2>3. h \notin Live /\ Live' = Live \cup {h} /\ \A m \in Live : map'[m] = map[m]
    BY <2>1 DEF Mapped, Live
  <2>4. \A p \in Objects : Usable(p)' <=> Usable(p)
    BY <2>2 DEF Usable
  <2>5. Owned
    BY <1>0, <2>1, <2>2, <2>3, <2>4 DEF HandlesOwned
  <2>6. OfFile' = OfFile
    BY <1>0, <2>1, <2>3 DEF OfFile, File
  <2>7. ShmHandles'
    BY <1>0, <2>2, <2>3, <2>4 DEF ShmHandles, HandlesOwned, Objects, File
  <2>8. QED
    BY <1>0, <1>2, <2>2, <2>5, <2>6, <2>7
<1>10. ASSUME NEW o \in Objects, CloseMapping(o) PROVE OwnedInv'
  <2> PICK h \in Live : h = obj[o].handle
    BY <1>0, <1>10 DEF CloseMapping, HandlesOwned
  <2>1. /\ Usable(o) /\ leaked' = leaked /\ obj' = [obj EXCEPT ![o] = NewObject]
        /\ map' = [m \in Live \ {h} |-> map[m]]
        /\ mapAllocs' = IF map[h].seg = File THEN mapAllocs - 1 ELSE mapAllocs
    BY <1>10 DEF CloseMapping
  <2>2. Live' = Live \ {h} /\ \A m \in Live' : map'[m] = map[m]
    BY <2>1 DEF Live
  <2>3. obj'[o].handle = NULL /\ \A p \in Objects : p # o => obj'[p] = obj[p]
    BY <1>0, <2>1, NewObjectTyped
  <2>4. Owned
    BY <2>1, <2>2, <2>3, NoHandle
  <2>7. h \notin leaked
    BY <1>0, <2>1 DEF HandlesOwned
  <2>8. ShmHandles'
    <3>1. ASSUME NEW p \in ShmObjects, Usable(p)' PROVE map'[obj'[p].handle].seg # File
      <4>1. p # o /\ p \in Objects /\ obj'[p] = obj[p] /\ Usable(p)
        BY <2>3, <3>1 DEF Usable, Objects
      <4>2. obj[p].handle \in Live'
        BY <1>0, <2>1, <2>2, <4>1 DEF HandlesOwned
      <4>3. QED
        BY <1>0, <2>2, <4>1, <4>2 DEF ShmHandles
    <3>2. QED
      BY <3>1 DEF ShmHandles, File
  <2>5. mapAllocs' = Cardinality(OfFile')
    <3>1. CASE map[h].seg = File
      <4>1. OfFile' = OfFile \ {h} /\ h \in OfFile
        BY <1>0, <2>1, <2>2, <2>7, <3>1 DEF OfFile, File
      <4>2. Cardinality(OfFile') = Cardinality(OfFile) - 1
        BY <1>0, <4>1, FS_RemoveElement
      <4>3. QED
        BY <1>0, <2>1, <3>1, <4>2
    <3>2. CASE map[h].seg # File
      <4>1. OfFile' = OfFile
        BY <2>1, <2>2, <3>2 DEF OfFile, File
      <4>2. QED
        BY <1>0, <2>1, <3>2, <4>1
    <3>3. QED
      BY <3>1, <3>2
  <2>6. QED
    BY <1>2, <2>4, <2>5, <2>8
<1>11. CASE UNCHANGED mappingVars
  <2>1. UNCHANGED <<map, mapAllocs, leaked, obj>>
    BY <1>11 DEF mappingVars, mappings
  <2>2. QED
    BY <1>3, <2>1
<1>12. QED
  BY <1>4, <1>5, <1>6, <1>7, <1>8, <1>9, <1>10, <1>11, <1>14 DEF MappingNext

(* close, by the client or by the finalizer, unmaps what this object mapped and
   nobody else uses, and the counter counts every MemoryMap once. *)
THEOREM MappingsOwned == MappingSpec => []HandlesOwned
<1>1. OwnedInv => HandlesOwned
  BY DEF OwnedInv
<1>2. QED
  BY OwnedInit, OwnedStep, <1>1, PTL DEF MappingSpec

-----------------------------------------------------------------------------
(***************************************************************************)
(* The range that is copied.                                               *)
(***************************************************************************)
(* A sum that fits in an int is not changed by its wrap-around. *)
LEMMA AsIntFits ==
  ASSUME NEW n \in -MaxInt .. MaxInt
  PROVE  AsInt(n) = n
<1> DEFINE a == n + MaxInt + 1
           b == 2 * MaxInt + 2
<1>1. a \in Nat /\ b \in Nat /\ a < b /\ b > 0
  BY SharedMappingAssumption
<1> HIDE DEF a, b
<1>2. a % b = a
  BY <1>1
<1>3. AsInt(n) = a - MaxInt - 1
  BY <1>2 DEF AsInt, a, b
<1>4. QED
  BY <1>3, SharedMappingAssumption DEF a

(* A sum of two ints that is too large comes out negative. *)
LEMMA AsIntWraps ==
  ASSUME NEW n \in MaxInt + 1 .. 2 * MaxInt
  PROVE  AsInt(n) \in -MaxInt - 1 .. -1
<1> DEFINE a == n + MaxInt + 1
           b == 2 * MaxInt + 2
<1>1. a \in Nat /\ b \in Nat /\ b > 0 /\ b <= a /\ a < b + b
  BY SharedMappingAssumption
<1> HIDE DEF a, b
<1>2. a % b = a - b
  <2>1. (a - b) % b = a - b
    BY <1>1
  <2>2. QED
    BY <1>1, <2>1
<1>3. AsInt(n) = a - b - MaxInt - 1
  BY <1>2 DEF AsInt, a, b
<1>4. QED
  BY <1>3, SharedMappingAssumption DEF a, b

(* read and write of SharedMemory and MemoryMap copy what was asked for and the
   mapping has, and leave the mapping exactly when a range that is not empty
   starts before it or its end is no int. *)
THEOREM MappingsCopied == MappingSpec => []CopiesInsideMapping
<1>1. BackedInv => CopiesInsideMapping
  <2> SUFFICES ASSUME BackedInv, NEW m \in Live, NEW offset \in -MaxInt - 1 .. MaxInt,
                      NEW len \in 0 .. MaxInt
               PROVE  IF len = 0 \/ (offset >= 0 /\ offset + len <= MaxInt)
                      THEN Copied(m, offset, len)
                             = (offset .. offset + len - 1) \cap (0 .. map[m].len - 1)
                      ELSE ~ (Copied(m, offset, len) \subseteq 0 .. map[m].len - 1)
    BY DEF CopiesInsideMapping
  <2> USE SharedMappingAssumption
  <2>1. PICK k \in 1 .. MaxInt : k = map[m].len
    BY DEF BackedInv, TypeInv, MappingTypeOK
  <2>2. PICK n \in Int : /\ Copied(m, offset, len) = offset .. offset + n - 1
                         /\ n = IF AsInt(offset + len) > k THEN AsInt(k - offset) ELSE len
    <3>1. \A i \in Int : AsInt(i) \in Int
      BY DEF AsInt
    <3>2. PICK n \in Int : n = IF AsInt(offset + len) > k THEN AsInt(k - offset) ELSE len
      BY <3>1
    <3>3. Copied(m, offset, len) = offset .. offset + n - 1
      BY <2>1, <3>2 DEF Copied
    <3>4. QED
      BY <3>2, <3>3
  <2>3. CASE offset + len > MaxInt
    <3>1. AsInt(offset + len) \in -MaxInt - 1 .. -1
      <4>1. offset + len \in MaxInt + 1 .. 2 * MaxInt
        BY <2>3
      <4>2. QED
        BY <4>1, AsIntWraps
    <3>2. n = len /\ len > 0 /\ offset + len - 1 >= k
      BY <2>2, <2>3, <3>1
    <3>3. offset + len - 1 \in Copied(m, offset, len)
      BY <2>2, <3>2
    <3>4. offset + len - 1 \notin 0 .. k - 1
      BY <3>2
    <3>5. QED
      BY <2>1, <2>3, <3>2, <3>3, <3>4
  <2>4. CASE offset + len <= MaxInt /\ offset + len >= -MaxInt
    <3>1. AsInt(offset + len) = offset + len
      BY <2>4, AsIntFits
    <3>2. CASE offset + len > k
      <4>1. k - offset \in -MaxInt .. MaxInt
        BY <3>2
      <4>2. n = k - offset
        BY <2>2, <3>1, <3>2, <4>1, AsIntFits
      <4>3. CASE offset >= 0
        <5>1. offset + n - 1 = k - 1
          BY <4>2
        <5>2. offset .. k - 1 = (offset .. offset + len - 1) \cap (0 .. k - 1)
          BY <3>2, <4>3
        <5>3. Copied(m, offset, len) = offset .. k - 1
          BY <2>2, <5>1
        <5>4. QED
          BY <2>1, <2>4, <4>3, <5>2, <5>3
      <4>4. CASE offset < 0
        <5>1. offset \in Copied(m, offset, len) /\ offset \notin 0 .. k - 1 /\ len # 0
          BY <2>2, <3>2, <4>2, <4>4
        <5>2. QED
          BY <2>1, <4>4, <5>1
      <4>5. QED
        BY <4>3, <4>4
    <3>3. CASE offset + len <= k
      <4>1. n = len
        BY <2>2, <3>1, <3>3
      <4>2. CASE offset >= 0 \/ len = 0
        BY <2>1, <2>2, <2>4, <3>3, <4>1, <4>2
      <4>3. CASE offset < 0 /\ len # 0
        <5>1. offset \in Copied(m, offset, len) /\ offset \notin 0 .. k - 1
          BY <2>2, <4>1, <4>3
        <5>2. QED
          BY <2>1, <4>3, <5>1
      <4>4. QED
        BY <4>2, <4>3
    <3>4. QED
      BY <3>2, <3>3
  <2>5. CASE offset + len < -MaxInt
    <3>1. offset = -MaxInt - 1 /\ len = 0
      BY <2>5
    <3>2. AsInt(offset + len) = -MaxInt - 1
      <4>1. offset + len + MaxInt + 1 = 0
        BY <3>1
      <4>2. 0 % (2 * MaxInt + 2) = 0
        OBVIOUS
      <4>3. QED
        BY <3>1, <4>1, <4>2 DEF AsInt
    <3>3. n = len
      BY <2>2, <3>1, <3>2
    <3>4. QED
      BY <2>1, <2>2, <3>1, <3>3
  <2>6. QED
    BY <2>3, <2>4, <2>5
<1>2. MappingInit => BackedInv
  BY TypeInvInit DEF BackedInv
<1>3. QED
  BY <1>1, <1>2, BackedStep, PTL DEF MappingSpec

-----------------------------------------------------------------------------
(***************************************************************************)
(* Semaphores and file locks.                                              *)
(***************************************************************************)

(***************************************************************************)
(* File locks.                                                             *)
(***************************************************************************)
(* What the kernel has locked is what the object stands for and can unlock; in
   a process in which open returns descriptor 0, lock answers null and keeps
   the lock. *)
LockedByObject ==
  \A p \in Processes : lock[p] = IF p \in WithoutStdin THEN "no" ELSE flocked[p]

(* The locks the kernel grants at the same time are compatible. *)
FlocksCompatible ==
  \A p, q \in Processes : p # q /\ flocked[p] = "ex" => flocked[q] = "no"

FileLocksInv ==
  /\ flocked \in [Processes -> {"no", "sh", "ex"}]
  /\ lock \in [Processes -> {"no", "sh", "ex"}]
  /\ LockedByObject /\ FlocksCompatible

LEMMA FileLocksInit == LocksInit => FileLocksInv
  BY DEF LocksInit, FileLocksInv, LockedByObject, FlocksCompatible

LEMMA FileLocksStep == FileLocksInv /\ [LocksNext]_lockVars => FileLocksInv'
<1> SUFFICES ASSUME FileLocksInv, [LocksNext]_lockVars PROVE FileLocksInv'
  OBVIOUS
<1> USE DEF FileLocksInv, LockedByObject, FlocksCompatible
<1>1. ASSUME UNCHANGED <<flocked, lock>> PROVE FileLocksInv'
  BY <1>1
<1>2. ASSUME NEW p \in Processes, Semaphore(p) PROVE UNCHANGED <<flocked, lock>>
  BY <1>2 DEF Semaphore, SemOpen, StartWait, Acquire, Interrupted, SemPost, SemClose,
              SemUnlink
<1>3. ASSUME NEW p \in Processes, NEW mode \in {"sh", "ex"}, GetLock(p, mode)
      PROVE  FileLocksInv'
  <2>1. /\ flocked[p] = "no" /\ Compatible(p, mode)
        /\ flocked' = [flocked EXCEPT ![p] = mode]
        /\ lock' = [lock EXCEPT ![p] = IF p \in WithoutStdin THEN "no" ELSE mode]
    BY <1>3 DEF GetLock
  <2>2. FlocksCompatible'
    BY <2>1 DEF Compatible
  <2>3. QED
    BY <2>1, <2>2
<1>4. ASSUME NEW p \in Processes,
             \/ \E mode \in {"sh", "ex"} : StartLock(p, mode)
             \/ LockInterrupted(p)
      PROVE  UNCHANGED <<flocked, lock>>
  BY <1>4 DEF StartLock, LockInterrupted
<1>5. ASSUME NEW p \in Processes, Unlock(p) \/ Die(p) PROVE FileLocksInv'
  <2>1. /\ flocked' = [flocked EXCEPT ![p] = "no"]
        /\ lock' = [lock EXCEPT ![p] = "no"]
    BY <1>5 DEF Unlock, Die
  <2>2. QED
    BY <2>1
<1>6. CASE UNCHANGED lockVars
  BY <1>1, <1>6 DEF lockVars
<1>7. QED
  BY <1>1, <1>2, <1>3, <1>4, <1>5, <1>6 DEF LocksNext, Locking

(* Who was given an exclusive FileLock is alone until it unlocks or dies. *)
THEOREM LocksExclude == LocksSpec => []FileLocksExclude
<1>1. FileLocksInv => FileLocksExclude
  BY DEF FileLocksInv, LockedByObject, FlocksCompatible, FileLocksExclude
<1>2. QED
  BY FileLocksInit, FileLocksStep, <1>1, PTL DEF LocksSpec

-----------------------------------------------------------------------------
(***************************************************************************)
(* Semaphores.                                                             *)
(***************************************************************************)
Conserved(s) == count[s] + Cardinality(Holders(s)) + lost[s] = InitialValue

PermitsInv == SemTypeOK /\ \A s \in DOMAIN count : Conserved(s)

LEMMA PermitsInit == LocksInit => PermitsInv
<1> SUFFICES ASSUME LocksInit PROVE PermitsInv
  OBVIOUS
<1>1. count = <<>> /\ lost = <<>> /\ DOMAIN count = {} /\ DOMAIN lost = {}
  BY DEF LocksInit
<1>2. DOMAIN count = 1 .. 0 /\ 0 \in 0 .. MaxSemaphores
  BY <1>1, NamedLocksAssumption
<1>3. count \in [DOMAIN count -> Nat] /\ lost \in [DOMAIN count -> Nat]
  BY <1>1
<1>4. QED
  BY <1>1, <1>2, <1>3 DEF LocksInit, PermitsInv, SemTypeOK

LEMMA HoldersFinite == \A s : IsFiniteSet(Holders(s)) /\ Cardinality(Holders(s)) \in Nat
<1> SUFFICES ASSUME NEW s
             PROVE  IsFiniteSet(Holders(s)) /\ Cardinality(Holders(s)) \in Nat
  OBVIOUS
<1>1. IsFiniteSet(Holders(s))
  BY NamedLocksAssumption, FS_Subset DEF Holders
<1>2. QED
  BY <1>1, FS_CardinalityType

(* A process that takes a permit, and one that gives it up. *)
LEMMA OneMore ==
  ASSUME SemTypeOK, NEW p \in Processes, NEW s \in DOMAIN count,
         held[p] = 0, held' = [held EXCEPT ![p] = s]
  PROVE  /\ Cardinality(Holders(s)') = Cardinality(Holders(s)) + 1
         /\ \A r \in DOMAIN count : r # s => Holders(r)' = Holders(r)
<1>1. 0 \notin DOMAIN count
  BY DEF SemTypeOK
<1>2. Holders(s)' = Holders(s) \cup {p} /\ p \notin Holders(s)
  BY <1>1 DEF Holders, SemTypeOK
<1>3. \A r \in DOMAIN count : r # s => Holders(r)' = Holders(r)
  BY <1>1 DEF Holders, SemTypeOK
<1>4. QED
  BY <1>2, <1>3, HoldersFinite, FS_AddElement

LEMMA OneLess ==
  ASSUME SemTypeOK, NEW p \in Processes, NEW s \in DOMAIN count,
         held[p] = s, held' = [held EXCEPT ![p] = 0]
  PROVE  /\ Cardinality(Holders(s)') = Cardinality(Holders(s)) - 1
         /\ \A r \in DOMAIN count : r # s => Holders(r)' = Holders(r)
<1>1. 0 \notin DOMAIN count
  BY DEF SemTypeOK
<1>2. Holders(s)' = Holders(s) \ {p} /\ p \in Holders(s)
  BY <1>1 DEF Holders, SemTypeOK
<1>3. \A r \in DOMAIN count : r # s => Holders(r)' = Holders(r)
  BY <1>1 DEF Holders, SemTypeOK
<1>4. QED
  BY <1>2, <1>3, HoldersFinite, FS_RemoveElement

(* The semaphores stay the same, and each step moves permits of one of them. *)
LEMMA SameSemaphores ==
  ASSUME SemTypeOK, UNCHANGED named, sem' \in [Processes -> {0} \cup DOMAIN count],
         held' \in [Processes -> {0} \cup DOMAIN count],
         count' \in [DOMAIN count -> Nat], lost' \in [DOMAIN count -> Nat]
  PROVE  SemTypeOK'
<1>1. DOMAIN count' = DOMAIN count
  OBVIOUS
<1>2. QED
  BY <1>1 DEF SemTypeOK

LEMMA IntervalCount == \A n \in Nat : Cardinality(1 .. n) = n
<1> SUFFICES ASSUME NEW n \in Nat PROVE Cardinality(1 .. n) = n
  OBVIOUS
<1>1. Cardinality(1 .. n) = IF 1 > n THEN 0 ELSE n - 1 + 1
  BY FS_Interval
<1>2. QED
  BY <1>1

LEMMA PermitsStep == PermitsInv /\ [LocksNext]_lockVars => PermitsInv'
<1> SUFFICES ASSUME PermitsInv, [LocksNext]_lockVars PROVE PermitsInv'
  OBVIOUS
<1> USE NamedLocksAssumption
<1>0. SemTypeOK /\ \A s \in DOMAIN count : Conserved(s)
  BY DEF PermitsInv
<1>1. \A s \in DOMAIN count : s # 0 /\ count[s] \in Nat /\ lost[s] \in Nat
  BY <1>0 DEF SemTypeOK
<1>2. \A s : Cardinality(Holders(s)) \in Nat
  BY HoldersFinite
<1>3. ASSUME UNCHANGED <<count, lost, held, named>>,
             sem' \in [Processes -> {0} \cup DOMAIN count]
      PROVE  PermitsInv'
  BY <1>0, <1>3 DEF PermitsInv, SemTypeOK, Conserved, Holders
<1>4. ASSUME NEW p \in Processes, SemOpen(p) PROVE PermitsInv'
  <2>1. CASE named # 0
    <3>1. UNCHANGED <<count, lost, held, named>> /\ sem' = [sem EXCEPT ![p] = named]
      BY <1>4, <2>1 DEF SemOpen
    <3>2. sem' \in [Processes -> {0} \cup DOMAIN count]
      BY <1>0, <3>1 DEF SemTypeOK
    <3>3. QED
      BY <1>3, <3>1, <3>2
  <2>2. CASE named = 0
    <3>1. PICK n \in 0 .. MaxSemaphores : DOMAIN count = 1 .. n
      BY <1>0 DEF SemTypeOK
    <3> DEFINE s == Cardinality(DOMAIN count) + 1
    <3>2. s = n + 1
      BY <3>1, IntervalCount
    <3>3. /\ s \in Sems /\ named' = s /\ held' = held
          /\ count' = [t \in 1 .. s |-> IF t = s THEN InitialValue ELSE count[t]]
          /\ lost' = [t \in 1 .. s |-> IF t = s THEN 0 ELSE lost[t]]
          /\ sem' = [sem EXCEPT ![p] = s]
      BY <1>4, <2>2 DEF SemOpen
    <3> HIDE DEF s
    <3>4. DOMAIN count' = 1 .. n + 1 /\ n + 1 \in 0 .. MaxSemaphores
      BY <3>2, <3>3 DEF Sems
    <3>5. SemTypeOK'
      <4>1. count' \in [DOMAIN count' -> Nat] /\ lost' \in [DOMAIN count' -> Nat]
        BY <1>1, <3>1, <3>2, <3>3, <3>4
      <4>2. DOMAIN count \subseteq DOMAIN count' /\ s \in DOMAIN count'
        BY <3>1, <3>2, <3>4
      <4>3. sem' \in [Processes -> {0} \cup DOMAIN count']
        BY <1>0, <3>3, <4>2 DEF SemTypeOK
      <4>4. held' \in [Processes -> {0} \cup DOMAIN count']
        BY <1>0, <3>3, <4>2 DEF SemTypeOK
      <4>5. QED
        BY <3>3, <3>4, <4>1, <4>2, <4>3, <4>4 DEF SemTypeOK
    <3>6. \A r : Holders(r)' = Holders(r)
      BY <3>3 DEF Holders
    <3>7. ASSUME NEW r \in DOMAIN count' PROVE Conserved(r)'
      <4>1. CASE r = s
        <5>1. Holders(s) = {}
          BY <1>0, <3>1, <3>2 DEF Holders, SemTypeOK
        <5>2. Cardinality(Holders(s)) = 0
          BY <5>1, FS_EmptySet
        <5>3. count'[s] = InitialValue /\ lost'[s] = 0
          BY <3>2, <3>3
        <5>4. QED
          BY <3>6, <4>1, <5>2, <5>3 DEF Conserved
      <4>2. CASE r # s
        <5>1. r \in DOMAIN count /\ count'[r] = count[r] /\ lost'[r] = lost[r]
          BY <3>1, <3>2, <3>3, <3>4, <4>2
        <5>2. QED
          BY <1>0, <3>6, <5>1 DEF Conserved
      <4>3. QED
        BY <4>1, <4>2
    <3>8. QED
      BY <3>5, <3>7 DEF PermitsInv
  <2>3. QED
    BY <2>1, <2>2
<1>5. ASSUME NEW p \in Processes, Acquire(p) PROVE PermitsInv'
  <2> PICK s \in DOMAIN count : s = sem[p]
    BY <1>0, <1>5 DEF Acquire, SemTypeOK
  <2>1. count[s] > 0 /\ held[p] = 0
    BY <1>5 DEF Acquire
  <2>2. /\ count' = [count EXCEPT ![s] = @ - 1] /\ held' = [held EXCEPT ![p] = s]
        /\ UNCHANGED <<named, sem, lost>>
    BY <1>5 DEF Acquire
  <2>3. SemTypeOK'
    <3>1. count' \in [DOMAIN count -> Nat] /\ count'[s] = count[s] - 1
      BY <1>0, <1>1, <2>1, <2>2 DEF SemTypeOK
    <3>2. held' \in [Processes -> {0} \cup DOMAIN count]
      BY <1>0, <2>1, <2>2 DEF SemTypeOK
    <3>3. QED
      BY <1>0, <2>2, <3>1, <3>2, SameSemaphores DEF SemTypeOK
  <2>4. ASSUME NEW r \in DOMAIN count PROVE Conserved(r)'
    <3>1. /\ Cardinality(Holders(s)') = Cardinality(Holders(s)) + 1
          /\ \A q \in DOMAIN count : q # s => Holders(q)' = Holders(q)
      BY <1>0, <2>1, <2>2, OneMore
    <3>2. CASE r = s
      <4>1. count'[s] = count[s] - 1 /\ lost' = lost
        BY <1>0, <2>1, <2>2 DEF SemTypeOK
      <4>2. QED
        BY <1>0, <1>1, <1>2, <2>1, <3>1, <3>2, <4>1 DEF Conserved
    <3>3. CASE r # s
      <4>1. count'[r] = count[r] /\ lost' = lost
        BY <1>0, <2>1, <2>2, <3>3 DEF SemTypeOK
      <4>2. QED
        BY <1>0, <3>1, <3>3, <4>1 DEF Conserved
    <3>4. QED
      BY <3>2, <3>3
  <2>5. QED
    BY <1>0, <2>2, <2>3, <2>4 DEF PermitsInv
<1>6. ASSUME NEW p \in Processes, SemPost(p) PROVE PermitsInv'
  <2> PICK s \in DOMAIN count : s = sem[p]
    BY <1>0, <1>6 DEF SemPost, SemTypeOK
  <2>1. held[p] = s
    BY <1>6 DEF SemPost
  <2>2. /\ count' = [count EXCEPT ![s] = @ + 1] /\ held' = [held EXCEPT ![p] = 0]
        /\ UNCHANGED <<named, sem, lost>>
    BY <1>6 DEF SemPost
  <2>3. SemTypeOK'
    <3>1. count' \in [DOMAIN count -> Nat] /\ count'[s] = count[s] + 1
      BY <1>0, <1>1, <2>1, <2>2 DEF SemTypeOK
    <3>2. held' \in [Processes -> {0} \cup DOMAIN count]
      BY <1>0, <2>1, <2>2 DEF SemTypeOK
    <3>3. QED
      BY <1>0, <2>2, <3>1, <3>2, SameSemaphores DEF SemTypeOK
  <2>4. ASSUME NEW r \in DOMAIN count PROVE Conserved(r)'
    <3>1. /\ Cardinality(Holders(s)') = Cardinality(Holders(s)) - 1
          /\ \A q \in DOMAIN count : q # s => Holders(q)' = Holders(q)
      BY <1>0, <2>1, <2>2, OneLess
    <3>2. CASE r = s
      <4>1. count'[s] = count[s] + 1 /\ lost' = lost
        BY <1>0, <2>1, <2>2 DEF SemTypeOK
      <4>2. QED
        BY <1>0, <1>1, <1>2, <2>1, <3>1, <3>2, <4>1 DEF Conserved
    <3>3. CASE r # s
      <4>1. count'[r] = count[r] /\ lost' = lost
        BY <1>0, <2>1, <2>2, <3>3 DEF SemTypeOK
      <4>2. QED
        BY <1>0, <3>1, <3>3, <4>1 DEF Conserved
    <3>4. QED
      BY <3>2, <3>3
  <2>5. QED
    BY <1>0, <2>2, <2>3, <2>4 DEF PermitsInv
<1>7. ASSUME NEW p \in Processes, Die(p) PROVE PermitsInv'
  <2> PICK s \in {0} \cup DOMAIN count : s = held[p]
    BY <1>0 DEF SemTypeOK
  <2>1. /\ lost' = [r \in DOMAIN lost |-> IF r = s THEN lost[r] + 1 ELSE lost[r]]
        /\ held' = [held EXCEPT ![p] = 0] /\ sem' = [sem EXCEPT ![p] = 0]
        /\ UNCHANGED <<count, named>>
    BY <1>7 DEF Die
  <2>3. DOMAIN lost = DOMAIN count /\ lost' \in [DOMAIN count -> Nat]
    BY <1>0, <1>1, <2>1 DEF SemTypeOK
  <2>4. SemTypeOK'
    BY <1>0, <2>1, <2>3, SameSemaphores DEF SemTypeOK
  <2>5. ASSUME NEW r \in DOMAIN count PROVE Conserved(r)'
    <3>1. CASE s = 0
      <4>1. held' = held /\ lost' = lost
        BY <1>0, <1>1, <2>1, <2>3, <3>1 DEF SemTypeOK
      <4>2. QED
        BY <1>0, <2>1, <4>1 DEF Conserved, Holders
    <3>2. CASE s \in DOMAIN count
      <4>1. /\ Cardinality(Holders(s)') = Cardinality(Holders(s)) - 1
            /\ \A q \in DOMAIN count : q # s => Holders(q)' = Holders(q)
        BY <1>0, <2>1, <3>2, OneLess
      <4>2. CASE r = s
        <5>1. count' = count /\ lost'[s] = lost[s] + 1
          BY <2>1, <2>3, <3>2
        <5>2. QED
          BY <1>0, <1>1, <1>2, <3>2, <4>1, <4>2, <5>1 DEF Conserved
      <4>3. CASE r # s
        <5>1. count' = count /\ lost'[r] = lost[r]
          BY <2>1, <2>3, <4>3
        <5>2. QED
          BY <1>0, <4>1, <4>3, <5>1 DEF Conserved
      <4>4. QED
        BY <4>2, <4>3
    <3>3. QED
      BY <3>1, <3>2
  <2>6. QED
    BY <1>0, <2>1, <2>4, <2>5 DEF PermitsInv
<1>8. ASSUME NEW p \in Processes, StartWait(p) \/ Interrupted(p) \/ Locking(p)
      PROVE  PermitsInv'
  <2>1. UNCHANGED <<count, lost, held, named>> /\ sem' = sem
    BY <1>8 DEF StartWait, Interrupted, Locking, StartLock, GetLock, LockInterrupted,
                Unlock, semaphores
  <2>2. QED
    BY <1>0, <1>3, <2>1 DEF SemTypeOK
<1>9. ASSUME NEW p \in Processes, SemClose(p) PROVE PermitsInv'
  <2>1. UNCHANGED <<count, lost, held, named>> /\ sem' = [sem EXCEPT ![p] = 0]
    BY <1>9 DEF SemClose
  <2>2. sem' \in [Processes -> {0} \cup DOMAIN count]
    BY <1>0, <2>1 DEF SemTypeOK
  <2>3. QED
    BY <1>3, <2>1, <2>2
<1>10. ASSUME NEW p \in Processes, SemUnlink(p) PROVE PermitsInv'
  <2>1. UNCHANGED <<count, lost, held, sem>> /\ named' = 0
    BY <1>10 DEF SemUnlink
  <2>2. QED
    BY <1>0, <2>1 DEF PermitsInv, SemTypeOK, Conserved, Holders
<1>11. CASE UNCHANGED lockVars
  <2>1. UNCHANGED <<count, lost, held, named>> /\ sem' = sem
    BY <1>11 DEF lockVars, semaphores
  <2>2. QED
    BY <1>0, <1>3, <2>1 DEF SemTypeOK
<1>12. QED
  BY <1>4, <1>5, <1>6, <1>7, <1>8, <1>9, <1>10, <1>11 DEF LocksNext, Semaphore

(* As long as one semaphore was made under the name, who holds a permit holds
   one of that semaphore. *)
LEMMA AtMostInitialValue == PermitsInv => PermitsConserved
<1> SUFFICES ASSUME PermitsInv PROVE PermitsConserved
  OBVIOUS
<1>1. SemTypeOK /\ \A s \in DOMAIN count : Conserved(s)
  BY DEF PermitsInv
<1>2. ASSUME Cardinality(DOMAIN count) = 1
      PROVE  Cardinality(UNION {Holders(s) : s \in Sems}) <= InitialValue
  <2>1. PICK n \in 0 .. MaxSemaphores : DOMAIN count = 1 .. n
    BY <1>1 DEF SemTypeOK
  <2>2. n = 1
    BY <1>2, <2>1, IntervalCount, NamedLocksAssumption
  <2>3. DOMAIN count = {1} /\ 1 \in Sems
    BY <2>1, <2>2, NamedLocksAssumption DEF Sems
  <2>4. \A s \in Sems : s # 1 => Holders(s) = {}
    <3>1. \A p \in Processes : held[p] \in {0, 1}
      BY <1>1, <2>3 DEF SemTypeOK
    <3>2. QED
      BY <3>1, NamedLocksAssumption DEF Holders, Sems
  <2>5. UNION {Holders(s) : s \in Sems} = Holders(1)
    BY <2>3, <2>4
  <2>6. count[1] + Cardinality(Holders(1)) + lost[1] = InitialValue
    BY <1>1, <2>3 DEF Conserved
  <2>7. count[1] \in Nat /\ lost[1] \in Nat /\ Cardinality(Holders(1)) \in Nat
    BY <1>1, <2>3, HoldersFinite DEF SemTypeOK
  <2>8. QED
    <3>1. Cardinality(Holders(1)) <= InitialValue
      BY <2>6, <2>7, NamedLocksAssumption
    <3>2. QED
      BY <2>5, <3>1
<1>3. QED
  BY <1>1, <1>2 DEF PermitsConserved, Conserved

(* Permits are only lost with a process that dies: sem_wait that a signal ends,
   close, unlink and the order of the opens make and lose none. *)
THEOREM LocksPermits == LocksSpec => []PermitsConserved
  BY PermitsInit, PermitsStep, AtMostInitialValue, PTL DEF LocksSpec

-----------------------------------------------------------------------------
Pcs == [Processes -> {"idle", "wait", "sh", "ex", "dead"}]

LEMMA PcTyped ==
  /\ LocksInit => procPc \in Pcs
  /\ procPc \in Pcs /\ [LocksNext]_lockVars => (procPc \in Pcs)'
<1> USE DEF Pcs
<1>1. LocksInit => procPc \in Pcs
  BY DEF LocksInit
<1>2. ASSUME procPc \in Pcs, [LocksNext]_lockVars PROVE procPc' \in Pcs
  <2>1. CASE UNCHANGED lockVars
    BY <1>2, <2>1 DEF lockVars
  <2>2. ASSUME NEW p \in Processes, Semaphore(p) \/ Locking(p) \/ Die(p)
        PROVE  procPc' \in Pcs
    BY <1>2, <2>2
       DEF Semaphore, SemOpen, StartWait, Acquire, Interrupted, SemPost, SemClose,
           SemUnlink, Locking, StartLock, GetLock, LockInterrupted, Unlock, Die
  <2>3. QED
    BY <1>2, <2>1, <2>2 DEF LocksNext
<1>3. QED
  BY <1>1, <1>2

(* The type invariant. *)
THEOREM LocksTyped == LocksSpec => []NamedLocksTypeOK
<1>1. PermitsInv /\ FileLocksInv /\ procPc \in Pcs => NamedLocksTypeOK
  BY DEF Pcs, PermitsInv, FileLocksInv, NamedLocksTypeOK
<1>2. QED
  BY PermitsInit, PermitsStep, FileLocksInit, FileLocksStep, PcTyped, <1>1, PTL
     DEF LocksSpec

=============================================================================
