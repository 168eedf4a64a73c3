----------------------------- MODULE FileProofs ------------------------------
(***************************************************************************)
(* Theorems about AsyncFiles, for any number of descriptors, files,        *)
(* buffers and requests: the buffer of a read outlives it, and a request   *)
(* keeps its file; and about Watcher, for any number of sessions,          *)
(* directories, names and changes: a watch misses no directory, and the    *)
(* paths it reports are true, while none is renamed.                       *)
(***************************************************************************)
EXTENDS AsyncFiles, Watcher, FunctionTheorems, FiniteSetTheorems, SequenceTheorems, TLAPS

-----------------------------------------------------------------------------
(***************************************************************************)
(* Asynchronous files.                                                     *)
(***************************************************************************)

(***************************************************************************)
(* A sequence that gets one more element, or another one in a place.       *)
(***************************************************************************)
LEMMA Appended ==
  ASSUME NEW S, NEW s \in Seq(S), NEW x \in S,
         NEW t, t = Append(s, x), NEW n, n = Len(s) + 1
  PROVE  /\ t \in Seq(S) /\ t[n] = x
         /\ n \in Nat \ {0} /\ n \notin DOMAIN s /\ DOMAIN t = DOMAIN s \cup {n}
         /\ \A i \in DOMAIN s : t[i] = s[i]
<1>1. /\ t \in Seq(S) /\ Len(t) = Len(s) + 1 /\ t[Len(s) + 1] = x
      /\ \A i \in 1 .. Len(s) : t[i] = s[i]
  BY AppendProperties
<1>2. Len(s) \in Nat /\ DOMAIN s = 1 .. Len(s) /\ DOMAIN t = 1 .. Len(t)
  BY <1>1, LenProperties
<1>3. n \notin 1 .. Len(s) /\ 1 .. n = (1 .. Len(s)) \cup {n}
  BY <1>2
<1>4. QED
  BY <1>1, <1>2, <1>3

LEMMA Replaced ==
  ASSUME NEW S, NEW s \in Seq(S), NEW i \in DOMAIN s, NEW x \in S,
         NEW t, t = [s EXCEPT ![i] = x]
  PROVE  /\ t \in Seq(S) /\ DOMAIN t = DOMAIN s /\ t[i] = x
         /\ \A j \in DOMAIN s \ {i} : t[j] = s[j]
<1>1. DOMAIN s = 1 .. Len(s)
  BY LenProperties
<1>2. t \in Seq(S) /\ \A j \in 1 .. Len(s) : t[j] = IF j = i THEN x ELSE s[j]
  BY <1>1, ExceptSeq
<1>3. DOMAIN t = DOMAIN s
  OBVIOUS
<1>4. QED
  BY <1>1, <1>2, <1>3

LEMMA ElementsOf ==
  ASSUME NEW S, NEW s \in Seq(S)
  PROVE  /\ DOMAIN s \subseteq Nat \ {0} /\ DOMAIN s = 1 .. Len(s) /\ Len(s) \in Nat
         /\ \A i \in DOMAIN s : s[i] \in S
BY LenProperties, ElementOfSeq

-----------------------------------------------------------------------------
(***************************************************************************)
(* The descriptors.                                                        *)
(***************************************************************************)
(* The number in the handle of an AsyncFile that was not closed is open on its
   own open(), or on nothing at all.  The standard input stays open, so that no
   open() gets the 0 that is the null handle. *)
DescriptorsSound ==
  /\ fileHandle \in Seq(Fds \cup {Refused})
  /\ openOn \in [Fds -> Nat] /\ openOn[0] # NoFile
  /\ \A n \in DOMAIN fileHandle :
       IF fileHandle[n] = Closed THEN n \in wasClosed
       ELSE fileHandle[n] \in Fds => openOn[fileHandle[n]] = n

LEMMA DescriptorsSoundInit == AsyncFilesInit => DescriptorsSound
<1> SUFFICES ASSUME AsyncFilesInit PROVE DescriptorsSound
  OBVIOUS
<1>1. fileHandle \in Seq(Fds \cup {Refused}) /\ DOMAIN fileHandle = {}
  BY EmptySeq DEF AsyncFilesInit
<1>2. Stdin \in Nat \ {0}
  BY AsyncFilesAssumption DEF Stdin
<1>3. QED
  BY <1>1, <1>2, AsyncFilesAssumption DEF AsyncFilesInit, DescriptorsSound, NoFile

LEMMA DescriptorsSoundStep ==
  DescriptorsSound /\ [AsyncFilesNext]_asyncFilesVars => DescriptorsSound'
<1> SUFFICES ASSUME DescriptorsSound, [AsyncFilesNext]_asyncFilesVars
             PROVE  DescriptorsSound'
  OBVIOUS
<1>0. /\ DOMAIN fileHandle \subseteq Nat \ {0}
      /\ \A n \in DOMAIN fileHandle : fileHandle[n] \in Fds \cup {Refused}
      /\ 0 \in Fds /\ Fds \subseteq Nat /\ Refused \notin Fds /\ Refused # 0
  BY ElementsOf, AsyncFilesAssumption DEF DescriptorsSound, Refused
<1>1. CASE OpenFile
  <2>1. PICK d \in Fds \cup {Refused}, n \in {Len(fileHandle) + 1} :
          /\ n = Len(fileHandle) + 1 /\ fileHandle' = Append(fileHandle, d)
          /\ d \in Fds => openOn[d] = NoFile
          /\ openOn' = [e \in Fds |-> IF e = d THEN n ELSE openOn[e]]
          /\ wasClosed' = wasClosed
    BY <1>0, <1>1 DEF OpenFile
  <2>2. /\ fileHandle' \in Seq(Fds \cup {Refused}) /\ fileHandle'[n] = d
        /\ n \in Nat \ {0} /\ DOMAIN fileHandle' = DOMAIN fileHandle \cup {n}
        /\ \A m \in DOMAIN fileHandle : fileHandle'[m] = fileHandle[m]
    BY <2>1, Appended DEF DescriptorsSound
  <2>3. d # Closed
    BY <1>0, <2>1 DEF DescriptorsSound, Closed
  <2>4. \A m \in DOMAIN fileHandle :
          fileHandle[m] # Closed /\ fileHandle[m] \in Fds => fileHandle[m] # d
    BY <1>0, <2>1 DEF DescriptorsSound, NoFile
  <2>5. openOn' \in [Fds -> Nat] /\ openOn'[0] # NoFile
    BY <1>0, <2>1, <2>2, <2>3 DEF DescriptorsSound, Closed
  <2>6. QED
    BY <1>0, <2>1, <2>2, <2>3, <2>4, <2>5 DEF DescriptorsSound
<1>2. ASSUME NEW n \in AsyncFilesMade, CloseFile(n) PROVE DescriptorsSound'
  <2>1. /\ n \in DOMAIN fileHandle /\ fileHandle[n] # Closed
        /\ openOn' = [d \in Fds |-> IF d = fileHandle[n] THEN NoFile ELSE openOn[d]]
        /\ fileHandle' = [fileHandle EXCEPT ![n] = Closed]
        /\ wasClosed' = wasClosed \cup {n}
    BY <1>2 DEF CloseFile, CloseDescriptor, AsyncFilesMade
  <2>2. Closed \in Fds \cup {Refused}
    BY <1>0 DEF Closed
  <2>3. /\ fileHandle' \in Seq(Fds \cup {Refused}) /\ fileHandle'[n] = Closed
        /\ DOMAIN fileHandle' = DOMAIN fileHandle
        /\ \A m \in DOMAIN fileHandle \ {n} : fileHandle'[m] = fileHandle[m]
    BY <2>1, <2>2, Replaced DEF DescriptorsSound
  <2>4. openOn' \in [Fds -> Nat] /\ openOn'[0] # NoFile
    BY <1>0, <2>1 DEF DescriptorsSound, Closed, NoFile
  <2>5. \A m \in DOMAIN fileHandle \ {n} :
          fileHandle[m] # Closed /\ fileHandle[m] \in Fds => fileHandle[m] # fileHandle[n]
    BY <2>1 DEF DescriptorsSound
  <2>6. QED
    BY <2>1, <2>3, <2>4, <2>5 DEF DescriptorsSound
<1>3. ASSUME UNCHANGED descriptors PROVE DescriptorsSound'
  BY <1>3 DEF descriptors, DescriptorsSound
<1>4. CASE \/ MakeBuffer \/ CloseCarrier
           \/ \E n \in AsyncFilesMade : ReadFile(n) \/ \E b \in inUse : WriteFile(n, b)
           \/ \E b \in inUse : FreeBuffer(b) \/ DropBuffer(b)
           \/ \E b \in heap : FinalizeBuffer(b)
           \/ \E r \in DOMAIN requested : PerformRequest(r) \/ RequestDone(r) \/ CallBack(r)
  BY <1>3, <1>4
     DEF MakeBuffer, CloseCarrier, ReadFile, WriteFile, FreeBuffer, DropBuffer,
         FinalizeBuffer, PerformRequest, RequestDone, CallBack
<1>5. CASE UNCHANGED asyncFilesVars
  BY <1>3, <1>5 DEF asyncFilesVars
<1>6. QED
  BY <1>1, <1>2, <1>4, <1>5 DEF AsyncFilesNext

-----------------------------------------------------------------------------
(***************************************************************************)
(* The buffers.                                                            *)
(***************************************************************************)
Request ==
  [op : {"none", "read", "write"}, file : Nat, fd : Int, buf : Nat,
   at : {"waits", "transfers", "done", "over"}, on : Nat]

(* A read that was not called back has a buffer of its own, which only its
   callback refers to: nobody can free it, and the collector keeps it. *)
BuffersSound ==
  /\ requested \in Seq(Request)
  /\ buffersMade \in Nat /\ heap \subseteq 1 .. buffersMade /\ inUse \subseteq 1 .. buffersMade
  /\ IsFiniteSet(heap) /\ bufferAllocs = Cardinality(heap)
  /\ \A r \in DOMAIN requested : requested[r].at = "over" <=> requested[r].op = "none"
  /\ \A r \in DOMAIN requested : requested[r].op = "read" => requested[r].buf \in heap \ inUse
  /\ \A r, s \in DOMAIN requested :
       requested[r].op = "read" /\ requested[s].op = "read"
         /\ requested[r].buf = requested[s].buf => r = s

LEMMA BuffersSoundInit == AsyncFilesInit => BuffersSound
<1> SUFFICES ASSUME AsyncFilesInit PROVE BuffersSound
  OBVIOUS
<1>1. requested \in Seq(Request) /\ DOMAIN requested = {}
  BY EmptySeq DEF AsyncFilesInit
<1>2. IsFiniteSet(heap) /\ Cardinality(heap) = 0
  BY FS_EmptySet DEF AsyncFilesInit
<1>3. QED
  BY <1>1, <1>2 DEF AsyncFilesInit, BuffersSound

LEMMA BuffersNumbered == BuffersSound => inUse \subseteq Nat
<1>1. buffersMade \in Nat /\ inUse \subseteq 1 .. buffersMade => inUse \subseteq Nat
  OBVIOUS
<1>2. QED
  BY <1>1 DEF BuffersSound

(* A new buffer is nobody's. *)
LEMMA NewBufferFresh ==
  ASSUME BuffersSound, NewBuffer, NEW b, b = buffersMade'
  PROVE  /\ b \in Nat /\ b = buffersMade + 1 /\ b \notin heap /\ b \notin inUse
         /\ heap' = heap \cup {b} /\ heap' \subseteq 1 .. b /\ inUse \subseteq 1 .. b
         /\ IsFiniteSet(heap') /\ bufferAllocs' = Cardinality(heap')
<1>1. /\ b \in Nat /\ b = buffersMade + 1 /\ heap' = heap \cup {b}
      /\ bufferAllocs' = bufferAllocs + 1
  BY DEF NewBuffer, BuffersSound
<1>2. b \notin heap /\ b \notin inUse /\ heap' \subseteq 1 .. b /\ inUse \subseteq 1 .. b
  BY <1>1 DEF BuffersSound
<1>3. IsFiniteSet(heap \cup {b}) /\ Cardinality(heap \cup {b}) = Cardinality(heap) + 1
  BY <1>2, FS_AddElement DEF BuffersSound
<1>4. QED
  BY <1>1, <1>2, <1>3 DEF BuffersSound

LEMMA FreedOnce ==
  ASSUME BuffersSound, NEW b, FreeNative(b)
  PROVE  heap' = heap \ {b} /\ IsFiniteSet(heap') /\ bufferAllocs' = Cardinality(heap')
<1>1. heap' = heap \ {b}
  BY DEF FreeNative
<1>2. /\ IsFiniteSet(heap \ {b})
      /\ Cardinality(heap \ {b})
           = IF b \in heap THEN Cardinality(heap) - 1 ELSE Cardinality(heap)
  BY FS_RemoveElement DEF BuffersSound
<1>3. QED
  BY <1>1, <1>2 DEF FreeNative, BuffersSound

LEMMA BuffersSoundStep ==
  DescriptorsSound /\ BuffersSound /\ [AsyncFilesNext]_asyncFilesVars => BuffersSound'
<1> SUFFICES ASSUME DescriptorsSound, BuffersSound, [AsyncFilesNext]_asyncFilesVars
             PROVE  BuffersSound'
  OBVIOUS
<1>0. /\ requested \in Seq(Request)
      /\ \A r \in DOMAIN requested : requested[r] \in Request
      /\ \A n \in DOMAIN fileHandle : n \in Nat /\ fileHandle[n] \in Int
      /\ \A d : FileOn(d) \in Nat
  <2>1. \A r \in DOMAIN requested : requested[r] \in Request
    BY ElementsOf DEF BuffersSound
  <2>2. \A n \in DOMAIN fileHandle : n \in Nat /\ fileHandle[n] \in Fds \cup {Refused}
    BY ElementsOf DEF DescriptorsSound
  <2>3. Fds \cup {Refused} \subseteq Int
    BY AsyncFilesAssumption DEF Refused
  <2>4. \A d : FileOn(d) \in Nat
    BY DEF FileOn, NoFile, DescriptorsSound
  <2>5. QED
    BY <2>1, <2>2, <2>3, <2>4 DEF BuffersSound
<1>1. ASSUME UNCHANGED <<buffers, requested>> PROVE BuffersSound'
  BY <1>1 DEF BuffersSound, buffers
<1>2. CASE OpenFile
  BY <1>1, <1>2 DEF OpenFile
<1>3. ASSUME NEW n \in AsyncFilesMade, CloseFile(n) PROVE BuffersSound'
  BY <1>1, <1>3 DEF CloseFile
<1>4. CASE MakeBuffer
  BY <1>4, NewBufferFresh DEF MakeBuffer, BuffersSound, descriptors
<1>5. ASSUME NEW b \in inUse, FreeBuffer(b) PROVE BuffersSound'
  <2>1. UNCHANGED <<buffersMade, inUse, requested>>
    BY <1>5 DEF FreeBuffer
  <2>2. heap' = heap \ {b} /\ IsFiniteSet(heap') /\ bufferAllocs' = Cardinality(heap')
    BY <1>5, FreedOnce DEF FreeBuffer
  <2>3. QED
    BY <2>1, <2>2 DEF BuffersSound
<1>6. ASSUME NEW b \in inUse, DropBuffer(b) PROVE BuffersSound'
  BY <1>6 DEF DropBuffer, BuffersSound, descriptors
<1>7. ASSUME NEW b \in heap, FinalizeBuffer(b) PROVE BuffersSound'
  <2>1. /\ UNCHANGED <<descriptors, buffersMade, inUse, requested, carrierOpen>>
        /\ b \notin ReferredTo
        /\ heap' = heap \ {b} /\ IsFiniteSet(heap') /\ bufferAllocs' = Cardinality(heap')
    BY <1>7, FreedOnce DEF FinalizeBuffer
  <2>2. \A r \in DOMAIN requested :
          requested[r].op = "read" => requested[r].buf # b
    BY <2>1 DEF ReferredTo, BuffersSound
  <2>3. QED
    BY <2>1, <2>2 DEF BuffersSound, descriptors
<1>8. ASSUME NEW n \in AsyncFilesMade, ReadFile(n) PROVE BuffersSound'
  <2>1. PICK b : b = buffersMade'
    OBVIOUS
  <2>2. /\ b \in Nat /\ b = buffersMade + 1 /\ b \notin heap /\ b \notin inUse
        /\ heap' = heap \cup {b} /\ heap' \subseteq 1 .. b /\ inUse \subseteq 1 .. b
        /\ IsFiniteSet(heap') /\ bufferAllocs' = Cardinality(heap')
    BY <1>8, <2>1, NewBufferFresh DEF ReadFile
  <2>3. UNCHANGED inUse
    BY <1>8 DEF ReadFile, descriptors
  <2>4. PICK q : /\ q \in Request /\ requested' = Append(requested, q)
                 /\ q.op = "read" => q.buf = b
                 /\ q.at = "over" <=> q.op = "none"
    <3>1. n \in DOMAIN fileHandle /\ Submit("read", n, b)
      BY <1>8, <2>1 DEF ReadFile, AsyncFilesMade
    <3>2. CASE requested' = Append(requested, Over)
      BY <3>2 DEF Over, Request, NoFile
    <3>3. ASSUME NEW q, q = [op |-> "read", file |-> n, fd |-> fileHandle[n], buf |-> b,
                             at |-> "waits", on |-> NoFile]
          PROVE  q \in Request /\ q.op = "read" /\ q.buf = b /\ q.at = "waits"
      <4>1. n \in Nat /\ fileHandle[n] \in Int /\ b \in Nat
        BY <1>0, <2>2, <3>1
      <4>2. QED
        BY <3>3, <4>1 DEF Request, NoFile
    <3>4. QED
      BY <3>1, <3>2, <3>3 DEF Submit
  <2>5. PICK k : /\ requested' \in Seq(Request) /\ requested'[k] = q /\ k \notin DOMAIN requested
                 /\ DOMAIN requested' = DOMAIN requested \cup {k}
                 /\ \A r \in DOMAIN requested : requested'[r] = requested[r]
    BY <1>0, <2>4, Appended
  <2>6. \A r \in DOMAIN requested : requested[r].op = "read" => requested[r].buf # b
    BY <2>2 DEF BuffersSound
  <2>7. QED
    BY <2>1, <2>2, <2>3, <2>4, <2>5, <2>6 DEF BuffersSound
<1>9. ASSUME NEW n \in AsyncFilesMade, NEW b \in inUse, WriteFile(n, b) PROVE BuffersSound'
  <2>1. UNCHANGED buffers
    BY <1>9 DEF WriteFile, descriptors
  <2>2. PICK q : /\ q \in Request /\ requested' = Append(requested, q)
                 /\ q.op # "read" /\ (q.at = "over" <=> q.op = "none")
    <3>1. n \in DOMAIN fileHandle /\ Submit("write", n, b) /\ b \in Nat
      BY <1>9, BuffersNumbered DEF WriteFile, AsyncFilesMade
    <3>2. CASE requested' = Append(requested, Over)
      BY <3>2 DEF Over, Request, NoFile
    <3>3. ASSUME NEW q, q = [op |-> "write", file |-> n, fd |-> fileHandle[n], buf |-> b,
                             at |-> "waits", on |-> NoFile]
          PROVE  q \in Request /\ q.op = "write" /\ q.at = "waits"
      <4>1. n \in Nat /\ fileHandle[n] \in Int /\ b \in Nat
        BY <1>0, <3>1
      <4>2. QED
        BY <3>3, <4>1 DEF Request, NoFile
    <3>4. QED
      BY <3>1, <3>2, <3>3 DEF Submit
  <2>3. PICK k : /\ requested' \in Seq(Request) /\ requested'[k] = q /\ k \notin DOMAIN requested
                 /\ DOMAIN requested' = DOMAIN requested \cup {k}
                 /\ \A r \in DOMAIN requested : requested'[r] = requested[r]
    BY <1>0, <2>2, Appended
  <2>4. QED
    BY <2>1, <2>2, <2>3 DEF BuffersSound, buffers
<1>10. ASSUME NEW r \in DOMAIN requested, CallBack(r) PROVE BuffersSound'
  <2>1. /\ UNCHANGED <<heap, buffersMade, bufferAllocs>>
        /\ requested' = [requested EXCEPT ![r] = Over]
        /\ inUse' = IF requested[r].op = "read" THEN inUse \cup {requested[r].buf} ELSE inUse
    BY <1>10 DEF CallBack, descriptors
  <2>2. Over \in Request /\ Over.op = "none"
    BY DEF Over, Request, NoFile
  <2>3. /\ requested' \in Seq(Request) /\ DOMAIN requested' = DOMAIN requested
        /\ requested'[r] = Over
        /\ \A k \in DOMAIN requested \ {r} : requested'[k] = requested[k]
    BY <1>0, <2>1, <2>2, Replaced
  <2>4. \A k \in DOMAIN requested' : requested'[k].op = "read" =>
          /\ k # r /\ k \in DOMAIN requested /\ requested'[k] = requested[k]
          /\ requested[k].buf \in heap' \ inUse'
    BY <2>1, <2>2, <2>3 DEF BuffersSound
  <2>5. inUse' \subseteq 1 .. buffersMade'
    BY <2>1 DEF BuffersSound
  <2>6. \A k \in DOMAIN requested' :
          requested'[k].at = "over" <=> requested'[k].op = "none"
    BY <2>3 DEF BuffersSound, Over
  <2>7. QED
    BY <2>1, <2>3, <2>4, <2>5, <2>6 DEF BuffersSound
<1>11. ASSUME NEW r \in DOMAIN requested, PerformRequest(r) \/ RequestDone(r)
       PROVE  BuffersSound'
  <2>1. UNCHANGED buffers /\ requested[r].at # "over"
    BY <1>11 DEF PerformRequest, RequestDone, descriptors
  <2>2. PICK q : /\ q \in Request /\ requested' = [requested EXCEPT ![r] = q]
                 /\ q.op = requested[r].op /\ q.buf = requested[r].buf /\ q.at # "over"
    <3>1. CASE PerformRequest(r)
      <4> DEFINE q == [requested[r] EXCEPT !.at = "transfers",
                                          !.on = FileOn(requested[r].fd)]
      <4>1. /\ q \in Request /\ q.op = requested[r].op /\ q.buf = requested[r].buf
            /\ q.at # "over"
        BY <1>0 DEF Request
      <4>2. requested' = [requested EXCEPT ![r] = q]
        BY <3>1 DEF PerformRequest
      <4>3. QED
        BY <4>1, <4>2
    <3>2. CASE RequestDone(r)
      <4> DEFINE q == [requested[r] EXCEPT !.at = "done"]
      <4>1. /\ q \in Request /\ q.op = requested[r].op /\ q.buf = requested[r].buf
            /\ q.at # "over"
        BY <1>0 DEF Request
      <4>2. requested' = [requested EXCEPT ![r] = q]
        BY <3>2 DEF RequestDone
      <4>3. QED
        BY <4>1, <4>2
    <3>3. QED
      BY <1>11, <3>1, <3>2
  <2>3. /\ requested' \in Seq(Request) /\ DOMAIN requested' = DOMAIN requested
        /\ requested'[r] = q
        /\ \A k \in DOMAIN requested \ {r} : requested'[k] = requested[k]
    BY <1>0, <2>2, Replaced
  <2>4. QED
    BY <2>1, <2>2, <2>3 DEF BuffersSound, buffers
<1>12. CASE CloseCarrier
  BY <1>12 DEF CloseCarrier, BuffersSound, descriptors, buffers
<1>13. CASE UNCHANGED asyncFilesVars
  BY <1>13 DEF asyncFilesVars, BuffersSound, descriptors, buffers
<1>14. QED
  BY <1>2, <1>3, <1>4, <1>5, <1>6, <1>7, <1>8, <1>9, <1>10, <1>11, <1>12, <1>13
     DEF AsyncFilesNext

-----------------------------------------------------------------------------
(***************************************************************************)
(* The files.                                                              *)
(***************************************************************************)
(* What a request will hit, or has hit, is its own file, as long as its
   AsyncFile was not closed. *)
RequestsSound ==
  \A r \in DOMAIN requested :
    \/ requested[r].op = "none" /\ requested[r].on = NoFile
    \/ /\ requested[r].file \in DOMAIN fileHandle
       /\ \/ requested[r].file \in wasClosed
          \/ /\ requested[r].fd = fileHandle[requested[r].file]
             /\ requested[r].on \in {NoFile, requested[r].file}

LEMMA RequestsSoundStep ==
  ASSUME DescriptorsSound, BuffersSound, RequestsSound, [AsyncFilesNext]_asyncFilesVars
  PROVE  RequestsSound'
<1>0. /\ requested \in Seq(Request) /\ \A r \in DOMAIN requested : requested[r] \in Request
      /\ fileHandle \in Seq(Fds \cup {Refused})
  BY ElementsOf DEF BuffersSound, DescriptorsSound
<1>1. CASE OpenFile
  <2>1. PICK d \in Fds \cup {Refused} : fileHandle' = Append(fileHandle, d)
    BY <1>1 DEF OpenFile
  <2>2. /\ DOMAIN fileHandle \subseteq DOMAIN fileHandle'
        /\ \A m \in DOMAIN fileHandle : fileHandle'[m] = fileHandle[m]
    BY <1>0, <2>1, Appended
  <2>3. QED
    BY <1>1, <2>2 DEF OpenFile, RequestsSound
<1>2. ASSUME NEW n \in AsyncFilesMade, CloseFile(n) PROVE RequestsSound'
  <2>1. /\ n \in DOMAIN fileHandle /\ requested' = requested
        /\ fileHandle' = [fileHandle EXCEPT ![n] = Closed]
        /\ wasClosed' = wasClosed \cup {n}
    BY <1>2 DEF CloseFile, AsyncFilesMade
  <2>2. /\ DOMAIN fileHandle' = DOMAIN fileHandle
        /\ \A m \in DOMAIN fileHandle \ {n} : fileHandle'[m] = fileHandle[m]
    BY <2>1
  <2>3. QED
    BY <2>1, <2>2 DEF RequestsSound
<1>3. ASSUME UNCHANGED <<fileHandle, wasClosed, requested>> PROVE RequestsSound'
  BY <1>3 DEF RequestsSound
<1>4. ASSUME UNCHANGED <<fileHandle, wasClosed>>, NEW q \in Request,
             requested' = Append(requested, q),
             \/ q = Over
             \/ \E n \in DOMAIN fileHandle :
                  q.file = n /\ q.fd = fileHandle[n] /\ q.on = NoFile
      PROVE  RequestsSound'
  <2>1. PICK k : /\ requested'[k] = q
                 /\ DOMAIN requested' = DOMAIN requested \cup {k}
                 /\ \A r \in DOMAIN requested : requested'[r] = requested[r]
    BY <1>0, <1>4, Appended
  <2>2. QED
    BY <1>4, <2>1 DEF RequestsSound, Over
<1>5. ASSUME NEW n \in AsyncFilesMade, NEW op \in {"read", "write"}, NEW b \in Nat,
             UNCHANGED <<fileHandle, wasClosed>>, Submit(op, n, b)
      PROVE  RequestsSound'
  <2>1. n \in DOMAIN fileHandle /\ n \in Nat /\ fileHandle[n] \in Int
    <3>1. n \in DOMAIN fileHandle
      BY DEF AsyncFilesMade
    <3>2. n \in Nat /\ fileHandle[n] \in Fds \cup {Refused}
      BY <1>0, <3>1, ElementsOf
    <3>3. Fds \cup {Refused} \subseteq Int
      BY AsyncFilesAssumption DEF Refused
    <3>4. QED
      BY <3>1, <3>2, <3>3
  <2>2. CASE requested' = Append(requested, Over)
    <3>1. Over \in Request
      BY DEF Over, Request, NoFile
    <3>2. QED
      BY <1>4, <1>5, <2>2, <3>1
  <2>3. ASSUME NEW q, q = [op |-> op, file |-> n, fd |-> fileHandle[n], buf |-> b,
                           at |-> "waits", on |-> NoFile],
               requested' = Append(requested, q)
        PROVE  RequestsSound'
    <3>1. q \in Request /\ q.file = n /\ q.fd = fileHandle[n] /\ q.on = NoFile
      BY <2>1, <2>3 DEF Request, NoFile
    <3>2. QED
      BY <1>4, <1>5, <2>1, <2>3, <3>1
  <2>4. QED
    BY <1>5, <2>2, <2>3 DEF Submit
<1>6. ASSUME NEW r \in DOMAIN requested, PerformRequest(r) PROVE RequestsSound'
  <2>1. /\ UNCHANGED <<fileHandle, wasClosed>>
        /\ DOMAIN requested' = DOMAIN requested
        /\ \A k \in DOMAIN requested \ {r} : requested'[k] = requested[k]
        /\ requested'[r].op = requested[r].op /\ requested'[r].file = requested[r].file
        /\ requested'[r].fd = requested[r].fd
        /\ requested'[r].on = FileOn(requested[r].fd)
    BY <1>0, <1>6 DEF PerformRequest, descriptors, Request
  <2>2. requested[r].op # "none"
    BY <1>6 DEF PerformRequest, BuffersSound
  <2>3. ASSUME requested[r].file \in DOMAIN fileHandle \ wasClosed,
               requested[r].fd = fileHandle[requested[r].file]
        PROVE  FileOn(requested[r].fd) \in {NoFile, requested[r].file}
    BY <2>3 DEF FileOn, DescriptorsSound
  <2>4. QED
    BY <2>1, <2>2, <2>3 DEF RequestsSound
<1>7. ASSUME NEW r \in DOMAIN requested, RequestDone(r) \/ CallBack(r)
      PROVE  RequestsSound'
  <2>1. /\ UNCHANGED <<fileHandle, wasClosed>>
        /\ DOMAIN requested' = DOMAIN requested
        /\ \A k \in DOMAIN requested \ {r} : requested'[k] = requested[k]
        /\ \/ requested'[r] = Over
           \/ /\ requested'[r].op = requested[r].op /\ requested'[r].file = requested[r].file
              /\ requested'[r].fd = requested[r].fd /\ requested'[r].on = requested[r].on
    BY <1>0, <1>7 DEF RequestDone, CallBack, descriptors, Request
  <2>2. QED
    BY <2>1 DEF RequestsSound, Over
<1>8. CASE \/ MakeBuffer \/ CloseCarrier \/ UNCHANGED asyncFilesVars
           \/ \E b \in inUse : FreeBuffer(b) \/ DropBuffer(b)
           \/ \E b \in heap : FinalizeBuffer(b)
  BY <1>3, <1>8
     DEF MakeBuffer, CloseCarrier, FreeBuffer, DropBuffer, FinalizeBuffer, descriptors,
         asyncFilesVars
<1>9. CASE \E n \in AsyncFilesMade : ReadFile(n)
  <2>1. PICK n \in AsyncFilesMade : ReadFile(n)
    BY <1>9
  <2>2. buffersMade' \in Nat
    BY <2>1 DEF ReadFile, NewBuffer, BuffersSound
  <2>3. QED
    BY <1>5, <2>1, <2>2 DEF ReadFile, descriptors
<1>10. CASE \E n \in AsyncFilesMade : \E b \in inUse : WriteFile(n, b)
  <2>1. PICK n \in AsyncFilesMade, b \in inUse : WriteFile(n, b)
    BY <1>10
  <2>2. b \in Nat
    BY BuffersNumbered
  <2>3. QED
    BY <1>5, <2>1, <2>2 DEF WriteFile, descriptors
<1>11. QED
  BY <1>1, <1>2, <1>6, <1>7, <1>8, <1>9, <1>10 DEF AsyncFilesNext

-----------------------------------------------------------------------------
FilesInv == DescriptorsSound /\ BuffersSound /\ RequestsSound

LEMMA FilesInvariant == AsyncFilesSpec => []FilesInv
<1>1. AsyncFilesInit => RequestsSound
  BY DEF AsyncFilesInit, RequestsSound
<1>2. FilesInv /\ [AsyncFilesNext]_asyncFilesVars => RequestsSound'
  BY RequestsSoundStep DEF FilesInv
<1>3. AsyncFilesInit => FilesInv
  BY <1>1, DescriptorsSoundInit, BuffersSoundInit DEF FilesInv
<1>4. FilesInv /\ [AsyncFilesNext]_asyncFilesVars => FilesInv'
  BY <1>2, DescriptorsSoundStep, BuffersSoundStep DEF FilesInv
<1>5. QED
  BY <1>3, <1>4, PTL DEF AsyncFilesSpec

(* The buffer of a read is allocated as long as the native side may write to it,
   whatever the client frees and whenever the collector runs; and the counter of
   allocations counts every buffer that is freed and finalized off once. *)
THEOREM ReadBuffersOutlive == AsyncFilesSpec => []BuffersOutliveRequests
<1>1. FilesInv => BuffersOutliveRequests
  BY DEF FilesInv, BuffersSound, BuffersOutliveRequests
<1>2. QED
  BY <1>1, FilesInvariant, PTL

(* A number that the kernel gives out again never takes a request to another
   file than its own while its own was not closed, however often and in which
   order files are opened and closed. *)
THEOREM RequestsHitTheirFile == AsyncFilesSpec => []RequestsKeepTheirFile
<1>1. FilesInv => RequestsKeepTheirFile
  BY DEF FilesInv, RequestsSound, RequestsKeepTheirFile
<1>2. QED
  BY <1>1, FilesInvariant, PTL

-----------------------------------------------------------------------------
(***************************************************************************)
(* Watches of directory trees.                                             *)
(***************************************************************************)

Event == [dir : Dirs, name : Names, mkdir : BOOLEAN, truth : Seq(Names)]
Task == [do : {"watch", "scan"}, path : Seq(Names)]
Paths == Seq(Names) \cup {Nowhere}

(* A directory is in directories that exist. *)
TreeSound ==
  /\ pathOf \in [Dirs -> Paths]
  /\ \A d \in Dirs : pathOf[d] # Nowhere =>
       \A k \in 0 .. Len(pathOf[d]) - 1 :
         \E c \in Dirs : /\ pathOf[c] # Nowhere /\ Len(pathOf[c]) = k
                         /\ Under(pathOf[c], pathOf[d])

(* An event is one of a directory that is watched, and tells where it was. *)
Seen(watched, paths, e) ==
  /\ e \in Event /\ watched[e.dir] # Nowhere
  /\ e.truth = Append(paths[e.dir], e.name)

(* What is watched is watched under its path. *)
WatchesSound ==
  /\ wd \in [Sessions -> [Dirs -> Paths]]
  /\ \A s \in Sessions, d \in Dirs : wd[s][d] \in {Nowhere, pathOf[d]}
  /\ queue \in [Sessions -> Seq(Event)] /\ buffer \in [Sessions -> Seq(Event)]
  /\ \A s \in Sessions : \A e \in Range(queue[s]) \cup Range(buffer[s]) :
       Seen(wd[s], pathOf, e)
  /\ told.path = told.truth

ThreadsSound ==
  /\ ses \in [Sessions -> {"none", "starting", "running", "listed", "inactive", "deleted"}]
  /\ thr \in [Sessions -> {"none", "test", "read", "event", "gone", "wild"}]
  /\ tasks \in [Sessions -> Seq(Task)]
  /\ \A s \in Sessions : /\ thr[s] \in {"none", "test", "read"} => buffer[s] = <<>>
                         /\ thr[s] = "event" => buffer[s] # <<>>
                         /\ ses[s] = "none" => tasks[s] = <<>>
                         /\ ses[s] \in {"none", "starting"} => thr[s] = "none"
  /\ failed \in [Sessions -> SUBSET Task]

(* A directory will be found by a step of the adding, or by an event. *)
Announces(e, path) == e.mkdir /\ Under(e.truth, path)

WillBeFound(path, todo, events) ==
  \/ \E task \in todo : FoundBy(task, path)
  \/ \E e \in events : Announces(e, path)

(* Every directory is watched, or will be found; or would have been, by a step
   that failed. *)
Steps(s) == Range(tasks[s]) \cup failed[s]
Live == {"starting", "running", "listed"}
NothingMissed ==
  ~dropped =>
    \A s \in Sessions : ses[s] \in Live =>
      \A d \in Dirs : pathOf[d] # Nowhere =>
        \/ wd[s][d] = pathOf[d]
        \/ WillBeFound(pathOf[d], Steps(s), Range(queue[s]) \cup Range(buffer[s]))

(* The inductive invariant, of which nothing is left when a directory was
   moved *)
Sound == TreeSound /\ WatchesSound /\ ThreadsSound /\ NothingMissed
WatcherInv == ~moved => Sound

-----------------------------------------------------------------------------
(***************************************************************************)
(* Paths and sequences.                                                    *)
(***************************************************************************)
LEMMA UnderSteps ==
  ASSUME NEW p \in Seq(Names), NEW q \in Seq(Names), NEW r \in Seq(Names), NEW n \in Names
  PROVE  /\ Under(p, p) /\ Under(<<>>, p)
         /\ Under(p, q) /\ Under(q, r) => Under(p, r)
         /\ Append(p, n) \in Seq(Names) /\ Len(Append(p, n)) = Len(p) + 1
         /\ Append(p, n)[Len(p) + 1] = n /\ Append(p, n) # Nowhere
         /\ Under(p, Append(p, n)) /\ Len(p) \in Nat
<1>1. Len(p) \in Nat /\ Len(q) \in Nat /\ Len(r) \in Nat
  BY LenProperties
<1>2. /\ Append(p, n) \in Seq(Names) /\ Len(Append(p, n)) = Len(p) + 1
      /\ \A i \in 1 .. Len(p) : Append(p, n)[i] = p[i]
      /\ Append(p, n)[Len(p) + 1] = n
  BY AppendProperties
<1>3. Append(p, n) # Nowhere
  <2>1. SUFFICES ASSUME Append(p, n) = Nowhere PROVE FALSE
    OBVIOUS
  <2>2. Len(p) + 1 = 1 /\ Append(p, n)[1] = "?"
    BY <1>2, <2>1 DEF Nowhere
  <2>3. Len(p) + 1 = 1 => n = "?"
    BY <1>2, <2>2
  <2>4. QED
    BY <2>2, <2>3, WatcherAssumption
<1>4. Under(p, p) /\ Under(<<>>, p) /\ Under(p, Append(p, n))
  BY <1>1, <1>2, EmptySeq DEF Under
<1>5. Under(p, q) /\ Under(q, r) => Under(p, r)
  BY <1>1 DEF Under
<1>6. QED
  BY <1>1, <1>2, <1>3, <1>4, <1>5

LEMMA NowhereIsNoPath == Nowhere \notin Seq(Names) /\ Paths \ {Nowhere} = Seq(Names)
<1>1. ASSUME Nowhere \in Seq(Names) PROVE FALSE
  <2>1. Nowhere[1] \in Names
    BY <1>1, ElementOfSeq DEF Nowhere
  <2>2. QED
    BY <2>1, WatcherAssumption DEF Nowhere
<1>2. QED
  BY <1>1 DEF Paths

(* The directory one step below p on the way to q *)
LEMMA StepBelow ==
  ASSUME NEW p \in Seq(Names), NEW q \in Seq(Names), NEW c \in Seq(Names),
         Under(p, q), Under(c, q), Len(c) = Len(p) + 1
  PROVE  c[Len(c)] \in Names /\ c = Append(p, c[Len(c)])
<1>1. Len(p) \in Nat /\ Len(c) \in Nat /\ Len(q) \in Nat
  BY LenProperties
<1>2. PICK n : n = c[Len(c)]
  OBVIOUS
<1>3. n \in Names
  <2>1. Len(c) \in 1 .. Len(c)
    BY <1>1
  <2>2. QED
    BY <1>2, <2>1, ElementOfSeq
<1>4. /\ Append(p, n) \in Seq(Names) /\ Len(Append(p, n)) = Len(p) + 1
      /\ \A i \in 1 .. Len(p) : Append(p, n)[i] = p[i]
      /\ Append(p, n)[Len(p) + 1] = n
  BY <1>3, AppendProperties
<1>5. \A i \in 1 .. Len(c) : c[i] = Append(p, n)[i]
  <2>1. ASSUME NEW i \in 1 .. Len(c) PROVE c[i] = Append(p, n)[i]
    <3>1. CASE i = Len(c)
      BY <1>2, <1>4, <3>1
    <3>2. CASE i # Len(c)
      <4>1. i \in 1 .. Len(p)
        BY <1>1, <3>2
      <4>2. p[i] = q[i] /\ c[i] = q[i]
        BY <4>1 DEF Under
      <4>3. QED
        BY <1>4, <4>1, <4>2
    <3>3. QED
      BY <3>1, <3>2
  <2>2. QED
    BY <2>1
<1>6. c = Append(p, n)
  BY <1>4, <1>5, SeqEqual
<1>7. QED
  BY <1>2, <1>3, <1>6

LEMMA RangeOf ==
  ASSUME NEW S, NEW s \in Seq(S)
  PROVE  Range(s) \subseteq S /\ (s = <<>> <=> Range(s) = {})
<1>1. Len(s) \in Nat /\ DOMAIN s = 1 .. Len(s) /\ \A i \in 1 .. Len(s) : s[i] \in S
  BY LenProperties, ElementOfSeq
<1>2. s = <<>> <=> Len(s) = 0
  BY EmptySeq
<1>3. Len(s) # 0 => 1 \in DOMAIN s
  BY <1>1
<1>4. Len(s) = 0 => DOMAIN s = {}
  BY <1>1
<1>5. QED
  BY <1>1, <1>2, <1>3, <1>4 DEF Range

LEMMA RangeOfTwo ==
  ASSUME NEW S, NEW s \in Seq(S), NEW t \in Seq(S)
  PROVE  s \o t \in Seq(S) /\ Range(s \o t) = Range(s) \cup Range(t)
<1>1. /\ s \o t \in Seq(S) /\ Len(s \o t) = Len(s) + Len(t)
      /\ \A i \in 1 .. Len(s) + Len(t) :
           (s \o t)[i] = IF i <= Len(s) THEN s[i] ELSE t[i - Len(s)]
  BY ConcatProperties
<1>2. PICK m, n, u : m = Len(s) /\ n = Len(t) /\ u = s \o t
  OBVIOUS
<1>3. /\ m \in Nat /\ n \in Nat /\ DOMAIN s = 1 .. m /\ DOMAIN t = 1 .. n
      /\ DOMAIN u = 1 .. m + n
      /\ \A i \in 1 .. m + n : u[i] = IF i <= m THEN s[i] ELSE t[i - m]
  BY <1>1, <1>2, LenProperties
<1>4. \A i \in 1 .. m : i \in 1 .. m + n /\ u[i] = s[i]
  BY <1>3
<1>5. \A i \in 1 .. n : i + m \in 1 .. m + n /\ u[i + m] = t[i]
  <2>1. \A i \in 1 .. n : i + m \in 1 .. m + n /\ ~ (i + m <= m) /\ (i + m) - m = i
    BY <1>3
  <2>2. QED
    BY <1>3, <2>1
<1>6. \A i \in 1 .. m + n : \/ i \in 1 .. m /\ u[i] = s[i]
                            \/ i - m \in 1 .. n /\ u[i] = t[i - m]
  <2>1. \A i \in 1 .. m + n : \/ i \in 1 .. m /\ i <= m
                              \/ ~ (i <= m) /\ i - m \in 1 .. n
    BY <1>3
  <2>2. QED
    BY <1>3, <2>1
<1>7. Range(u) = Range(s) \cup Range(t)
  <2>1. ASSUME NEW x \in Range(u) PROVE x \in Range(s) \cup Range(t)
    <3>1. PICK i \in 1 .. m + n : x = u[i]
      BY <1>3 DEF Range
    <3>2. QED
      BY <1>3, <1>6, <3>1 DEF Range
  <2>2. ASSUME NEW x \in Range(s) PROVE x \in Range(u)
    <3>1. PICK i \in 1 .. m : x = s[i]
      BY <1>3 DEF Range
    <3>2. QED
      BY <1>3, <1>4, <3>1 DEF Range
  <2>3. ASSUME NEW x \in Range(t) PROVE x \in Range(u)
    <3>1. PICK i \in 1 .. n : x = t[i]
      BY <1>3 DEF Range
    <3>2. QED
      BY <1>3, <1>5, <3>1 DEF Range
  <2>4. QED
    BY <2>1, <2>2, <2>3
<1>8. QED
  BY <1>1, <1>2, <1>7

LEMMA RangeOfOne ==
  ASSUME NEW S, NEW x \in S
  PROVE  <<x>> \in Seq(S) /\ Range(<<x>>) = {x}
<1>1. <<x>> \in Seq(S) /\ DOMAIN <<x>> = {1} /\ <<x>>[1] = x
  OBVIOUS
<1>2. QED
  BY <1>1 DEF Range

LEMMA RangeOfTail ==
  ASSUME NEW S, NEW s \in Seq(S), s # <<>>
  PROVE  /\ Head(s) \in S /\ Head(s) \in Range(s) /\ Tail(s) \in Seq(S)
         /\ Range(s) = {Head(s)} \cup Range(Tail(s))
         /\ Len(s) \in Nat /\ (Len(s) <= 1 <=> Tail(s) = <<>>)
<1>1. PICK n, t : n = Len(s) /\ t = Tail(s)
  OBVIOUS
<1>2. n \in Nat \ {0} /\ DOMAIN s = 1 .. n /\ s[1] \in S
  BY <1>1, EmptySeq, LenProperties, ElementOfSeq
<1>3. /\ t \in Seq(S) /\ Len(t) = n - 1 /\ \A i \in 1 .. n - 1 : t[i] = s[i + 1]
      /\ Head(s) = s[1]
  BY <1>1, HeadTailProperties
<1>4. DOMAIN t = 1 .. n - 1
  BY <1>3, LenProperties
<1>5. \A i \in 1 .. n : i = 1 \/ (i - 1 \in 1 .. n - 1 /\ (i - 1) + 1 = i)
  BY <1>2
<1>6. \A i \in 1 .. n - 1 : i + 1 \in 1 .. n
  BY <1>2
<1>7. Range(s) = {s[1]} \cup Range(t)
  <2>1. \A i \in 1 .. n : s[i] = s[1] \/ \E j \in 1 .. n - 1 : s[i] = t[j]
    BY <1>3, <1>5
  <2>2. \A j \in 1 .. n - 1 : \E i \in 1 .. n : t[j] = s[i]
    BY <1>3, <1>6
  <2>3. 1 \in 1 .. n
    BY <1>2
  <2>4. ASSUME NEW x \in Range(s) PROVE x \in {s[1]} \cup Range(t)
    <3>1. PICK i \in 1 .. n : x = s[i]
      BY <1>2 DEF Range
    <3>2. QED
      BY <1>4, <2>1, <3>1 DEF Range
  <2>5. ASSUME NEW x \in Range(t) PROVE x \in Range(s)
    <3>1. PICK j \in 1 .. n - 1 : x = t[j]
      BY <1>4 DEF Range
    <3>2. QED
      BY <1>2, <2>2, <3>1 DEF Range
  <2>6. s[1] \in Range(s)
    BY <1>2, <2>3 DEF Range
  <2>7. QED
    BY <2>4, <2>5, <2>6
<1>8. t = <<>> <=> n = 1
  BY <1>2, <1>3, EmptySeq
<1>9. s[1] \in Range(s)
  BY <1>7
<1>10. QED
  BY <1>1, <1>2, <1>3, <1>7, <1>8, <1>9

(* A sequence of every element of a set, each mapped to something *)
LEMMA RangeOfEvery ==
  ASSUME NEW S, IsFiniteSet(S), NEW f \in SetToSeqs(S),
         NEW T, NEW g \in [S -> T]
  PROVE  /\ [i \in DOMAIN f |-> g[f[i]]] \in Seq(T)
         /\ Range([i \in DOMAIN f |-> g[f[i]]]) = {g[x] : x \in S}
<1>1. PICK n : n = Cardinality(S)
  OBVIOUS
<1>2. n \in Nat /\ f \in [1 .. n -> S] /\ \A i, j \in 1 .. n : i # j => f[i] # f[j]
  BY <1>1, FS_CardinalityType DEF SetToSeqs
<1>3. \A x \in S : \E i \in 1 .. n : f[i] = x
  <2>1. f \in Injection(1 .. n, S)
    BY <1>2, Fun_IsInj
  <2>2. Cardinality(1 .. n) = n
    <3>1. Cardinality(1 .. n) = IF 1 > n THEN 0 ELSE n - 1 + 1
      BY <1>2, FS_Interval
    <3>2. QED
      BY <1>2, <3>1
  <2>3. f \in Surjection(1 .. n, S)
    BY <1>1, <2>1, <2>2, FS_Injection
  <2>4. QED
    BY <2>3 DEF Surjection
<1>4. PICK h : h = [i \in DOMAIN f |-> g[f[i]]]
  OBVIOUS
<1>5. h \in [1 .. n -> T] /\ \A i \in 1 .. n : h[i] = g[f[i]] /\ f[i] \in S
  BY <1>2, <1>4
<1>6. h \in Seq(T)
  BY <1>2, <1>5, IsASeq
<1>7. Range(h) = {g[x] : x \in S}
  BY <1>3, <1>5 DEF Range
<1>8. QED
  BY <1>4, <1>6, <1>7

LEMMA RangeOfNone == Range(<<>>) = {} /\ \A S : <<>> \in Seq(S)
BY EmptySeq, RangeOf

-----------------------------------------------------------------------------
(***************************************************************************)
(* The actions, one by one.                                                *)
(***************************************************************************)
LEMMA Primed ==
  /\ \A s, e : Seen(wd[s], pathOf, e)' <=> Seen(wd'[s], pathOf', e)
  /\ \A s, d :
       WillBeFound(pathOf[d], Steps(s), Range(queue[s]) \cup Range(buffer[s]))'
         <=> WillBeFound(pathOf'[d], Range(tasks'[s]) \cup failed'[s],
                           Range(queue'[s]) \cup Range(buffer'[s]))
BY DEF Seen, WillBeFound, Steps, FoundBy, Announces, Under, Range

LEMMA TreeKept ==
  ASSUME TreeSound, pathOf' = pathOf
  PROVE  TreeSound'
BY DEF TreeSound, Under

(* The events are old ones. *)
LEMMA WatchesKept ==
  ASSUME WatchesSound, UNCHANGED <<pathOf, wd>>, told'.path = told'.truth,
         queue' \in [Sessions -> Seq(Event)], buffer' \in [Sessions -> Seq(Event)],
         \A s \in Sessions : Range(queue'[s]) \cup Range(buffer'[s])
                               \subseteq Range(queue[s]) \cup Range(buffer[s])
  PROVE  WatchesSound'
BY Primed DEF WatchesSound

(* Only the state of a session or its thread changes. *)
LEMMA MissedKept ==
  ASSUME NothingMissed, UNCHANGED <<pathOf, wd, queue, buffer, tasks, dropped, failed>>,
         \A s \in Sessions : ses'[s] \in Live => ses[s] \in Live
  PROVE  NothingMissed'
BY Primed DEF NothingMissed, Steps

LEMMA SessionsKept ==
  ASSUME Sound, UNCHANGED <<pathOf, wd, queue, buffer, tasks, dropped, told, ses, thr, failed>>
  PROVE  Sound'
<1>1. TreeSound' /\ WatchesSound' /\ NothingMissed'
  BY TreeKept, WatchesKept, MissedKept DEF Sound, WatchesSound
<1>2. ThreadsSound'
  BY DEF Sound, ThreadsSound
<1>3. QED
  BY <1>1, <1>2 DEF Sound

LEMMA ControlStep ==
  ASSUME Sound, NEW s \in Sessions,
         \/ WatchFails(s) \/ StartThread(s) \/ ListWatcher(s) \/ TestActive(s)
         \/ Deactivate(s) \/ DeleteWatcher(s)
  PROVE  Sound'
<1>1. UNCHANGED <<pathOf, wd, queue, buffer, tasks, dropped, told, failed>>
  BY DEF WatchFails, StartThread, ListWatcher, TestActive, Deactivate, DeleteWatcher,
         tree, kernel
<1>2. TreeSound' /\ WatchesSound'
  BY <1>1, TreeKept, WatchesKept DEF Sound, WatchesSound
<1>3. /\ ThreadsSound'
      /\ \A r \in Sessions : ses'[r] \in Live => ses[r] \in Live
  <2>1. CASE WatchFails(s)
    BY <1>1, <2>1 DEF WatchFails, Sound, ThreadsSound
  <2>2. CASE StartThread(s)
    BY <1>1, <2>2 DEF StartThread, Sound, ThreadsSound, Live
  <2>3. CASE ListWatcher(s)
    BY <1>1, <2>3 DEF ListWatcher, Sound, ThreadsSound, Live
  <2>4. CASE TestActive(s)
    BY <1>1, <2>4 DEF TestActive, ThreadStep, Alive, Sound, ThreadsSound, Live
  <2>5. CASE Deactivate(s) \/ DeleteWatcher(s)
    BY <1>1, <2>5 DEF Deactivate, DeleteWatcher, Sound, ThreadsSound, Live
  <2>6. QED
    BY <2>1, <2>2, <2>3, <2>4, <2>5
<1>4. NothingMissed'
  BY <1>1, <1>3, MissedKept DEF Sound
<1>5. QED
  BY <1>2, <1>3, <1>4 DEF Sound

LEMMA ReadEventsStep ==
  ASSUME Sound, NEW s \in Sessions, ReadEvents(s)
  PROVE  Sound'
<1>1. /\ thr[s] = "read" /\ queue[s] # <<>>
      /\ thr' = [thr EXCEPT ![s] = "event"]
      /\ buffer' = [buffer EXCEPT ![s] = queue[s]] /\ queue' = [queue EXCEPT ![s] = <<>>]
      /\ UNCHANGED <<pathOf, wd, ses, tasks, dropped, told, failed>>
  BY DEF ReadEvents, tree
<1>2. /\ queue \in [Sessions -> Seq(Event)] /\ buffer \in [Sessions -> Seq(Event)]
      /\ buffer[s] = <<>>
  BY <1>1 DEF Sound, WatchesSound, ThreadsSound
<1>3. /\ queue' \in [Sessions -> Seq(Event)] /\ buffer' \in [Sessions -> Seq(Event)]
      /\ \A r \in Sessions : Range(queue'[r]) \cup Range(buffer'[r])
                               = Range(queue[r]) \cup Range(buffer[r])
  <2>1. ASSUME NEW r \in Sessions
        PROVE  Range(queue'[r]) \cup Range(buffer'[r]) = Range(queue[r]) \cup Range(buffer[r])
    <3>1. CASE r = s
      BY <1>1, <1>2, <3>1, RangeOfNone
    <3>2. CASE r # s
      BY <1>1, <1>2, <3>2
    <3>3. QED
      BY <3>1, <3>2
  <2>2. QED
    BY <1>1, <1>2, <2>1, RangeOfNone
<1>4. TreeSound' /\ WatchesSound'
  BY <1>1, <1>3, TreeKept, WatchesKept DEF Sound, WatchesSound
<1>5. ThreadsSound'
  BY <1>1, <1>2 DEF Sound, ThreadsSound
<1>6. NothingMissed'
  BY <1>1, <1>3, Primed DEF Sound, NothingMissed, Steps
<1>7. QED
  BY <1>4, <1>5, <1>6 DEF Sound

LEMMA WatchStep ==
  ASSUME Sound, NEW s \in Sessions, Watch(s)
  PROVE  Sound'
<1>1. /\ ses[s] = "none" /\ ses' = [ses EXCEPT ![s] = "starting"]
      /\ tasks' = [tasks EXCEPT ![s] = <<Adding(<<>>)>>]
      /\ UNCHANGED <<pathOf, wd, queue, buffer, thr, dropped, told, failed>>
  BY DEF Watch, tree, kernel
<1>2. PICK task : task = Adding(<<>>)
  OBVIOUS
<1>3. task \in Task /\ task.path = <<>> /\ task.do = "watch"
  BY <1>2, EmptySeq DEF Adding, AddingOrder, Task
<1>4. <<task>> \in Seq(Task) /\ Range(<<task>>) = {task}
  BY <1>3, RangeOfOne
<1>5. TreeSound' /\ WatchesSound'
  BY <1>1, TreeKept, WatchesKept DEF Sound, WatchesSound
<1>6. ThreadsSound'
  BY <1>1, <1>2, <1>4 DEF Sound, ThreadsSound
<1>7. NothingMissed'
  <2>1. ASSUME NEW d \in Dirs, pathOf[d] # Nowhere
        PROVE  WillBeFound(pathOf'[d], Range(tasks'[s]) \cup failed'[s],
                           Range(queue'[s]) \cup Range(buffer'[s]))
    <3>1. pathOf[d] \in Seq(Names)
      BY <2>1 DEF Sound, TreeSound, Paths
    <3>2. Under(<<>>, pathOf[d])
      BY <3>1, EmptySeq, LenProperties DEF Under
    <3>3. tasks'[s] = <<task>>
      BY <1>1, <1>2 DEF Sound, ThreadsSound
    <3>4. QED
      BY <1>1, <1>3, <1>4, <3>2, <3>3 DEF WillBeFound, FoundBy
  <2>2. \A r \in Sessions \ {s} : ses'[r] = ses[r] /\ tasks'[r] = tasks[r]
    BY <1>1
  <2>3. QED
    BY <1>1, <2>1, <2>2, Primed DEF Sound, NothingMissed, Steps
<1>8. QED
  BY <1>5, <1>6, <1>7 DEF Sound

LEMMA HandleEventStep ==
  ASSUME Sound, NEW s \in Sessions, HandleEvent(s)
  PROVE  Sound'
<1>1. PICK e : e = Head(buffer[s])
  OBVIOUS
<1>2. /\ thr[s] = "event" /\ tasks[s] = <<>>
      /\ thr' = [thr EXCEPT ![s] = IF Alive(s)
                                   THEN IF Len(buffer[s]) > 1 THEN "event" ELSE "test"
                                   ELSE "wild"]
      /\ buffer' = [buffer EXCEPT ![s] = Tail(buffer[s])]
      /\ UNCHANGED <<pathOf, wd, queue, dropped, ses, failed>>
  BY DEF HandleEvent, ThreadStep, tree, kernel
<1>3. /\ Alive(s) => /\ \/ told' = told
                        \/ told'.path = EventPath(s, e) /\ told'.truth = e.truth
                     /\ tasks' = IF e.mkdir
                                 THEN [tasks EXCEPT ![s] = <<Adding(EventPath(s, e))>>]
                                 ELSE tasks
      /\ ~Alive(s) => UNCHANGED <<told, tasks>>
  BY <1>1 DEF HandleEvent
<1>4. /\ queue \in [Sessions -> Seq(Event)] /\ buffer \in [Sessions -> Seq(Event)]
      /\ buffer[s] # <<>> /\ buffer[s] \in Seq(Event)
      /\ tasks \in [Sessions -> Seq(Task)]
  BY <1>2 DEF Sound, WatchesSound, ThreadsSound
<1>5. /\ e \in Event /\ e \in Range(buffer[s]) /\ Tail(buffer[s]) \in Seq(Event)
      /\ Range(buffer[s]) = {e} \cup Range(Tail(buffer[s]))
      /\ Len(buffer[s]) \in Nat /\ (Len(buffer[s]) <= 1 <=> Tail(buffer[s]) = <<>>)
  BY <1>1, <1>4, RangeOfTail
<1>6. /\ buffer' \in [Sessions -> Seq(Event)] /\ buffer'[s] = Tail(buffer[s])
      /\ \A r \in Sessions \ {s} : buffer'[r] = buffer[r]
  BY <1>2, <1>4, <1>5
<1>7. EventPath(s, e) = e.truth /\ e.truth \in Seq(Names)
  <2>1. Seen(wd[s], pathOf, e)
    BY <1>5 DEF Sound, WatchesSound
  <2>2. wd[s][e.dir] = pathOf[e.dir]
    BY <1>5, <2>1 DEF Seen, Sound, WatchesSound, Event
  <2>3. QED
    BY <1>5, <2>1, <2>2 DEF EventPath, Seen, Event
<1>8. told'.path = told'.truth
  BY <1>3, <1>7 DEF Sound, WatchesSound
<1>9. TreeSound' /\ WatchesSound'
  BY <1>2, <1>4, <1>5, <1>6, <1>8, TreeKept, WatchesKept DEF Sound
<1>10. PICK task : task = Adding(EventPath(s, e))
  OBVIOUS
<1>11. /\ task \in Task /\ task.path = e.truth /\ task.do = "watch"
       /\ <<task>> \in Seq(Task) /\ Range(<<task>>) = {task}
  <2>1. task \in Task /\ task.path = e.truth /\ task.do = "watch"
    BY <1>7, <1>10 DEF Adding, AddingOrder, Task
  <2>2. QED
    BY <2>1, RangeOfOne
<1>12. /\ tasks' \in [Sessions -> Seq(Task)]
       /\ \A r \in Sessions \ {s} : tasks'[r] = tasks[r]
       /\ Alive(s) /\ e.mkdir => tasks'[s] = <<task>>
  BY <1>3, <1>4, <1>10, <1>11
<1>13. ThreadsSound'
  <2>1. thr' \in [Sessions -> {"none", "test", "read", "event", "gone", "wild"}]
    BY <1>2 DEF Sound, ThreadsSound
  <2>2. ses[s] \notin {"none", "starting"}
    BY <1>2 DEF Sound, ThreadsSound
  <2>3. /\ thr'[s] \in {"none", "test", "read"} => buffer'[s] = <<>>
        /\ thr'[s] = "event" => buffer'[s] # <<>>
        /\ thr'[s] # "none"
    <3>1. thr'[s] = IF Alive(s) THEN IF Len(buffer[s]) > 1 THEN "event" ELSE "test"
                               ELSE "wild"
      BY <1>2 DEF Sound, ThreadsSound
    <3>2. Len(buffer[s]) > 1 <=> Tail(buffer[s]) # <<>>
      BY <1>5
    <3>3. QED
      BY <1>6, <3>1, <3>2
  <2>4. \A r \in Sessions \ {s} : thr'[r] = thr[r]
    BY <1>2
  <2>5. QED
    BY <1>2, <1>6, <1>12, <2>1, <2>2, <2>3, <2>4 DEF Sound, ThreadsSound
<1>14. NothingMissed'
  <2>1. ASSUME ~dropped, ses[s] \in Live, NEW d \in Dirs, pathOf[d] # Nowhere,
               wd[s][d] # pathOf[d]
        PROVE  WillBeFound(pathOf[d], Range(tasks'[s]) \cup failed'[s],
                           Range(queue[s]) \cup Range(buffer'[s]))
    <3>1. Alive(s)
      BY <2>1 DEF Alive, Live
    <3>2. WillBeFound(pathOf[d], failed[s], Range(queue[s]) \cup Range(buffer[s]))
      BY <1>2, <2>1, RangeOfNone DEF Sound, NothingMissed, Steps
    <3>3. CASE \E t \in failed[s] : FoundBy(t, pathOf[d])
      BY <1>2, <3>3 DEF WillBeFound
    <3>4. ASSUME NEW f \in Range(queue[s]) \cup Range(buffer[s]), Announces(f, pathOf[d])
          PROVE  WillBeFound(pathOf[d], Range(tasks'[s]) \cup failed'[s],
                             Range(queue[s]) \cup Range(buffer'[s]))
      <4>1. CASE f = e
        <5>1. e.mkdir /\ Under(e.truth, pathOf[d])
          BY <3>4, <4>1 DEF Announces
        <5>2. task \in Range(tasks'[s])
          BY <1>11, <1>12, <3>1, <5>1
        <5>3. FoundBy(task, pathOf[d])
          BY <1>11, <5>1 DEF FoundBy
        <5>4. QED
          BY <5>2, <5>3 DEF WillBeFound
      <4>2. CASE f # e
        BY <1>5, <1>6, <3>4, <4>2 DEF WillBeFound
      <4>3. QED
        BY <4>1, <4>2
    <3>5. QED
      BY <3>2, <3>3, <3>4 DEF WillBeFound
  <2>2. QED
    BY <1>2, <1>6, <1>12, <2>1, Primed DEF Sound, NothingMissed, Steps
<1>15. QED
  BY <1>9, <1>13, <1>14 DEF Sound

(* linux_add_watch_recursive adds the watch: what is not found by looking
   into other directories is found by looking into this one. *)
LEMMA AddWatchWatches ==
  ASSUME Sound, NEW s \in Sessions, AddWatch(s), Alive(s),
         WatchDirectory(s, Head(tasks[s]))
  PROVE  Sound'
<1>1. PICK task, rest : task = Head(tasks[s]) /\ rest = Tail(tasks[s])
  OBVIOUS
<1>2. PICK scan : scan = [do |-> "scan", path |-> task.path]
  OBVIOUS
<1>3. /\ tasks[s] # <<>> /\ task.do = "watch"
      /\ wd' = [wd EXCEPT ![s] = [d \in Dirs |->
                  IF pathOf[d] = task.path THEN task.path ELSE wd[s][d]]]
      /\ tasks' = [tasks EXCEPT ![s] = <<scan>> \o rest]
      /\ UNCHANGED <<pathOf, queue, buffer, ses, thr, dropped, told, failed>>
  BY <1>1, <1>2 DEF AddWatch, WatchDirectory, Remaining, AddingOrder, tree, kernel
<1>4. /\ tasks \in [Sessions -> Seq(Task)] /\ tasks[s] \in Seq(Task)
      /\ wd \in [Sessions -> [Dirs -> Paths]]
      /\ pathOf \in [Dirs -> Paths]
  BY DEF Sound, TreeSound, WatchesSound, ThreadsSound
<1>5. /\ task \in Task /\ rest \in Seq(Task) /\ task.path \in Seq(Names)
      /\ Range(tasks[s]) = {task} \cup Range(rest)
  <2>1. /\ task \in Task /\ rest \in Seq(Task)
        /\ Range(tasks[s]) = {task} \cup Range(rest)
    BY <1>1, <1>3, <1>4, RangeOfTail
  <2>2. task.path \in Seq(Names)
    BY <2>1 DEF Task
  <2>3. QED
    BY <2>1, <2>2
<1>6. scan \in Task /\ scan.do = "scan" /\ scan.path = task.path
  BY <1>2, <1>5 DEF Task
<1>7. <<scan>> \o rest \in Seq(Task) /\ Range(<<scan>> \o rest) = {scan} \cup Range(rest)
  <2>1. PICK one : one = <<scan>>
    OBVIOUS
  <2>2. one \in Seq(Task) /\ Range(one) = {scan}
    BY <1>6, <2>1, RangeOfOne
  <2>3. one \o rest \in Seq(Task) /\ Range(one \o rest) = Range(one) \cup Range(rest)
    BY <1>5, <2>2, RangeOfTwo
  <2>4. QED
    BY <2>1, <2>2, <2>3
<1>8. /\ tasks' \in [Sessions -> Seq(Task)] /\ tasks'[s] = <<scan>> \o rest
      /\ \A r \in Sessions \ {s} : tasks'[r] = tasks[r] /\ wd'[r] = wd[r]
  BY <1>3, <1>4, <1>7
<1>9. /\ wd' \in [Sessions -> [Dirs -> Paths]]
      /\ \A d \in Dirs : wd'[s][d] = IF pathOf[d] = task.path THEN task.path ELSE wd[s][d]
  BY <1>3, <1>4, <1>5 DEF Paths
<1>10. \A r \in Sessions, d \in Dirs : /\ wd'[r][d] \in {Nowhere, pathOf[d]}
                                     /\ wd[r][d] # Nowhere => wd'[r][d] # Nowhere
  BY <1>5, <1>8, <1>9, NowhereIsNoPath DEF Sound, WatchesSound
<1>11. WatchesSound'
  <2>1. \A r \in Sessions : \A e \in Range(queue[r]) \cup Range(buffer[r]) :
          Seen(wd'[r], pathOf, e)
    BY <1>10 DEF Seen, Event, Sound, WatchesSound
  <2>2. QED
    BY <1>3, <1>9, <1>10, <2>1, Primed DEF Sound, WatchesSound
<1>12. TreeSound'
  BY <1>3, TreeKept DEF Sound
<1>13. ThreadsSound'
  BY <1>3, <1>8 DEF Sound, ThreadsSound
<1>14. NothingMissed'
  <2>1. ASSUME ~dropped, ses[s] \in Live, NEW d \in Dirs, pathOf[d] # Nowhere,
               wd'[s][d] # pathOf[d]
        PROVE  WillBeFound(pathOf[d], Range(tasks'[s]) \cup failed'[s],
                           Range(queue[s]) \cup Range(buffer[s]))
    <3>1. wd[s][d] # pathOf[d] /\ pathOf[d] # task.path
      BY <1>9, <2>1
    <3>2. WillBeFound(pathOf[d], Steps(s), Range(queue[s]) \cup Range(buffer[s]))
      BY <2>1, <3>1 DEF Sound, NothingMissed, Steps
    <3>3. FoundBy(task, pathOf[d]) => FoundBy(scan, pathOf[d])
      <4>1. SUFFICES ASSUME Under(task.path, pathOf[d])
                     PROVE  Len(task.path) < Len(pathOf[d])
        BY <1>6 DEF FoundBy
      <4>2. pathOf[d] \in Seq(Names)
        BY <1>4, <2>1, NowhereIsNoPath
      <4>3. Len(task.path) \in Nat /\ Len(pathOf[d]) \in Nat
        BY <1>5, <4>2, LenProperties
      <4>4. Len(task.path) # Len(pathOf[d])
        <5>1. SUFFICES ASSUME Len(task.path) = Len(pathOf[d]) PROVE FALSE
          OBVIOUS
        <5>2. \A i \in 1 .. Len(task.path) : task.path[i] = pathOf[d][i]
          BY <4>1 DEF Under
        <5>3. task.path = pathOf[d]
          BY <1>5, <4>2, <5>1, <5>2, SeqEqual
        <5>4. QED
          BY <3>1, <5>3
      <4>5. QED
        BY <4>1, <4>3, <4>4 DEF Under
    <3>4. QED
      BY <1>3, <1>5, <1>7, <1>8, <3>2, <3>3 DEF WillBeFound, Steps
  <2>2. QED
    BY <1>3, <1>8, <2>1, Primed DEF Sound, NothingMissed, Steps
<1>15. QED
  BY <1>11, <1>12, <1>13, <1>14 DEF Sound

(* It looks into the directory: whatever is below it is found there or, when
   it is deeper, in a directory that is found there. *)
LEMMA AddWatchScans ==
  ASSUME Sound, NEW s \in Sessions, AddWatch(s), Alive(s),
         ListDirectory(s, Head(tasks[s]))
  PROVE  Sound'
<1>1. PICK task, rest : task = Head(tasks[s]) /\ rest = Tail(tasks[s])
  OBVIOUS
<1>2. PICK Found : Found = {n \in Names : ~Unoccupied(Append(task.path, n))}
  OBVIOUS
<1>3. PICK adding : adding = [n \in Found |-> Adding(Append(task.path, n))]
  OBVIOUS
<1>4. PICK names \in SetToSeqs(Found) :
        tasks' = [tasks EXCEPT ![s] =
                    [i \in DOMAIN names |-> Adding(Append(task.path, names[i]))] \o rest]
  <2>1. Remaining(s) = rest
    BY <1>1 DEF ListDirectory, Remaining, AddingOrder
  <2>2. QED
    BY <1>1, <1>2, <2>1, Zenon DEF ListDirectory
<1>5. /\ tasks[s] # <<>> /\ task.do = "scan"
      /\ UNCHANGED <<wd, pathOf, queue, buffer, ses, thr, dropped, told, failed>>
  BY <1>1 DEF AddWatch, ListDirectory, tree, kernel
<1>6. /\ tasks \in [Sessions -> Seq(Task)] /\ tasks[s] \in Seq(Task)
      /\ pathOf \in [Dirs -> Paths]
  BY DEF Sound, TreeSound, WatchesSound, ThreadsSound
<1>7. /\ task \in Task /\ rest \in Seq(Task) /\ task.path \in Seq(Names)
      /\ Range(tasks[s]) = {task} \cup Range(rest)
  <2>1. /\ task \in Task /\ rest \in Seq(Task)
        /\ Range(tasks[s]) = {task} \cup Range(rest)
    BY <1>1, <1>5, <1>6, RangeOfTail
  <2>2. task.path \in Seq(Names)
    BY <2>1 DEF Task
  <2>3. QED
    BY <2>1, <2>2
<1>8. \A n \in Found : /\ n \in Names /\ adding[n] \in Task /\ adding[n].do = "watch"
                       /\ adding[n].path = Append(task.path, n)
  <2>1. ASSUME NEW n \in Names PROVE Append(task.path, n) \in Seq(Names)
    BY <1>7, <2>1, AppendProperties
  <2>2. QED
    BY <1>2, <1>3, <2>1 DEF Adding, AddingOrder, Task
<1>9. PICK new : new = [i \in DOMAIN names |-> adding[names[i]]]
  OBVIOUS
<1>10. new \in Seq(Task) /\ Range(new) = {adding[n] : n \in Found}
  <2>1. IsFiniteSet(Found)
    BY <1>2, WatcherAssumption, FS_Subset
  <2>2. adding \in [Found -> Task]
    BY <1>3, <1>8
  <2>3. QED
    BY <1>9, <2>1, <2>2, RangeOfEvery
<1>11. tasks' = [tasks EXCEPT ![s] = new \o rest]
  <2>1. \A i \in DOMAIN names : names[i] \in Found
    BY DEF SetToSeqs
  <2>2. \A i \in DOMAIN names : adding[names[i]] = Adding(Append(task.path, names[i]))
    BY <1>3, <2>1
  <2>3. new = [i \in DOMAIN names |-> Adding(Append(task.path, names[i]))]
    BY <1>9, <2>2
  <2>4. QED
    BY <1>4, <2>3
<1>12. new \o rest \in Seq(Task) /\ Range(new \o rest) = Range(new) \cup Range(rest)
  BY <1>7, <1>10, RangeOfTwo
<1>13. /\ tasks' \in [Sessions -> Seq(Task)] /\ tasks'[s] = new \o rest
       /\ \A r \in Sessions \ {s} : tasks'[r] = tasks[r]
  BY <1>6, <1>11, <1>12
<1>14. TreeSound' /\ WatchesSound'
  BY <1>5, TreeKept, WatchesKept DEF Sound, WatchesSound
<1>15. ThreadsSound'
  BY <1>5, <1>13 DEF Sound, ThreadsSound
<1>16. NothingMissed'
  <2>1. ASSUME NEW d \in Dirs, pathOf[d] # Nowhere, FoundBy(task, pathOf[d])
        PROVE  \E t \in Range(new) : FoundBy(t, pathOf[d])
    <3>1. PICK m, k : m = Len(pathOf[d]) /\ k = Len(task.path)
      OBVIOUS
    <3>2. pathOf[d] \in Seq(Names) /\ m \in Nat /\ k \in Nat
      BY <1>6, <1>7, <2>1, <3>1, NowhereIsNoPath, LenProperties
    <3>3. Under(task.path, pathOf[d]) /\ k < m
      BY <1>5, <2>1, <3>1 DEF FoundBy
    <3>4. PICK c \in Dirs : /\ pathOf[c] # Nowhere /\ Len(pathOf[c]) = k + 1
                           /\ Under(pathOf[c], pathOf[d])
      <4>1. CASE k + 1 = m
        BY <2>1, <3>1, <3>2, <4>1, UnderSteps DEF Under
      <4>2. CASE k + 1 # m
        <5>1. k + 1 \in 0 .. m - 1
          BY <3>2, <3>3, <4>2
        <5>2. QED
          BY <2>1, <3>1, <5>1 DEF Sound, TreeSound
      <4>3. QED
        BY <4>1, <4>2
    <3>5. pathOf[c] \in Seq(Names)
      BY <1>6, <3>4, NowhereIsNoPath
    <3>6. PICK n \in Names : pathOf[c] = Append(task.path, n)
      BY <1>7, <3>1, <3>2, <3>3, <3>4, <3>5, StepBelow
    <3>7. n \in Found
      BY <1>2, <3>6 DEF Unoccupied
    <3>8. FoundBy(adding[n], pathOf[d])
      BY <1>8, <3>4, <3>6, <3>7 DEF FoundBy
    <3>9. QED
      BY <1>10, <3>7, <3>8
  <2>2. ASSUME NEW d \in Dirs, pathOf[d] # Nowhere,
               WillBeFound(pathOf[d], Steps(s), Range(queue[s]) \cup Range(buffer[s]))
        PROVE  WillBeFound(pathOf[d], Range(tasks'[s]) \cup failed'[s],
                           Range(queue[s]) \cup Range(buffer[s]))
    BY <1>5, <1>7, <1>12, <1>13, <2>1, <2>2 DEF WillBeFound, Steps
  <2>3. QED
    BY <1>5, <1>13, <2>2, Primed DEF Sound, NothingMissed, Steps
<1>17. QED
  BY <1>14, <1>15, <1>16 DEF Sound

(* The step at hand fails, and what it would have found is excused. *)
LEMMA AddWatchFails ==
  ASSUME Sound, NEW s \in Sessions, AddWatch(s), Alive(s),
         AddingFails(s, Head(tasks[s]))
  PROVE  Sound'
<1>1. PICK task, rest : task = Head(tasks[s]) /\ rest = Tail(tasks[s])
  OBVIOUS
<1>2. PICK next : next = Remaining(s)
  OBVIOUS
<1>3. /\ tasks[s] # <<>>
      /\ failed' = [failed EXCEPT ![s] = failed[s] \cup {task}]
      /\ tasks' = [tasks EXCEPT ![s] = next]
      /\ UNCHANGED <<wd, pathOf, queue, buffer, ses, thr, dropped, told>>
  BY <1>1, <1>2 DEF AddWatch, AddingFails, tree, kernel
<1>4. /\ tasks \in [Sessions -> Seq(Task)] /\ tasks[s] \in Seq(Task)
      /\ failed \in [Sessions -> SUBSET Task]
  BY DEF Sound, ThreadsSound
<1>5. /\ task \in Task /\ rest \in Seq(Task)
      /\ Range(tasks[s]) = {task} \cup Range(rest)
  BY <1>1, <1>3, <1>4, RangeOfTail
<1>6. next \in Seq(Task) /\ Range(rest) \subseteq Range(next)
  <2>1. PICK scan : scan = [do |-> "scan", path |-> task.path]
    OBVIOUS
  <2>2. scan \in Task
    BY <1>5, <2>1 DEF Task
  <2>3. PICK one : one = <<scan>>
    OBVIOUS
  <2>4. one \in Seq(Task)
    BY <2>2, <2>3, RangeOfOne
  <2>5. one \o rest \in Seq(Task) /\ Range(rest) \subseteq Range(one \o rest)
    BY <1>5, <2>4, RangeOfTwo
  <2>6. next = one \o rest \/ next = rest
    BY <1>1, <1>2, <2>1, <2>3 DEF Remaining, AddingOrder
  <2>7. QED
    BY <1>5, <2>5, <2>6
<1>7. /\ tasks' \in [Sessions -> Seq(Task)] /\ tasks'[s] = next
      /\ failed' \in [Sessions -> SUBSET Task] /\ failed'[s] = failed[s] \cup {task}
      /\ \A r \in Sessions \ {s} : tasks'[r] = tasks[r] /\ failed'[r] = failed[r]
  BY <1>3, <1>4, <1>5, <1>6
<1>8. TreeSound' /\ WatchesSound'
  BY <1>3, TreeKept, WatchesKept DEF Sound, WatchesSound
<1>9. ThreadsSound'
  BY <1>3, <1>7 DEF Sound, ThreadsSound
<1>10. NothingMissed'
  <2>1. \A r \in Sessions : Steps(r) \subseteq Range(tasks'[r]) \cup failed'[r]
    BY <1>5, <1>6, <1>7 DEF Steps
  <2>2. QED
    BY <1>3, <2>1, Primed DEF Sound, NothingMissed, WillBeFound
<1>11. QED
  BY <1>8, <1>9, <1>10 DEF Sound

LEMMA AddWatchStep ==
  ASSUME Sound, NEW s \in Sessions, AddWatch(s)
  PROVE  Sound'
<1>1. Alive(s) => \/ WatchDirectory(s, Head(tasks[s])) \/ ListDirectory(s, Head(tasks[s]))
                  \/ AddingFails(s, Head(tasks[s]))
  BY DEF AddWatch
<1>2. CASE Alive(s)
  BY <1>1, <1>2, AddWatchWatches, AddWatchScans, AddWatchFails
<1>3. CASE ~Alive(s)
  <2>1. /\ tasks[s] # <<>> /\ thr' = [thr EXCEPT ![s] = "wild"]
        /\ tasks' = [tasks EXCEPT ![s] = <<>>]
        /\ UNCHANGED <<wd, pathOf, queue, buffer, ses, dropped, told, failed>>
    BY <1>3 DEF AddWatch, tree, kernel
  <2>2. TreeSound' /\ WatchesSound'
    BY <2>1, TreeKept, WatchesKept DEF Sound, WatchesSound
  <2>3. ThreadsSound'
    BY <1>3, <2>1, RangeOfNone DEF Sound, ThreadsSound, Alive
  <2>4. NothingMissed'
    <3>1. ses[s] \notin Live
      BY <1>3 DEF Alive, Live
    <3>2. \A r \in Sessions \ {s} : tasks'[r] = tasks[r]
      BY <2>1
    <3>3. QED
      BY <2>1, <3>1, <3>2, Primed DEF Sound, NothingMissed, Steps
  <2>5. QED
    BY <2>2, <2>3, <2>4 DEF Sound
<1>4. QED
  BY <1>2, <1>3

Queued(d, e) ==
  /\ queue' \in [Sessions -> Seq(Event)]
  /\ \A s \in Sessions :
       /\ Range(queue'[s]) \subseteq Range(queue[s]) \cup {e}
       /\ wd[s][d] = Nowhere => queue'[s] = queue[s]
       /\ wd[s][d] # Nowhere /\ ~dropped' =>
            Range(queue'[s]) = Range(queue[s]) \cup {e}
  /\ ~dropped' => ~dropped

(* The kernel queues an event of d for the sessions that watch d, unless the
   queue is full. *)
LEMMA NotifyOne ==
  ASSUME queue \in [Sessions -> Seq(Event)], NEW d \in Dirs, NEW name \in Names,
         NEW mkdir, NEW e \in Event,
         e = [dir |-> d, name |-> name, mkdir |-> mkdir, truth |-> Append(pathOf[d], name)],
         Notify(d, <<name>>, mkdir)
  PROVE  Queued(d, e)
<1>1. PICK one : one = [i \in DOMAIN <<name>> |->
                         [dir |-> d, name |-> <<name>>[i], mkdir |-> mkdir,
                          truth |-> Append(pathOf[d], <<name>>[i])]]
  OBVIOUS
<1>2. one \in Seq(Event) /\ Range(one) = {e}
  <2>1. DOMAIN <<name>> = 1 .. 1 /\ <<name>>[1] = name
    OBVIOUS
  <2>2. one = [i \in 1 .. 1 |-> [dir |-> d, name |-> <<name>>[i], mkdir |-> mkdir,
                                truth |-> Append(pathOf[d], <<name>>[i])]]
    BY <1>1, <2>1, Zenon
  <2>3. one = [i \in 1 .. 1 |-> e]
    <3>1. \A i \in 1 .. 1 : <<name>>[i] = name
      BY <2>1
    <3>2. \A i \in 1 .. 1 : [dir |-> d, name |-> <<name>>[i], mkdir |-> mkdir,
                             truth |-> Append(pathOf[d], <<name>>[i])] = e
      BY <3>1
    <3>3. QED
      BY <2>2, <3>2
  <2>4. one \in [1 .. 1 -> Event] /\ DOMAIN one = {1} /\ one[1] = e
    BY <2>3
  <2>5. \A n \in Nat : one \in [1 .. n -> Event] => one \in Seq(Event)
    OBVIOUS
  <2>6. one \in Seq(Event)
    BY <2>4, <2>5
  <2>7. \A f : DOMAIN f = {1} => Range(f) = {f[1]}
    BY DEF Range
  <2>8. Range(one) = {one[1]}
    BY <2>4, <2>7, Zenon
  <2>9. QED
    BY <2>4, <2>6, <2>8
<1>3. PICK all : all = [s \in Sessions |-> queue[s] \o one]
  OBVIOUS
<1>4. \A s \in Sessions : /\ all[s] \in Seq(Event) /\ Len(all[s]) \in Nat
                          /\ Range(all[s]) = Range(queue[s]) \cup {e}
  BY <1>2, <1>3, RangeOfTwo, LenProperties
<1>5. \A s \in Sessions :
        queue'[s] = IF wd[s][d] # Nowhere
                    THEN SubSeq(all[s], 1, IF Len(all[s]) > QueueLimit THEN QueueLimit
                                          ELSE Len(all[s]))
                    ELSE queue[s]
  BY <1>1, <1>3 DEF Notify
<1>6. /\ queue' = [s \in Sessions |-> queue'[s]]
      /\ ~dropped' => ~dropped
      /\ ~dropped' => \A s \in Sessions : wd[s][d] # Nowhere => ~ (Len(all[s]) > QueueLimit)
  BY <1>1, <1>3 DEF Notify
<1>7. ASSUME NEW s \in Sessions, NEW n \in 0 .. Len(all[s])
      PROVE  /\ SubSeq(all[s], 1, n) \in Seq(Event)
             /\ Range(SubSeq(all[s], 1, n)) \subseteq Range(all[s])
             /\ n = Len(all[s]) => Range(SubSeq(all[s], 1, n)) = Range(all[s])
  <2>1. PICK a, m : a = all[s] /\ m = Len(all[s])
    OBVIOUS
  <2>2. a \in Seq(Event) /\ m \in Nat /\ m = Len(a) /\ DOMAIN a = 1 .. m /\ n \in 0 .. m
    BY <1>4, <2>1, LenProperties
  <2>3. PICK b : b = SubSeq(a, 1, n)
    OBVIOUS
  <2>4. DOMAIN b = 1 .. n /\ \A i \in 1 .. n : b[i] = a[i] /\ i \in 1 .. m
    BY <2>2, <2>3
  <2>5. b \in Seq(Event)
    BY <2>2, <2>3, <2>4
  <2>6. Range(b) \subseteq Range(a) /\ (n = m => Range(b) = Range(a))
    BY <2>2, <2>4 DEF Range
  <2>7. QED
    BY <2>1, <2>3, <2>5, <2>6
<1>8. ASSUME NEW s \in Sessions
      PROVE  /\ queue'[s] \in Seq(Event)
             /\ Range(queue'[s]) \subseteq Range(queue[s]) \cup {e}
             /\ wd[s][d] = Nowhere => queue'[s] = queue[s]
             /\ wd[s][d] # Nowhere /\ ~dropped' =>
                  Range(queue'[s]) = Range(queue[s]) \cup {e}
  <2>1. CASE wd[s][d] = Nowhere
    BY <1>5, <2>1
  <2>2. CASE wd[s][d] # Nowhere
    <3>1. QueueLimit \in Nat
      BY WatcherAssumption
    <3>2. PICK n : n = IF Len(all[s]) > QueueLimit THEN QueueLimit ELSE Len(all[s])
      OBVIOUS
    <3>3. n \in 0 .. Len(all[s]) /\ (~dropped' => n = Len(all[s]))
      BY <1>4, <1>6, <2>2, <3>1, <3>2
    <3>4. queue'[s] = SubSeq(all[s], 1, n)
      BY <1>5, <2>2, <3>2
    <3>5. QED
      BY <1>4, <1>7, <2>2, <3>3, <3>4
  <2>3. QED
    BY <2>1, <2>2
<1>9. QED
  BY <1>6, <1>8 DEF Queued

LEMMA TouchFileStep ==
  ASSUME Sound, NEW d \in Dirs, NEW name \in Names, TouchFile(d, name)
  PROVE  Sound'
<1>1. /\ pathOf[d] # Nowhere /\ Notify(d, <<name>>, FALSE)
      /\ UNCHANGED <<pathOf, wd, ses, thr, buffer, tasks, told, failed>>
  BY DEF TouchFile
<1>2. /\ pathOf \in [Dirs -> Paths] /\ queue \in [Sessions -> Seq(Event)]
      /\ pathOf[d] \in Seq(Names)
  BY <1>1, NowhereIsNoPath DEF Sound, TreeSound, WatchesSound
<1>3. PICK e : e = [dir |-> d, name |-> name, mkdir |-> FALSE,
                    truth |-> Append(pathOf[d], name)]
  OBVIOUS
<1>4. e \in Event /\ e.dir = d /\ e.name = name /\ e.truth = Append(pathOf[d], name)
  <2>1. Append(pathOf[d], name) \in Seq(Names)
    BY <1>2, AppendProperties
  <2>2. QED
    BY <1>3, <2>1 DEF Event
<1>5. /\ queue' \in [Sessions -> Seq(Event)]
      /\ \A s \in Sessions :
           /\ Range(queue'[s]) \subseteq Range(queue[s]) \cup {e}
           /\ wd[s][d] = Nowhere => queue'[s] = queue[s]
           /\ ~dropped' => Range(queue[s]) \subseteq Range(queue'[s])
      /\ ~dropped' => ~dropped
  <2>1. PICK no : no = FALSE
    OBVIOUS
  <2>2. e = [dir |-> d, name |-> name, mkdir |-> no, truth |-> Append(pathOf[d], name)]
    BY <1>3, <2>1
  <2>3. Notify(d, <<name>>, no)
    BY <1>1, <2>1
  <2>4. Queued(d, e)
    BY <1>2, <1>4, <2>2, <2>3, NotifyOne
  <2>5. QED
    BY <2>4 DEF Queued
<1>6. TreeSound' /\ ThreadsSound'
  BY <1>1, TreeKept DEF Sound, ThreadsSound
<1>7. WatchesSound'
  <2>1. ASSUME NEW s \in Sessions, NEW f \in Range(queue'[s]) \cup Range(buffer[s])
        PROVE  Seen(wd[s], pathOf, f)
    BY <1>4, <1>5 DEF Seen, Sound, WatchesSound
  <2>2. QED
    BY <1>1, <1>5, <2>1, Primed DEF Sound, WatchesSound
<1>8. NothingMissed'
  BY <1>1, <1>5, Primed DEF Sound, NothingMissed, Steps, WillBeFound
<1>9. QED
  BY <1>6, <1>7, <1>8 DEF Sound

(* A new directory is announced to who watches the one it is in; for who does
   not, yet, it will be found where that one will be. *)
LEMMA MakeDirStep ==
  ASSUME Sound, NEW d \in Dirs, NEW parent \in Dirs, NEW name \in Names,
         MakeDir(d, parent, name)
  PROVE  Sound'
<1>1. PICK path, yes : path = Append(pathOf[parent], name) /\ yes = TRUE
  OBVIOUS
<1>2. /\ pathOf[d] = Nowhere /\ pathOf[parent] # Nowhere
      /\ pathOf' = [pathOf EXCEPT ![d] = path]
      /\ Notify(parent, <<name>>, yes)
      /\ UNCHANGED <<wd, ses, thr, buffer, tasks, told, failed>>
  BY <1>1 DEF MakeDir
<1>3. /\ pathOf \in [Dirs -> Paths] /\ queue \in [Sessions -> Seq(Event)]
      /\ pathOf[parent] \in Seq(Names) /\ d # parent
  BY <1>2, NowhereIsNoPath DEF Sound, TreeSound, WatchesSound
<1>4. /\ path \in Seq(Names) /\ Len(path) = Len(pathOf[parent]) + 1
      /\ path # Nowhere /\ Under(pathOf[parent], path) /\ Len(pathOf[parent]) \in Nat
      /\ Under(path, path)
  BY <1>1, <1>3, UnderSteps
<1>5. /\ pathOf' \in [Dirs -> Paths] /\ pathOf'[d] = path
      /\ \A c \in Dirs \ {d} : pathOf'[c] = pathOf[c]
  BY <1>2, <1>3, <1>4 DEF Paths
<1>6. PICK e : e = [dir |-> parent, name |-> name, mkdir |-> yes,
                    truth |-> Append(pathOf[parent], name)]
  OBVIOUS
<1>7. /\ e \in Event /\ e.dir = parent /\ e.mkdir /\ e.truth = path /\ e.name = name
  BY <1>1, <1>4, <1>6 DEF Event
<1>8. /\ queue' \in [Sessions -> Seq(Event)]
      /\ \A s \in Sessions :
           /\ Range(queue'[s]) \subseteq Range(queue[s]) \cup {e}
           /\ wd[s][parent] = Nowhere => queue'[s] = queue[s]
           /\ wd[s][parent] # Nowhere /\ ~dropped' =>
                Range(queue'[s]) = Range(queue[s]) \cup {e}
      /\ ~dropped' => ~dropped
  <2>1. e \in Event /\ Notify(parent, <<name>>, yes) /\ queue \in [Sessions -> Seq(Event)]
    BY <1>2, <1>3, <1>7
  <2>2. Queued(parent, e)
    BY <1>6, <2>1, NotifyOne
  <2>3. QED
    BY <2>2 DEF Queued
<1>9. TreeSound'
  <2>1. ASSUME NEW a \in Dirs, pathOf'[a] # Nowhere, NEW k \in 0 .. Len(pathOf'[a]) - 1
        PROVE  \E c \in Dirs : /\ pathOf'[c] # Nowhere /\ Len(pathOf'[c]) = k
                               /\ Under(pathOf'[c], pathOf'[a])
    <3>1. CASE a # d
      <4>1. PICK c \in Dirs : /\ pathOf[c] # Nowhere /\ Len(pathOf[c]) = k
                             /\ Under(pathOf[c], pathOf[a])
        BY <1>5, <2>1, <3>1 DEF Sound, TreeSound
      <4>2. QED
        BY <1>2, <1>5, <3>1, <4>1
    <3>2. CASE a = d /\ k = Len(pathOf[parent])
      BY <1>2, <1>3, <1>4, <1>5, <3>2
    <3>3. CASE a = d /\ k # Len(pathOf[parent])
      <4>1. k \in 0 .. Len(pathOf[parent]) - 1
        BY <1>4, <1>5, <2>1, <3>3
      <4>2. PICK c \in Dirs : /\ pathOf[c] # Nowhere /\ Len(pathOf[c]) = k
                             /\ Under(pathOf[c], pathOf[parent])
        BY <1>2, <4>1 DEF Sound, TreeSound
      <4>3. pathOf[c] \in Seq(Names)
        BY <1>3, <4>2, NowhereIsNoPath
      <4>4. Under(pathOf[c], path)
        BY <1>3, <1>4, <4>2, <4>3, UnderSteps
      <4>5. QED
        BY <1>2, <1>5, <3>3, <4>2, <4>4
    <3>4. QED
      BY <3>1, <3>2, <3>3
  <2>2. QED
    BY <1>5, <2>1 DEF TreeSound, Under
<1>10. ThreadsSound'
  BY <1>2 DEF Sound, ThreadsSound
<1>11. WatchesSound'
  <2>1. \A s \in Sessions, c \in Dirs : wd[s][c] \in {Nowhere, pathOf'[c]}
    BY <1>2, <1>5 DEF Sound, WatchesSound
  <2>2. ASSUME NEW s \in Sessions, NEW f \in Range(queue'[s]) \cup Range(buffer[s])
        PROVE  Seen(wd[s], pathOf', f)
    <3>1. CASE f \in Range(queue[s]) \cup Range(buffer[s])
      <4>1. Seen(wd[s], pathOf, f)
        BY <3>1 DEF Sound, WatchesSound
      <4>2. f.dir \in Dirs /\ f.dir # d
        <5>1. wd[s][d] = Nowhere
          BY <1>2 DEF Sound, WatchesSound
        <5>2. QED
          BY <4>1, <5>1 DEF Seen, Event
      <4>3. QED
        BY <1>5, <4>1, <4>2 DEF Seen
    <3>2. CASE f \notin Range(queue[s]) \cup Range(buffer[s])
      <4>1. f = e /\ wd[s][parent] # Nowhere
        BY <1>8, <2>2, <3>2
      <4>2. QED
        BY <1>1, <1>3, <1>5, <1>7, <4>1 DEF Seen
    <3>3. QED
      BY <3>1, <3>2
  <2>3. QED
    BY <1>2, <1>8, <2>1, <2>2, Primed DEF Sound, WatchesSound
<1>12. NothingMissed'
  <2>1. ASSUME ~dropped', NEW s \in Sessions, ses[s] \in Live, NEW c \in Dirs,
               pathOf'[c] # Nowhere, wd[s][c] # pathOf'[c]
        PROVE  WillBeFound(pathOf'[c], Steps(s), Range(queue'[s]) \cup Range(buffer[s]))
    <3>1. Range(queue[s]) \subseteq Range(queue'[s]) /\ ~dropped
      BY <1>8, <2>1
    <3>2. CASE c # d
      <4>1. WillBeFound(pathOf[c], Steps(s), Range(queue[s]) \cup Range(buffer[s]))
        BY <1>5, <2>1, <3>1, <3>2 DEF Sound, NothingMissed, Steps
      <4>2. QED
        BY <1>5, <3>1, <3>2, <4>1 DEF WillBeFound
    <3>3. CASE c = d /\ wd[s][parent] # Nowhere
      <4>1. e \in Range(queue'[s])
        BY <1>8, <2>1, <3>3
      <4>2. Announces(e, path)
        BY <1>4, <1>7 DEF Announces
      <4>3. QED
        BY <1>5, <3>3, <4>1, <4>2 DEF WillBeFound
    <3>4. CASE c = d /\ wd[s][parent] = Nowhere
      <4>1. WillBeFound(pathOf[parent], Steps(s), Range(queue[s]) \cup Range(buffer[s]))
        BY <1>2, <2>1, <3>1, <3>4 DEF Sound, NothingMissed, Steps
      <4>2. ASSUME NEW t \in Steps(s), FoundBy(t, pathOf[parent])
            PROVE  FoundBy(t, path)
        <5>1. t \in Task
          BY RangeOf DEF Sound, ThreadsSound, Steps
        <5>2. t.path \in Seq(Names) /\ Len(t.path) \in Nat
          BY <5>1, LenProperties DEF Task
        <5>3. Under(t.path, path)
          BY <1>3, <1>4, <4>2, <5>2, UnderSteps DEF FoundBy
        <5>4. QED
          BY <1>4, <4>2, <5>2, <5>3 DEF FoundBy
      <4>3. ASSUME NEW f \in Range(queue[s]) \cup Range(buffer[s]),
                   Announces(f, pathOf[parent])
            PROVE  Announces(f, path)
        <5>1. f.truth \in Seq(Names)
          BY DEF Sound, WatchesSound, Seen, Event
        <5>2. QED
          BY <1>3, <1>4, <4>3, <5>1, UnderSteps DEF Announces
      <4>4. QED
        BY <1>5, <3>1, <3>4, <4>1, <4>2, <4>3 DEF WillBeFound
    <3>5. QED
      BY <3>2, <3>3, <3>4
  <2>2. QED
    BY <1>2, <2>1, Primed DEF NothingMissed, Steps
<1>13. QED
  BY <1>9, <1>10, <1>11, <1>12 DEF Sound

-----------------------------------------------------------------------------
LEMMA WatcherInvInit == WatcherInit => WatcherInv
<1>1. SUFFICES ASSUME WatcherInit PROVE Sound
  BY DEF WatcherInv
<1>2. <<>> \in Seq(Names) /\ <<>> # Nowhere /\ Len(<<>>) = 0 /\ Range(<<>>) = {}
  BY EmptySeq, RangeOfNone DEF Nowhere
<1>3. TreeSound
  <2>1. pathOf \in [Dirs -> Paths]
    BY <1>1, <1>2 DEF WatcherInit, Paths
  <2>2. \A d \in Dirs : pathOf[d] # Nowhere => Len(pathOf[d]) = 0
    BY <1>1, <1>2 DEF WatcherInit
  <2>3. \A d \in Dirs : pathOf[d] # Nowhere => 0 .. Len(pathOf[d]) - 1 = {}
    BY <2>2
  <2>4. QED
    BY <2>1, <2>3 DEF TreeSound
<1>4. WatchesSound
  <2>1. /\ wd = [s \in Sessions |-> [d \in Dirs |-> Nowhere]]
        /\ queue = [s \in Sessions |-> <<>>] /\ buffer = [s \in Sessions |-> <<>>]
        /\ told.path = told.truth
    BY <1>1 DEF WatcherInit
  <2>2. <<>> \in Seq(Event)
    BY RangeOfNone
  <2>3. /\ wd \in [Sessions -> [Dirs -> Paths]]
        /\ queue \in [Sessions -> Seq(Event)] /\ buffer \in [Sessions -> Seq(Event)]
        /\ \A s \in Sessions, d \in Dirs : wd[s][d] = Nowhere
        /\ \A s \in Sessions : Range(queue[s]) = {} /\ Range(buffer[s]) = {}
    BY <1>2, <2>1, <2>2 DEF Paths
  <2>4. QED
    BY <2>1, <2>3 DEF WatchesSound
<1>5. ThreadsSound
  BY <1>1, RangeOfNone DEF WatcherInit, ThreadsSound
<1>6. NothingMissed
  BY <1>1 DEF WatcherInit, NothingMissed, Live
<1>7. QED
  BY <1>3, <1>4, <1>5, <1>6 DEF Sound

LEMMA WatcherInvStep == WatcherInv /\ [WatcherNext]_watcherVars => WatcherInv'
<1>1. SUFFICES ASSUME WatcherInv, [WatcherNext]_watcherVars, ~moved' PROVE Sound'
  BY DEF WatcherInv
<1>2. ASSUME ~moved PROVE Sound
  BY <1>1, <1>2 DEF WatcherInv
<1>3. ASSUME NEW d \in Dirs, NEW parent \in Dirs, NEW name \in Names, MakeDir(d, parent, name)
      PROVE  Sound'
  BY <1>1, <1>2, <1>3, MakeDirStep DEF MakeDir
<1>4. ASSUME NEW d \in Dirs, NEW parent \in Dirs, NEW name \in Names, Rename(d, parent, name)
      PROVE  Sound'
  BY <1>1, <1>4 DEF Rename
<1>5. ASSUME NEW d \in Dirs, NEW name \in Names, TouchFile(d, name)
      PROVE  Sound'
  BY <1>1, <1>2, <1>5, TouchFileStep DEF TouchFile
<1>6. ASSUME NEW s \in Sessions, Watch(s)
      PROVE  Sound'
  BY <1>1, <1>2, <1>6, WatchStep DEF Watch, tree
<1>7. ASSUME NEW s \in Sessions, ReadEvents(s) \/ HandleEvent(s) \/ AddWatch(s)
      PROVE  Sound'
  <2>1. moved' = moved
    BY <1>7 DEF ReadEvents, HandleEvent, AddWatch, tree
  <2>2. QED
    BY <1>1, <1>2, <1>7, <2>1, ReadEventsStep, HandleEventStep, AddWatchStep
<1>8. ASSUME NEW s \in Sessions,
             \/ WatchFails(s) \/ StartThread(s) \/ ListWatcher(s) \/ TestActive(s)
             \/ Deactivate(s) \/ DeleteWatcher(s)
      PROVE  Sound'
  <2>1. moved' = moved
    BY <1>8 DEF WatchFails, StartThread, ListWatcher, TestActive, Deactivate,
                DeleteWatcher, tree
  <2>2. QED
    BY <1>1, <1>2, <1>8, <2>1, ControlStep
<1>9. ASSUME StopAll \/ StopAllReturns
      PROVE  Sound'
  <2>1. /\ UNCHANGED <<pathOf, wd, queue, buffer, tasks, dropped, told, ses, thr, failed>>
        /\ moved' = moved
    BY <1>9 DEF StopAll, StopAllReturns, tree, kernel
  <2>2. QED
    BY <1>1, <1>2, <2>1, SessionsKept
<1>10. CASE UNCHANGED watcherVars
  <2>1. /\ UNCHANGED <<pathOf, wd, queue, buffer, tasks, dropped, told, ses, thr, failed>>
        /\ moved' = moved
    BY <1>10 DEF watcherVars, tree, kernel
  <2>2. QED
    BY <1>1, <1>2, <2>1, SessionsKept
<1>11. QED
  BY <1>1, <1>3, <1>4, <1>5, <1>6, <1>7, <1>8, <1>9, <1>10 DEF WatcherNext, WatcherThread

(* What the invariant says of a watch that has caught up: nothing is left by
   which a directory could still be found. *)
LEMMA WatcherInvTells == WatcherInv => EveryDirectoryWatched /\ ReportsTruePath
<1>1. SUFFICES ASSUME WatcherInv, ~moved PROVE EveryDirectoryWatched /\ ReportsTruePath
  BY DEF EveryDirectoryWatched, ReportsTruePath
<1>2. Sound
  BY <1>1 DEF WatcherInv
<1>3. ASSUME ~dropped, NEW s \in Sessions, CaughtUp(s), NEW d \in Dirs, pathOf[d] # Nowhere
      PROVE  wd[s][d] = pathOf[d] \/ \E task \in failed[s] : FoundBy(task, pathOf[d])
  <2>1. /\ ses[s] \in Live /\ tasks[s] = <<>> /\ queue[s] = <<>> /\ buffer[s] = <<>>
    BY <1>2, <1>3 DEF CaughtUp, Live, Sound, ThreadsSound
  <2>2. Range(tasks[s]) = {} /\ Range(queue[s]) = {} /\ Range(buffer[s]) = {}
    BY <2>1, RangeOfNone
  <2>3. QED
    BY <1>2, <1>3, <2>1, <2>2 DEF Sound, NothingMissed, Steps, WillBeFound
<1>4. QED
  BY <1>2, <1>3 DEF EveryDirectoryWatched, ReportsTruePath, Sound, WatchesSound

LEMMA WatcherInvHolds == WatcherSpec => []WatcherInv
<1>1. QED
  BY WatcherInvInit, WatcherInvStep, PTL DEF WatcherSpec

(* linux_add_watch_recursive and the handling of a new directory: a watch that
   has caught up watches every directory under its path, however directories
   appeared while others were being added, in a tree of any depth; unless one
   was renamed, the kernel dropped an event, or a step of the adding by which
   that directory was to be found failed. *)
THEOREM DirectoriesWatched == WatcherSpec => []EveryDirectoryWatched
<1>1. QED
  BY WatcherInvHolds, WatcherInvTells, PTL

(* linux_watcher_thread: the path reported for an event is where it happened,
   while no directory is renamed. *)
THEOREM EventsTellTruePath == WatcherSpec => []ReportsTruePath
<1>1. QED
  BY WatcherInvHolds, WatcherInvTells, PTL

=============================================================================
