------------------------------ MODULE AsyncFiles ------------------------------
(***************************************************************************)
(* AsyncFile.hx with the descriptors it opens and closes (io_native.cpp)   *)
(* and the NativeBuffers its requests point to.  The loop that carries the *)
(* requests is NativeLoop's; here a request waits, is performed by a read  *)
(* or write of the number it was given, and is called back.  A request     *)
(* holds a descriptor number and an address, not an object: the kernel     *)
(* gives numbers out again, and the collector finalizes a buffer that      *)
(* nothing in Haxe refers to.  malloc does not fail.                       *)
(***************************************************************************)
EXTENDS Integers, FiniteSets, Sequences

CONSTANTS
  Fds,         (* descriptors; 0 is the standard input                      *)
  MaxFiles,    (* bound: calls of AsyncFile.open                            *)
  MaxBuffers,  (* bound: NativeBuffers ever made                            *)
  MaxTransfers (* bound: requests ever submitted                            *)

ASSUME AsyncFilesAssumption ==
  /\ 0 \in Fds /\ Fds \subseteq Nat
  /\ {MaxFiles, MaxBuffers, MaxTransfers} \subseteq Nat

Closed == 0          (* the null handle, and descriptor 0 at once           *)
Refused == -1        (* what open() returns when it fails                   *)
NoFile == 0
Stdin == MaxFiles + 1

VARIABLES
  openOn,      (* per descriptor: which open() it comes from, NoFile if none *)
  fileHandle,  (* per AsyncFile: _handle                                    *)
  wasClosed,   (* history: the AsyncFiles that were closed                  *)
  heap,        (* the buffers that are allocated: all but the freed ones    *)
  buffersMade, (* bound: buffers made so far                                *)
  inUse,       (* the buffers the client refers to                          *)
  requested,   (* per request: operation, AsyncFile, descriptor number, buffer,
                  how far it is, and the file it was performed on           *)
  carrierOpen, (* the loop is open                                          *)
  bufferAllocs (* g_active_allocations, as far as buffers count in it       *)

descriptors == <<openOn, fileHandle, wasClosed>>
buffers == <<heap, buffersMade, inUse, bufferAllocs>>
asyncFilesVars == <<descriptors, buffers, requested, carrierOpen>>

AsyncFilesInit ==
  /\ openOn = [d \in Fds |-> IF d = 0 THEN Stdin ELSE NoFile]
  /\ fileHandle = <<>> /\ wasClosed = {}
  /\ heap = {} /\ buffersMade = 0 /\ inUse = {} /\ bufferAllocs = 0
  /\ requested = <<>> /\ carrierOpen = TRUE

AsyncFilesMade == DOMAIN fileHandle
FileOn(d) == IF d \in Fds THEN openOn[d] ELSE NoFile

(* IO.openFile: the lowest number that is free, or -1, which makes a valid
   handle as well; only 0 makes AsyncFile.open answer null. *)
OpenFile ==
  LET n == Len(fileHandle) + 1
      free == {d \in Fds : openOn[d] = NoFile}
  IN /\ n <= MaxFiles
     /\ \E d \in free \cup {Refused} :
          /\ d # Refused => \A e \in free : d <= e
          /\ fileHandle' = Append(fileHandle, d)
          /\ openOn' = [e \in Fds |-> IF e = d THEN n ELSE openOn[e]]
     /\ UNCHANGED <<wasClosed, buffers, requested, carrierOpen>>

(* io_close_file: the number is free again; a call that is in the kernel keeps
   the file it has. *)
CloseDescriptor(fd) == openOn' = [d \in Fds |-> IF d = fd THEN NoFile ELSE openOn[d]]

(* Mutant: close does not forget the handle. *)
CloseFileAgain(n) ==
  /\ fileHandle[n] # Closed
  /\ CloseDescriptor(fileHandle[n])
  /\ wasClosed' = wasClosed \cup {n}
  /\ UNCHANGED <<fileHandle, buffers, requested, carrierOpen>>

(* AsyncFile.close, with requests in flight or without *)
CloseFile(n) ==
  /\ fileHandle[n] # Closed
  /\ CloseDescriptor(fileHandle[n])
  /\ fileHandle' = [fileHandle EXCEPT ![n] = Closed]
  /\ wasClosed' = wasClosed \cup {n}
  /\ UNCHANGED <<buffers, requested, carrierOpen>>

-----------------------------------------------------------------------------
(* new NativeBuffer *)
NewBuffer ==
  /\ buffersMade < MaxBuffers /\ buffersMade' = buffersMade + 1
  /\ heap' = heap \cup {buffersMade'} /\ bufferAllocs' = bufferAllocs + 1

MakeBuffer ==
  /\ NewBuffer
  /\ inUse' = inUse \cup {buffersMade'}
  /\ UNCHANGED <<descriptors, requested, carrierOpen>>

(* NativeBuffer.free, whose second call does nothing *)
FreeNative(b) ==
  IF b \in heap THEN heap' = heap \ {b} /\ bufferAllocs' = bufferAllocs - 1
                ELSE UNCHANGED <<heap, bufferAllocs>>

FreeBuffer(b) ==
  /\ b \in inUse
  /\ FreeNative(b)
  /\ UNCHANGED <<descriptors, buffersMade, inUse, requested, carrierOpen>>

(* The client's last reference goes. *)
DropBuffer(b) ==
  /\ b \in inUse /\ inUse' = inUse \ {b}
  /\ UNCHANGED <<descriptors, heap, buffersMade, bufferAllocs, requested, carrierOpen>>

(* Mutant: the callback of read does not hold the buffer. *)
ReferredToByClient == inUse

(* What the collector reaches: what the client has, and the buffers of reads
   whose callback is in _requests, also after the loop is closed.  A write's
   callback is the client's own and holds nothing. *)
ReferredTo ==
  inUse \cup {requested[r].buf :
                r \in {q \in DOMAIN requested :
                         requested[q].op = "read" /\ requested[q].at # "over"}}

(* The collector finalizes a buffer, at any time. *)
FinalizeBuffer(b) ==
  /\ b \in heap \ ReferredTo
  /\ FreeNative(b)
  /\ UNCHANGED <<descriptors, buffersMade, inUse, requested, carrierOpen>>

-----------------------------------------------------------------------------
(* A request that was refused or called back *)
Over == [op |-> "none", file |-> 0, fd |-> 0, buf |-> 0, at |-> "over", on |-> NoFile]

(* A request gets a number and an address.  A number that is open on nothing is
   refused or, when the st_mode that fstat did not write says so, queued. *)
Submit(op, n, b) ==
  /\ carrierOpen /\ Len(requested) < MaxTransfers
  /\ \/ requested' = Append(requested,
            [op |-> op, file |-> n, fd |-> fileHandle[n], buf |-> b,
             at |-> "waits", on |-> NoFile])
     \/ FileOn(fileHandle[n]) = NoFile /\ requested' = Append(requested, Over)

(* AsyncFile.read makes the buffer; nobody else has it until the callback.  read
   and write do not look whether the file was closed. *)
ReadFile(n) ==
  /\ NewBuffer
  /\ Submit("read", n, buffersMade')
  /\ UNCHANGED <<descriptors, inUse, carrierOpen>>

(* The client has not freed the buffer: _getPointer would not notice. *)
WriteFile(n, b) ==
  /\ b \in inUse \cap heap
  /\ Submit("write", n, b)
  /\ UNCHANGED <<descriptors, buffers, carrierOpen>>

(* A worker calls read or write, in any order of the requests: the number
   stands for what is open on it now, which the call then keeps. *)
PerformRequest(r) ==
  /\ requested[r].at = "waits" /\ carrierOpen
  /\ requested' = [requested EXCEPT ![r].at = "transfers",
                                   ![r].on = FileOn(requested[r].fd)]
  /\ UNCHANGED <<descriptors, buffers, carrierOpen>>

RequestDone(r) ==
  /\ requested[r].at = "transfers"
  /\ requested' = [requested EXCEPT ![r].at = "done"]
  /\ UNCHANGED <<descriptors, buffers, carrierOpen>>

(* poll calls back: the client gets what was read, the entry of _requests goes. *)
CallBack(r) ==
  /\ requested[r].at = "done" /\ carrierOpen
  /\ requested' = [requested EXCEPT ![r] = Over]
  /\ inUse' = IF requested[r].op = "read" THEN inUse \cup {requested[r].buf} ELSE inUse
  /\ UNCHANGED <<descriptors, heap, buffersMade, bufferAllocs, carrierOpen>>

(* The loop is closed: the calls of the workers have returned, what waits and
   what is done is dropped, its callbacks stay registered for ever. *)
CloseCarrier ==
  /\ carrierOpen /\ carrierOpen' = FALSE
  /\ \A r \in DOMAIN requested : requested[r].at # "transfers"
  /\ UNCHANGED <<descriptors, buffers, requested>>

AsyncFilesNext ==
  \/ OpenFile \/ MakeBuffer \/ CloseCarrier
  \/ \E n \in AsyncFilesMade :
       CloseFile(n) \/ ReadFile(n) \/ \E b \in inUse : WriteFile(n, b)
  \/ \E b \in inUse : FreeBuffer(b) \/ DropBuffer(b)
  \/ \E b \in heap : FinalizeBuffer(b)
  \/ \E r \in DOMAIN requested : PerformRequest(r) \/ RequestDone(r) \/ CallBack(r)

AsyncFilesSpec == AsyncFilesInit /\ [][AsyncFilesNext]_asyncFilesVars

-----------------------------------------------------------------------------
(* A buffer of AsyncFile.read is allocated as long as the native side may write
   to it, although all the native side has is an address and the collector runs
   at any time; and a buffer that is freed and finalized is counted off once.
   Of a write nothing of the kind holds: its callback does not refer to the
   buffer. *)
BuffersOutliveRequests ==
  /\ \A r \in DOMAIN requested :
       LET q == requested[r]
       IN (q.at = "transfers" \/ (q.at = "waits" /\ carrierOpen)) /\ q.op = "read"
            => q.buf \in heap
  /\ bufferAllocs = Cardinality(heap)

(* A request reads and writes the file of its AsyncFile and no other, or fails,
   unless that AsyncFile was closed before the request was performed: no close
   of one file, not even a second one, hits a number that another file has got. *)
RequestsKeepTheirFile ==
  \A r \in DOMAIN requested :
    requested[r].on \in {NoFile, requested[r].file}
      \/ requested[r].file \in wasClosed
=============================================================================
