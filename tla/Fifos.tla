--------------------------------- MODULE Fifos ---------------------------------
(***************************************************************************)
(* Fifo.hx and Selector.hx over fifo_native.cpp (POSIX branch).  Several   *)
(* objects, each used by one thread of some process, open the two ends of  *)
(* one FIFO.  readAll is a loop of reads, between which writers write and  *)
(* close; bytes are counted, as the kernel keeps them in order.            *)
(***************************************************************************)
EXTENDS Naturals, FiniteSets

CONSTANTS
  Fifos,    (* Fifo objects                                                 *)
  Capacity, (* of the pipe; and PIPE_BUF, up to which a write is atomic     *)
  PipeBuf,
  Chunk,    (* the length of the buffer of readAll                          *)
  MaxOpens, (* bound: calls of open                                         *)
  MaxBytes  (* bound: bytes written                                         *)

ASSUME FifosAssumption ==
  {Capacity, PipeBuf, Chunk, MaxOpens, MaxBytes} \subseteq Nat \ {0}

Files == 1 .. MaxOpens

VARIABLES
  fd,        (* per object: the open file its handle stands for, 0 if none  *)
  end,       (* per open file: unused, read, write or closed                *)
  blocking,  (* the open files without O_NONBLOCK                           *)
  reading,   (* the objects whose readAll has not returned                  *)
  soFar,     (* per object: bytes readAll has in its buffer                 *)
  inPipe, written, returned, gone (* bytes in the pipe; history: that    *)
             (* write took, that read and readAll returned, that were lost
                when the last end was closed                                *)

bytes == <<inPipe, written, returned, gone>>
fifosVars == <<fd, end, blocking, reading, soFar, bytes>>

FifosInit ==
  /\ fd = [o \in Fifos |-> 0] /\ end = [f \in Files |-> "unused"]
  /\ blocking = {} /\ reading = {} /\ soFar = [o \in Fifos |-> 0]
  /\ inPipe = 0 /\ written = 0 /\ returned = 0 /\ gone = 0

Ends(kind) == {f \in Files : end[f] = kind}
IsOpen(o, kind) == fd[o] # 0 /\ end[fd[o]] = kind
Space == Capacity - inPipe
Least(m, n) == IF m < n THEN m ELSE n

(* A writer is refused (ENXIO) while nobody reads: handle 0.  An object that is
   open forgets the file it had, which stays open. *)
OpenFifo(o, kind) ==
  LET f == Cardinality({g \in Files : end[g] # "unused"}) + 1
      refused == kind = "write" /\ Ends("read") = {}
  IN /\ o \notin reading /\ f \in Files
     /\ fd' = [fd EXCEPT ![o] = IF refused THEN 0 ELSE f]
     /\ end' = IF refused THEN end ELSE [end EXCEPT ![f] = kind]
     /\ UNCHANGED <<blocking, reading, soFar, bytes>>

SetBlocking(o, to) ==
  /\ fd[o] # 0 /\ o \notin reading
  /\ blocking' = IF to THEN blocking \cup {fd[o]} ELSE blocking \ {fd[o]}
  /\ UNCHANGED <<fd, end, reading, soFar, bytes>>

CloseFifo(o) ==
  /\ fd[o] # 0 /\ o \notin reading
  /\ fd' = [fd EXCEPT ![o] = 0]
  /\ end' = [end EXCEPT ![fd[o]] = "closed"]
  /\ blocking' = blocking \ {fd[o]}
  /\ IF Ends("read") \cup Ends("write") = {fd[o]}
     THEN inPipe' = 0 /\ gone' = gone + inPipe
     ELSE UNCHANGED <<inPipe, gone>>
  /\ UNCHANGED <<reading, soFar, written, returned>>

(* The bytes that a write of n takes: all or none up to PIPE_BUF, else those
   that fit; none is Error.Blocked, or waiting; without readers it fails. *)
Taken(n) ==
  IF Space >= n THEN n ELSE IF n <= PipeBuf THEN 0 ELSE Space

WriteFifo(o, n) ==
  /\ IsOpen(o, "write") /\ Ends("read") # {}
  /\ n \in 1 .. MaxBytes - written /\ Taken(n) > 0
  /\ inPipe' = inPipe + Taken(n) /\ written' = written + Taken(n)
  /\ UNCHANGED <<fd, end, blocking, reading, soFar, returned, gone>>

ReadFifo(o, n) ==
  /\ IsOpen(o, "read") /\ o \notin reading
  /\ n \in 1 .. inPipe
  /\ inPipe' = inPipe - n /\ returned' = returned + n
  /\ UNCHANGED <<fd, end, blocking, reading, soFar, written, gone>>

CallReadAll(o) ==
  /\ o \notin reading /\ reading' = reading \cup {o}
  /\ UNCHANGED <<fd, end, blocking, soFar, bytes>>

ReadMore(o) ==
  /\ o \in reading /\ IsOpen(o, "read") /\ inPipe > 0
  /\ soFar' = [soFar EXCEPT ![o] = @ + Least(Chunk, inPipe)]
  /\ inPipe' = inPipe - Least(Chunk, inPipe)
  /\ UNCHANGED <<fd, end, blocking, reading, written, returned, gone>>

(* Mutant: Error.Blocked leaves readAll with what it has read. *)
ReadAllThrows(o) ==
  /\ o \in reading
  /\ IsOpen(o, "read") =>
       inPipe = 0 /\ (Ends("write") = {} \/ fd[o] \notin blocking)
  /\ reading' = reading \ {o}
  /\ returned' = returned + (IF Ends("write") = {} THEN soFar[o] ELSE 0)
  /\ soFar' = [soFar EXCEPT ![o] = 0]
  /\ UNCHANGED <<fd, end, blocking, inPipe, written, gone>>

(* Mutant: readAll goes on at the end of the file. *)
ReadAllIgnoresEnd(o) ==
  /\ o \in reading
  /\ IsOpen(o, "read") =>
       inPipe = 0 /\ Ends("write") # {} /\ fd[o] \notin blocking
  /\ reading' = reading \ {o}
  /\ returned' = returned + soFar[o] /\ soFar' = [soFar EXCEPT ![o] = 0]
  /\ UNCHANGED <<fd, end, blocking, inPipe, written, gone>>

(* The end of the file (no bytes and no writer), Blocked, or an error: of a
   handle that is invalid or the writing end. *)
ReadAllReturns(o) ==
  /\ o \in reading
  /\ IsOpen(o, "read") =>
       inPipe = 0 /\ (Ends("write") = {} \/ fd[o] \notin blocking)
  /\ reading' = reading \ {o}
  /\ returned' = returned + soFar[o] /\ soFar' = [soFar EXCEPT ![o] = 0]
  /\ UNCHANGED <<fd, end, blocking, inPipe, written, gone>>

ReadAllStep(o) == ReadMore(o) \/ ReadAllReturns(o)

FifosNext == \E o \in Fifos :
  \/ \E kind \in {"read", "write"} : OpenFifo(o, kind)
  \/ \E to \in BOOLEAN : SetBlocking(o, to)
  \/ CloseFifo(o)
  \/ \E n \in 1 .. MaxBytes : WriteFifo(o, n) \/ ReadFifo(o, n)
  \/ CallReadAll(o) \/ ReadAllStep(o)

FifosSpec == FifosInit /\ [][FifosNext]_fifosVars

-----------------------------------------------------------------------------
(* Selector.select, the moment poll returns: what it asked for. *)
(* Mutant: the second list overwrites the events of an object in both. *)
AskedLast(o, forRead, forWrite) ==
  IF o \in forWrite THEN {"OUT"} ELSE {"IN"}

Asked(o, forRead, forWrite) ==
  (IF o \in forRead THEN {"IN"} ELSE {}) \cup (IF o \in forWrite THEN {"OUT"} ELSE {})

(* What poll reports; ERR and HUP whether asked for or not. *)
Revents(o, asked) ==
  (IF IsOpen(o, "read")
   THEN (IF inPipe > 0 THEN {"IN"} \cap asked ELSE {})
          \cup (IF Ends("write") = {} THEN {"HUP"} ELSE {})
   ELSE (IF Space >= PipeBuf THEN {"OUT"} \cap asked ELSE {})
          \cup (IF Ends("read") = {} THEN {"ERR"} ELSE {}))

ReadyRead(forRead, forWrite) ==
  {o \in forRead \cup forWrite :
     fd[o] # 0 /\ Revents(o, Asked(o, forRead, forWrite)) \cap {"IN", "ERR"} # {}}

ReadyWrite(forRead, forWrite) ==
  {o \in forRead \cup forWrite :
     fd[o] # 0 /\ "OUT" \in Revents(o, Asked(o, forRead, forWrite))}

-----------------------------------------------------------------------------
(* Whatever the writers do between the reads of readAll, and however it ends,
   every byte that write took is in the pipe, was returned, or was in the pipe
   when the last end was closed. *)
BytesConserved ==
  /\ inPipe <= Capacity
  /\ written = inPipe + returned + gone
                 + Cardinality({p \in Fifos \X (1 .. MaxBytes) : p[2] <= soFar[p[1]]})

(* readAll returns, if bytes stop coming, unless the object is in blocking mode
   and some writer's end is open, be it that of an object that was opened again
   and has forgotten it. *)
ReadAllEnds ==
  \A o \in Fifos :
    o \in reading ~> (o \notin reading \/ (fd[o] \in blocking /\ Ends("write") # {}))

(* select misses no object that it was asked about and that has bytes or
   space, whether it is in one of the lists or in both.  A read of an object
   that is reported as readable, or a write of one byte to one that is
   reported as writable, does not block.  The converse fails: the end of the
   file is a HUP, which select does not report. *)
SelectExact ==
  \A forRead, forWrite \in SUBSET Fifos :
    /\ \A o \in forRead : IsOpen(o, "read") /\ inPipe > 0
                            => o \in ReadyRead(forRead, forWrite)
    /\ \A o \in forWrite : IsOpen(o, "write") /\ Space >= PipeBuf
                             => o \in ReadyWrite(forRead, forWrite)
    /\ \A o \in ReadyRead(forRead, forWrite) : IsOpen(o, "read") => inPipe > 0
    /\ \A o \in ReadyWrite(forRead, forWrite) : IsOpen(o, "write") /\ Space > 0
=============================================================================
