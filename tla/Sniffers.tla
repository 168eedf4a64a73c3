------------------------------- MODULE Sniffers --------------------------------
(***************************************************************************)
(* RawSocket.hx over the table of packet sniffers of network_native.cpp.   *)
(* Threads share RawSocket objects.  A call reads the object's handle, and *)
(* then looks it up in the table under g_sniffers_mtx, which               *)
(* network_raw_sniffer_read keeps for as long as recv blocks.  The         *)
(* branches of network_raw_sniffer_open for Windows, macOS and Linux make  *)
(* other calls, each of which may fail; what is kept and what is undone is *)
(* the same.                                                               *)
(***************************************************************************)
EXTENDS Integers, FiniteSets

CONSTANTS
  Users,
  MaxSniffers (* bound: calls of RawSocket.create                           *)

ASSUME SniffersAssumption == MaxSniffers \in Nat /\ IsFiniteSet(Users)

Handles == 1 .. MaxSniffers
Nobody == "nobody"

ASSUME NobodyAssumption == Nobody \notin Users

VARIABLES
  call,          (* per thread: what it is doing                            *)
  callArg,       (* per thread: the handle its call is about, 0 when it has none *)
  mtx,           (* g_sniffers_mtx: the thread that holds it, or Nobody     *)
  sniffers,      (* the keys of g_sniffers                                  *)
  snifferId,     (* g_sniffer_id                                            *)
  made,          (* bound: calls of create so far                           *)
  valid,         (* handles of the RawSocket objects that have not been reset *)
  asked,         (* history: handles some thread has called close on        *)
  snifferAllocs, (* g_active_allocations, as far as sniffers count in it    *)
  sockets        (* open sockets                                            *)

snifferCounts == <<snifferAllocs, sockets>>
sniffersVars == <<call, callArg, mtx, sniffers, snifferId, made, valid, asked,
                  snifferCounts>>

SniffersInit ==
  /\ call = [t \in Users |-> "idle"] /\ callArg = [t \in Users |-> 0]
  /\ mtx = Nobody
  /\ sniffers = {} /\ snifferId = 1 /\ made = 0
  /\ valid = {} /\ asked = {}
  /\ snifferAllocs = 0 /\ sockets = 0

GoesOn(t, from, to) == call[t] = from /\ call' = [call EXCEPT ![t] = to]

(* new RawSniffer, then socket(): a failure deletes the sniffer again. *)
Create(t) ==
  /\ made < MaxSniffers /\ made' = made + 1
  /\ \/ /\ GoesOn(t, "idle", "opening")
        /\ snifferAllocs' = snifferAllocs + 1 /\ sockets' = sockets + 1
     \/ /\ call[t] = "idle"
        /\ UNCHANGED <<call, snifferCounts>>
  /\ UNCHANGED <<callArg, mtx, sniffers, snifferId, valid, asked>>

(* Mutant: the socket of a sniffer that cannot be bound stays open. *)
OpenFailsKeepsSocket(t) ==
  /\ GoesOn(t, "opening", "idle")
  /\ snifferAllocs' = snifferAllocs - 1
  /\ UNCHANGED <<callArg, mtx, sniffers, snifferId, made, valid, asked, sockets>>

(* SIOCGIFINDEX or bind fails. *)
OpenFails(t) ==
  /\ GoesOn(t, "opening", "idle")
  /\ snifferAllocs' = snifferAllocs - 1 /\ sockets' = sockets - 1
  /\ UNCHANGED <<callArg, mtx, sniffers, snifferId, made, valid, asked>>

(* Mutant: the smallest free handle is given out again. *)
RegisterReusing(t) ==
  LET id == CHOOSE i \in Handles : /\ i \notin sniffers
                                   /\ \A j \in 1 .. i - 1 : j \in sniffers
  IN /\ GoesOn(t, "opening", "idle")
     /\ mtx = Nobody
     /\ snifferId' = snifferId + 1
     /\ sniffers' = sniffers \cup {id}
     /\ valid' = valid \cup {id} /\ asked' = asked \ {id}
     /\ UNCHANGED <<callArg, mtx, made, snifferCounts>>

(* The sniffer gets the next handle; RawSocket.create returns the object. *)
Register(t) ==
  /\ GoesOn(t, "opening", "idle")
  /\ mtx = Nobody
  /\ snifferId' = snifferId + 1
  /\ sniffers' = sniffers \cup {snifferId}
  /\ valid' = valid \cup {snifferId}
  /\ UNCHANGED <<callArg, mtx, made, asked, snifferCounts>>

(* readPacket and close read the handle before the native call locks. *)
CallRead(t, h) ==
  /\ h \in valid
  /\ GoesOn(t, "idle", "read") /\ callArg' = [callArg EXCEPT ![t] = h]
  /\ UNCHANGED <<mtx, sniffers, snifferId, made, valid, asked, snifferCounts>>

CallClose(t, h) ==
  /\ h \in valid
  /\ GoesOn(t, "idle", "close") /\ callArg' = [callArg EXCEPT ![t] = h]
  /\ asked' = asked \cup {h}
  /\ UNCHANGED <<mtx, sniffers, snifferId, made, valid, snifferCounts>>

(* Mutant: the mutex is dropped before recv. *)
ReadBeginsUnlocked(t) ==
  /\ call[t] = "read" /\ mtx = Nobody
  /\ IF callArg[t] \in sniffers
     THEN call' = [call EXCEPT ![t] = "recv"] /\ UNCHANGED callArg
     ELSE call' = [call EXCEPT ![t] = "idle"] /\ callArg' = [callArg EXCEPT ![t] = 0]
  /\ UNCHANGED <<mtx, sniffers, snifferId, made, valid, asked, snifferCounts>>

(* network_raw_sniffer_read up to recv; -1 for a handle that is gone. *)
ReadBegins(t) ==
  /\ call[t] = "read" /\ mtx = Nobody
  /\ IF callArg[t] \in sniffers
     THEN call' = [call EXCEPT ![t] = "recv"] /\ mtx' = t /\ UNCHANGED callArg
     ELSE /\ call' = [call EXCEPT ![t] = "idle"] /\ callArg' = [callArg EXCEPT ![t] = 0]
          /\ UNCHANGED mtx
  /\ UNCHANGED <<sniffers, snifferId, made, valid, asked, snifferCounts>>

(* recv returns: a packet arrived. *)
ReadEnds(t) ==
  /\ GoesOn(t, "recv", "idle") /\ callArg' = [callArg EXCEPT ![t] = 0]
  /\ mtx' = IF mtx = t THEN Nobody ELSE mtx
  /\ UNCHANGED <<sniffers, snifferId, made, valid, asked, snifferCounts>>

(* network_raw_sniffer_close. *)
CloseNative(t) ==
  /\ GoesOn(t, "close", "closed")
  /\ mtx = Nobody
  /\ IF callArg[t] \in sniffers
     THEN /\ sniffers' = sniffers \ {callArg[t]}
          /\ snifferAllocs' = snifferAllocs - 1 /\ sockets' = sockets - 1
     ELSE UNCHANGED <<sniffers, snifferCounts>>
  /\ UNCHANGED <<callArg, mtx, snifferId, made, valid, asked>>

(* RawSocket.close resets the object's handle after the native call. *)
CloseReturns(t) ==
  /\ GoesOn(t, "closed", "idle") /\ callArg' = [callArg EXCEPT ![t] = 0]
  /\ valid' = valid \ {callArg[t]}
  /\ UNCHANGED <<mtx, sniffers, snifferId, made, asked, snifferCounts>>

(* What a thread's user starts, and what then happens by itself. *)
StartCall(t) ==
  \/ Create(t)
  \/ \E h \in Handles : CallRead(t, h) \/ CallClose(t, h)
InsideCall(t) == OpenFails(t) \/ Register(t) \/ ReadBegins(t) \/ CloseNative(t)
                 \/ CloseReturns(t)

SniffersNext == \E t \in Users : StartCall(t) \/ InsideCall(t) \/ ReadEnds(t)

SniffersSpec == SniffersInit /\ [][SniffersNext]_sniffersVars

-----------------------------------------------------------------------------
(* The type invariant. *)
SnifferTypeOK ==
  /\ call \in [Users -> {"idle", "opening", "read", "recv", "close", "closed"}]
  /\ snifferId \in Nat \ {0} /\ made \in 0 .. MaxSniffers
  /\ callArg \in [Users -> 0 .. snifferId - 1]
  /\ mtx \in Users \cup {Nobody}
  /\ sniffers \subseteq 1 .. snifferId - 1
  /\ valid \cup asked \subseteq 1 .. snifferId - 1
  /\ snifferAllocs \in Int /\ sockets \in Int

Opening == {t \in Users : call[t] = "opening"}

(* Every sniffer and every socket is in the table or in the hands of the
   thread that is opening it: no error path of open and no double close loses
   one or counts it twice. *)
SniffersAccounted ==
  /\ snifferAllocs = Cardinality(sniffers) + Cardinality(Opening)
  /\ sockets = snifferAllocs

(* A sniffer nobody asked to close stays usable: a thread that closes a
   handle another thread has closed in the meantime does not hit a third
   sniffer, because handles are not reused. *)
OthersUnharmed == \A h \in valid \ asked : h \in sniffers

(* recv never runs on a socket that is closed, nor uses a deleted sniffer. *)
RecvOnOpenSniffer == \A t \in Users : call[t] = "recv" => callArg[t] \in sniffers
=============================================================================
