-------------------------- MODULE NativeLoopProofs ---------------------------
(***************************************************************************)
(* Theorems about NativeLoop, for every pool, every number of descriptors  *)
(* and requests and every capacity of the self-pipe: types, the self-pipe  *)
(* protocol that no completion gets lost in, who holds a request, who      *)
(* calls it back and who frees it; and, from these, that the loop          *)
(* implements AsyncEngine.                                                 *)
(***************************************************************************)
EXTENDS NativeLoop, FiniteSetTheorems, SequenceTheorems, TLAPS

-----------------------------------------------------------------------------
(***************************************************************************)
(* Types and control; the self-pipe.                                       *)
(***************************************************************************)

(* Which local state goes with which place in the code. *)
Control ==
  /\ \A w \in Workers : wreq[w] # Null <=> wpc[w] = "io"
  /\ cur # Null <=> InCallback
  /\ opc \notin {"events", "drained", "deliver", "fileCallback",
                 "streamCallback"} => batch = {}
  /\ \A w \in Workers : wpc[w] = "unborn" <=> opc \in {"new", "failed"}

-----------------------------------------------------------------------------
(***************************************************************************)
(* Types and control.                                                      *)
(***************************************************************************)
LEMMA TypedInit == Init => TypeOK /\ Control
<1> SUFFICES ASSUME Init PROVE TypeOK /\ Control
  OBVIOUS
<1> USE NativeLoopAssumption DEF Init
<1>1. queue \in Seq(Ids) /\ completed \in Seq(Ids)
  BY EmptySeq
<1>2. nextId \in 1 .. MaxRequests + 1 /\ pipe \in 0 .. PipeCapacity
  OBVIOUS
<1>3. wpc \in [Workers -> WorkerPcs] /\ opc \in OwnerPcs
  BY DEF WorkerPcs, OwnerPcs
<1>4. calls \in [Ids -> Nat]
  OBVIOUS
<1>5. Control
  BY DEF Control, InCallback
<1>6. wreq \in [Workers -> Ids \cup {Null}] /\ armed \in [StreamFds -> Ids \cup {Null}]
  OBVIOUS
<1>7. allocs \in Int /\ cur \in Ids \cup {Null} /\ batch \subseteq Ids \cup {SelfPipe}
  OBVIOUS
<1>8. /\ requests \subseteq Ids /\ live \subseteq Ids /\ isFile \subseteq Ids
      /\ fdOf \in [Ids -> Fds \cup {NoFd}] /\ stop \in BOOLEAN
  OBVIOUS
<1>9. QED
  BY <1>1, <1>2, <1>3, <1>4, <1>5, <1>6, <1>7, <1>8 DEF TypeOK

LEMMA TypedStep == TypeOK /\ Control /\ [Next]_vars => TypeOK' /\ Control'
<1> SUFFICES ASSUME TypeOK, Control, [Next]_vars PROVE TypeOK' /\ Control'
  OBVIOUS
<1> USE NativeLoopAssumption
    DEF TypeOK, Control, InCallback, WorkerPcs, OwnerPcs, Null, SelfPipe,
        haxeVars, fields, allocVars, poolVars, completionVars, pollVars
<1>1. CASE Create
  BY <1>1 DEF Create
<1>2. ASSUME NEW fd, SubmitToPool(fd) PROVE TypeOK' /\ Control'
  <2>1. nextId \in Ids /\ nextId' = nextId + 1
    BY <1>2 DEF SubmitToPool, TakeId
  <2>2. nextId' \in 1 .. MaxRequests + 1
    BY <2>1 DEF Ids
  <2>3. queue' \in Seq(Ids)
    BY <1>2, <2>1, AppendProperties DEF SubmitToPool
  <2>4. wpc' \in [Workers -> WorkerPcs]
    BY <1>2 DEF SubmitToPool, NotifyOne, Waiting
  <2>5. TypeOK'
    BY <1>2, <2>1, <2>2, <2>3, <2>4 DEF SubmitToPool, AllocRequest, Fds
  <2>6. wreq' = wreq /\ opc' = opc /\ batch' = batch /\ cur' = cur
    BY <1>2 DEF SubmitToPool
  <2>7. ASSUME NEW w \in Workers
        PROVE  /\ wpc'[w] = "io" <=> wpc[w] = "io"
               /\ wpc'[w] = "unborn" <=> wpc[w] = "unborn"
    BY <1>2 DEF SubmitToPool, NotifyOne, Waiting
  <2>8. Control'
    BY <2>6, <2>7
  <2>9. QED
    BY <2>5, <2>8
<1>3. ASSUME NEW fd, SubmitToEpoll(fd) PROVE TypeOK' /\ Control'
  <2>1. nextId \in Ids /\ nextId' = nextId + 1
    BY <1>3 DEF SubmitToEpoll, TakeId
  <2>2. nextId' \in 1 .. MaxRequests + 1
    BY <2>1 DEF Ids
  <2>3. QED
    BY <1>3, <2>1, <2>2 DEF SubmitToEpoll, AllocRequest, Fds
<1>4. ASSUME NEW fd, SubmitRefused(fd) PROVE TypeOK' /\ Control'
  <2>1. nextId' \in 1 .. MaxRequests + 1
    BY <1>4 DEF SubmitRefused, TakeId, Ids
  <2>2. QED
    BY <1>4, <2>1 DEF SubmitRefused
<1>5. CASE PollWait
  <2>1. Armed \subseteq Ids
    BY DEF Armed, Range
  <2>2. batch' \subseteq Ids \cup {SelfPipe}
    BY <1>5, <2>1 DEF PollWait, PipeEvent
  <2>3. armed' \in [StreamFds -> Ids \cup {Null}]
    BY <1>5 DEF PollWait
  <2>4. QED
    BY <1>5, <2>2, <2>3 DEF PollWait
<1>6. CASE PollDrainPipe
  BY <1>6 DEF PollDrainPipe
<1>7. CASE PollLockCompleted
  BY <1>7 DEF PollLockCompleted
<1>8. CASE PollDeliverCompleted
  <2>1. Head(completed) \in Ids /\ completed' \in Seq(Ids)
    BY <1>8, HeadTailProperties DEF PollDeliverCompleted
  <2>2. calls' \in [Ids -> Nat] /\ cur' = Head(completed)
    BY <1>8, <2>1 DEF PollDeliverCompleted, Dispatch
  <2>3. Head(completed) # Null
    BY <2>1 DEF Ids
  <2>4. QED
    BY <1>8, <2>1, <2>2, <2>3 DEF PollDeliverCompleted
<1>9. CASE PollUnlockCompleted
  BY <1>9 DEF PollUnlockCompleted
<1>10. CASE PollDeliverReady
  <2> PICK id \in batch \ {SelfPipe} : batch' = batch \ {id} /\ Dispatch(id)
    BY <1>10 DEF PollDeliverReady
  <2>1. id \in Ids /\ calls' \in [Ids -> Nat] /\ cur' = id
    BY DEF Dispatch
  <2>2. QED
    BY <1>10, <2>1 DEF PollDeliverReady
<1>11. CASE CallbackReturns
  BY <1>11 DEF CallbackReturns
<1>12. CASE CallbackThrows
  BY <1>12 DEF CallbackThrows
<1>13. CASE PollReturns
  BY <1>13 DEF PollReturns
<1>14. CASE CloseSetStop
  BY <1>14 DEF CloseSetStop
<1>15. CASE CloseNotifyAll
  BY <1>15 DEF CloseNotifyAll, Waiting
<1>16. CASE CloseFinish
  <2>1. queue' \in Seq(Ids) /\ completed' \in Seq(Ids)
    BY <1>16, EmptySeq DEF CloseFinish
  <2>2. allocs' \in Int
    BY <1>16, LenProperties DEF CloseFinish
  <2>3. QED
    BY <1>16, <2>1, <2>2 DEF CloseFinish
<1>17. ASSUME NEW w \in Workers, Worker(w) \/ WorkerSpuriousWake(w)
       PROVE  TypeOK' /\ Control'
  <2>1. CASE WorkerTop(w)
    BY <2>1 DEF WorkerTop
  <2>2. CASE WorkerTake(w)
    <3>1. Head(queue) \in Ids /\ queue' \in Seq(Ids)
      BY <2>2, HeadTailProperties DEF WorkerTake
    <3>2. Head(queue) # Null
      BY <3>1 DEF Ids
    <3>3. QED
      BY <2>2, <3>1, <3>2 DEF WorkerTake
  <2>3. CASE WorkerQuit(w)
    BY <2>3 DEF WorkerQuit
  <2>4. CASE WorkerFindsNothing(w)
    BY <2>4 DEF WorkerFindsNothing
  <2>5. CASE WorkerBlock(w)
    BY <2>5 DEF WorkerBlock
  <2>6. CASE WorkerComplete(w)
    <3>1. wreq[w] \in Ids
      BY <2>6 DEF WorkerComplete
    <3>2. completed' \in Seq(Ids)
      BY <2>6, <3>1, AppendProperties DEF WorkerComplete
    <3>3. QED
      BY <2>6, <3>2 DEF WorkerComplete
  <2>7. CASE WorkerSignal(w)
    BY <2>7 DEF WorkerSignal
  <2>8. CASE WorkerSpuriousWake(w)
    BY <2>8 DEF WorkerSpuriousWake
  <2>9. QED
    BY <1>17, <2>1, <2>2, <2>3, <2>4, <2>5, <2>6, <2>7, <2>8 DEF Worker
<1>18. CASE UNCHANGED vars
  BY <1>18 DEF vars
<1>19. QED
  BY <1>1, <1>2, <1>3, <1>4, <1>5, <1>6, <1>7, <1>8, <1>9, <1>10, <1>11,
     <1>12, <1>13, <1>14, <1>15, <1>16, <1>17, <1>18
  DEF Next, Submit, PollStep, CloseStep

(* The variables keep their types. *)
THEOREM TypeCorrect == Spec => []TypeOK
BY TypedInit, TypedStep, PTL DEF Spec

-----------------------------------------------------------------------------
(***************************************************************************)
(* No completion is forgotten.  The step that could go wrong is            *)
(* PollUnlockCompleted, after which nobody looks at `completed' before the *)
(* next byte; a worker that still has to write its byte covers a           *)
(* completion pushed after the pipe was drained.                           *)
(***************************************************************************)
LEMMA NoLostCompletionStep ==
  ASSUME ~CallbacksMayThrow, TypeOK, Control, NoLostCompletion, [Next]_vars
  PROVE  NoLostCompletion'
<1> USE NativeLoopAssumption
    DEF haxeVars, allocVars, poolVars, completionVars, pollVars
<1> DEFINE Signalling == \E w \in Workers : wpc[w] = "signal"
           Looking == opc \in {"drained", "deliver", "fileCallback"}
<1>1. NoLostCompletion <=> completed = <<>> \/ pipe > 0 \/ Signalling \/ Looking
  BY DEF NoLostCompletion
<1>2. NoLostCompletion' <=>
        completed' = <<>> \/ pipe' > 0 \/ Signalling' \/ Looking'
  BY DEF NoLostCompletion
<1>3. CASE Create
  BY <1>1, <1>2, <1>3 DEF Create, TypeOK, Control
<1>4. CASE Submit
  <2>1. UNCHANGED <<completed, pipe, opc>>
    BY <1>4 DEF Submit, SubmitToPool, SubmitToEpoll, SubmitRefused
  <2>2. ASSUME NEW w \in Workers, wpc[w] = "signal" PROVE wpc'[w] = "signal"
    BY <1>4, <2>2 DEF Submit, SubmitToPool, SubmitToEpoll, SubmitRefused,
                      NotifyOne, Waiting, TypeOK
  <2>3. QED
    BY <1>1, <1>2, <2>1, <2>2
<1>5. CASE PollWait \/ PollReturns \/ PollDeliverReady \/ CloseSetStop
  BY <1>1, <1>2, <1>5
  DEF PollWait, PollReturns, PollDeliverReady, CloseSetStop
<1>6. CASE PollDrainPipe \/ PollLockCompleted \/ PollDeliverCompleted
  BY <1>2, <1>6 DEF PollDrainPipe, PollLockCompleted, PollDeliverCompleted
<1>7. CASE PollUnlockCompleted \/ CloseFinish
  BY <1>2, <1>7 DEF PollUnlockCompleted, CloseFinish
<1>8. CASE CallbackReturns
  BY <1>1, <1>2, <1>8 DEF CallbackReturns, InCallback
<1>9. CASE CallbackThrows
  BY <1>9 DEF CallbackThrows
<1>10. CASE CloseNotifyAll
  <2>1. ASSUME NEW w \in Workers, wpc[w] = "signal" PROVE wpc'[w] = "signal"
    BY <1>10, <2>1 DEF CloseNotifyAll, Waiting
  <2>2. QED
    BY <1>1, <1>2, <1>10, <2>1 DEF CloseNotifyAll
<1>11. ASSUME NEW w \in Workers, Worker(w) \/ WorkerSpuriousWake(w)
       PROVE  NoLostCompletion'
  <2>1. CASE WorkerSignal(w)
    BY <1>2, <2>1 DEF WorkerSignal, TypeOK
  <2>2. CASE WorkerComplete(w)
    BY <1>2, <2>2 DEF WorkerComplete, TypeOK
  <2>3. CASE ~WorkerSignal(w) /\ ~WorkerComplete(w)
    <3>1. UNCHANGED <<completed, pipe, opc>>
      BY <1>11, <2>3
      DEF Worker, WorkerTop, WorkerTake, WorkerQuit, WorkerFindsNothing,
          WorkerBlock, WorkerSpuriousWake
    <3>2. ASSUME NEW v \in Workers, wpc[v] = "signal" PROVE wpc'[v] = "signal"
      BY <1>11, <2>3, <3>2
      DEF Worker, WorkerTop, WorkerTake, WorkerQuit, WorkerFindsNothing,
          WorkerBlock, WorkerSpuriousWake, TypeOK
    <3>3. QED
      BY <1>1, <1>2, <3>1, <3>2
  <2>4. QED
    BY <2>1, <2>2, <2>3
<1>12. CASE UNCHANGED vars
  BY <1>1, <1>2, <1>12 DEF vars
<1>13. QED
  BY <1>3, <1>4, <1>5, <1>6, <1>7, <1>8, <1>9, <1>10, <1>11, <1>12
  DEF Next, PollStep, CloseStep

(* When callbacks do not throw, a completed request is never forgotten in
   `completed': the self-pipe protocol of the workers and the poller loses no
   wake-up, whatever the number of workers and the size of the pipe. *)
THEOREM CompletionNotLost ==
  ASSUME ~CallbacksMayThrow
  PROVE  Spec => []NoLostCompletion
<1>1. Init => NoLostCompletion
  BY DEF Init, NoLostCompletion
<1>2. TypeOK /\ Control /\ NoLostCompletion /\ [Next]_vars => NoLostCompletion'
  BY NoLostCompletionStep
<1>3. QED
  BY <1>1, <1>2, TypedInit, TypedStep, PTL DEF Spec

-----------------------------------------------------------------------------
(***************************************************************************)
(* Who holds a request; the abstract engine.                               *)
(***************************************************************************)

(* Ids not handed out yet occur nowhere. *)
Fresh ==
  \A id \in Ids : id >= nextId =>
    id \notin live /\ id \notin requests /\ id \notin isFile /\ calls[id] = 0

(* Where a request on a regular file can be. *)
FileTracked ==
  ~CallbacksMayThrow =>
    live \cap isFile \subseteq UNION {Queued, InHand, Completed, Running}

(* What loop_close leaves behind. *)
Joined ==
  opc = "closed" =>
    /\ \A w \in Workers : wpc[w] = "exit"
    /\ queue = <<>> /\ completed = <<>> /\ Armed = {}

Typed == TypeOK /\ Control
Owned == Fresh /\ SingleOwner /\ CallbackExactlyOnce /\ FileTracked

(* The inductive invariant. *)
IInv == Typed /\ Owned /\ Joined /\ AllocationsCounted

-----------------------------------------------------------------------------
(* What appending to and removing from a queue does to its elements. *)
LEMMA AppendElements ==
  ASSUME NEW S, NEW q \in Seq(S), NEW x \in S
  PROVE  /\ Range(Append(q, x)) = Range(q) \cup {x}
         /\ IsInjective(q) /\ x \notin Range(q) => IsInjective(Append(q, x))
<1>1. /\ Append(q, x) \in Seq(S) /\ Len(Append(q, x)) = Len(q) + 1
      /\ \A i \in 1 .. Len(q) : Append(q, x)[i] = q[i]
      /\ Append(q, x)[Len(q) + 1] = x
  BY AppendProperties
<1>2. /\ DOMAIN q = 1 .. Len(q) /\ Len(q) \in Nat
      /\ DOMAIN Append(q, x) = 1 .. Len(q) + 1
  BY <1>1, LenProperties
<1>3. QED
  BY <1>1, <1>2 DEF Range, IsInjective

LEMMA TailElements ==
  ASSUME NEW S, NEW q \in Seq(S), q # <<>>
  PROVE  /\ Head(q) \in S /\ Tail(q) \in Seq(S)
         /\ Range(q) = Range(Tail(q)) \cup {Head(q)}
         /\ IsInjective(q) =>
              IsInjective(Tail(q)) /\ Head(q) \notin Range(Tail(q))
<1>1. /\ Head(q) = q[1] /\ Head(q) \in S
      /\ Tail(q) \in Seq(S) /\ Len(Tail(q)) = Len(q) - 1
      /\ \A i \in 1 .. Len(q) - 1 : Tail(q)[i] = q[i + 1]
  BY HeadTailProperties
<1>2. /\ DOMAIN q = 1 .. Len(q) /\ Len(q) \in Nat \ {0}
      /\ DOMAIN Tail(q) = 1 .. Len(q) - 1
  BY <1>1, LenProperties, EmptySeq
<1>3. Range(q) = Range(Tail(q)) \cup {q[1]}
  <2>1. Range(q) \subseteq Range(Tail(q)) \cup {q[1]}
    <3> SUFFICES ASSUME NEW i \in 1 .. Len(q)
                 PROVE  q[i] \in Range(Tail(q)) \cup {q[1]}
      BY <1>2 DEF Range
    <3>1. CASE i = 1
      BY <3>1
    <3>2. CASE i # 1
      <4>1. i - 1 \in 1 .. Len(q) - 1 /\ q[(i - 1) + 1] = q[i]
        BY <3>2, <1>2
      <4>2. Tail(q)[i - 1] = q[i]
        BY <4>1, <1>1
      <4>3. QED
        BY <4>1, <4>2, <1>2 DEF Range
    <3>3. QED
      BY <3>1, <3>2
  <2>2. Range(Tail(q)) \cup {q[1]} \subseteq Range(q)
    BY <1>1, <1>2 DEF Range
  <2>3. QED
    BY <2>1, <2>2
<1>4. ASSUME IsInjective(q)
      PROVE  IsInjective(Tail(q)) /\ q[1] \notin Range(Tail(q))
  BY <1>1, <1>2, <1>4 DEF Range, IsInjective
<1>5. QED
  BY <1>1, <1>3, <1>4

(* A queue without repetition has as many elements as its length. *)
LEMMA ElementCount ==
  ASSUME NEW S, NEW q \in Seq(S), IsInjective(q)
  PROVE  /\ IsFiniteSet(Range(q))
         /\ Cardinality(Range(q)) = Len(q)
<1>1. Len(q) \in Nat /\ DOMAIN q = 1 .. Len(q) /\ q \in [1 .. Len(q) -> S]
  BY LenProperties
<1>2. q \in Bijection(1 .. Len(q), Range(q))
  BY <1>1 DEF Bijection, Injection, Surjection, Range, IsInjective
<1>3. ExistsBijection(1 .. Len(q), Range(q))
  BY <1>2 DEF ExistsBijection
<1>4. QED
  BY <1>1, <1>3, FS_NatBijection, FS_CountingElements

(* What a worker lets go of is no longer in hand. *)
LEMMA HandGives ==
  ASSUME NEW f, NEW w \in DOMAIN f,
         \A v \in DOMAIN f : v # w => f[v] # f[w]
  PROVE  Range([f EXCEPT ![w] = Null]) \ {Null} = (Range(f) \ {Null}) \ {f[w]}
BY DEF Range

-----------------------------------------------------------------------------
(* The variables that Owned speaks about. *)
ownVars == <<nextId, requests, live, isFile, fdOf, calls, queue, completed,
             wreq, armed, cur>>

(* An action that only moves the program counters, the self-pipe and the
   events of the self-pipe keeps every request where it is. *)
LEMMA OwnedQuiet ==
  ASSUME Owned, UNCHANGED ownVars, Reported' = Reported
  PROVE  Owned' /\ Held' = Held
<1>1. UNCHANGED <<Queued, InHand, Completed, Armed, Running>>
  BY DEF ownVars, Queued, InHand, Completed, Armed, Running
<1>2. Held' = Held
  BY <1>1 DEF Held
<1>3. QED
  BY <1>1, <1>2
  DEF Owned, ownVars, Fresh, SingleOwner, CallbackExactlyOnce, FileTracked

(* A place cannot hold an id that was not handed out. *)
LEMMA HeldHandedOut ==
  ASSUME Typed, Owned
  PROVE  /\ Held \subseteq live /\ live \subseteq Ids
         /\ nextId \in Ids => nextId \notin live
BY DEF Typed, TypeOK, Owned, Fresh, SingleOwner, Ids

LEMMA OwnedSubmitToPool ==
  ASSUME Typed, Owned, NEW fd, SubmitToPool(fd)
  PROVE  Owned' /\ Held' = Held \cup {nextId}
<1>1. /\ nextId \in Ids /\ nextId' = nextId + 1 /\ live' = live \cup {nextId}
      /\ requests' = requests \cup {nextId} /\ isFile' = isFile \cup {nextId}
      /\ queue' = Append(queue, nextId)
      /\ UNCHANGED <<calls, wreq, completed, armed, batch, cur>>
  BY DEF SubmitToPool, TakeId, AllocRequest, completionVars, pollVars
<1>2. /\ Queued' = Queued \cup {nextId}
      /\ IsInjective(queue) /\ nextId \notin Queued => IsInjective(queue')
  BY <1>1, AppendElements DEF Queued, Typed, TypeOK
<1>3. UNCHANGED <<InHand, Completed, Armed, Reported, Running>>
  BY <1>1 DEF InHand, Completed, Armed, Reported, Running
<1>4. Held' = Held \cup {nextId}
  BY <1>2, <1>3 DEF Held
<1>5. nextId \notin live /\ nextId \notin Held /\ Held \subseteq live
  BY <1>1, HeldHandedOut
<1>6. Fresh'
  BY <1>1 DEF Owned, Fresh, Typed, TypeOK, Ids
<1>7. SingleOwner'
  <2>1. /\ nextId \notin UNION {Queued, InHand, Completed, Armed, Reported}
        /\ nextId # cur
    BY <1>1, <1>5 DEF Held, Running, Null, Ids
  <2>2. QED
    BY <1>1, <1>2, <1>3, <1>4, <1>5, <2>1 DEF Owned, SingleOwner
<1>8. CallbackExactlyOnce'
  BY <1>1, <1>3, <1>4, <1>5 DEF Owned, CallbackExactlyOnce, Fresh, Ids
<1>9. FileTracked'
  BY <1>1, <1>2, <1>3 DEF Owned, FileTracked
<1>10. QED
  BY <1>4, <1>6, <1>7, <1>8, <1>9 DEF Owned

LEMMA OwnedSubmitToEpoll ==
  ASSUME Typed, Owned, NEW fd, SubmitToEpoll(fd)
  PROVE  Owned' /\ Held \cup {nextId} \subseteq Held' \cup {armed[fd]}
<1>1. /\ nextId \in Ids /\ nextId' = nextId + 1 /\ live' = live \cup {nextId}
      /\ requests' = requests \cup {nextId}
      /\ fd \in StreamFds /\ armed' = [armed EXCEPT ![fd] = nextId]
      /\ UNCHANGED <<calls, isFile, queue, wreq, completed, batch, cur>>
  BY DEF SubmitToEpoll, TakeId, AllocRequest, completionVars, poolVars
<1>2. UNCHANGED <<Queued, InHand, Completed, Reported, Running>>
  BY <1>1 DEF Queued, InHand, Completed, Reported, Running
<1>3. Armed' \subseteq Armed \cup {nextId}
  BY <1>1 DEF Armed, Range, Typed, TypeOK
<1>4. Held' \subseteq Held \cup {nextId}
  BY <1>2, <1>3 DEF Held
<1>5. nextId \notin live /\ nextId \notin Held /\ Held \subseteq live
  BY <1>1, HeldHandedOut
<1>6. Fresh'
  BY <1>1 DEF Owned, Fresh, Typed, TypeOK, Ids
<1>7. SingleOwner'
  <2>1. /\ nextId \notin UNION {Queued, InHand, Completed, Armed, Reported}
        /\ nextId # cur
    BY <1>1, <1>5 DEF Held, Running, Null, Ids
  <2>2. (\A f, g \in StreamFds : f # g /\ armed[f] # Null => armed[f] # armed[g])'
    <3>1. \A f \in StreamFds : armed[f] # nextId
      BY <1>1, <2>1 DEF Armed, Range, Typed, TypeOK, Null, Ids
    <3>2. QED
      BY <1>1, <3>1 DEF Owned, SingleOwner, Typed, TypeOK
  <2>3. QED
    BY <1>1, <1>2, <1>3, <1>4, <1>5, <2>1, <2>2 DEF Owned, SingleOwner
<1>8. CallbackExactlyOnce'
  BY <1>1, <1>2, <1>4, <1>5 DEF Owned, CallbackExactlyOnce, Fresh, Ids
<1>9. FileTracked'
  <2>1. nextId \notin isFile
    BY <1>1 DEF Owned, Fresh, Ids
  <2>2. QED
    BY <1>1, <1>2, <2>1 DEF Owned, FileTracked
<1>10. Armed \cup {nextId} \subseteq Armed' \cup {armed[fd]}
  BY <1>1 DEF Armed, Range, Typed, TypeOK, Null, Ids
<1>11. Held \cup {nextId} \subseteq Held' \cup {armed[fd]}
  BY <1>2, <1>10 DEF Held
<1>12. QED
  BY <1>6, <1>7, <1>8, <1>9, <1>11 DEF Owned

LEMMA OwnedSubmitRefused ==
  ASSUME Typed, Owned, NEW fd, SubmitRefused(fd)
  PROVE  Owned' /\ Held' = Held
<1>1. /\ nextId \in Ids /\ nextId' = nextId + 1
      /\ UNCHANGED <<requests, live, isFile, calls, queue, completed, wreq,
                     armed, batch, cur>>
  BY DEF SubmitRefused, TakeId, fields, allocVars, poolVars, completionVars, pollVars
<1>2. UNCHANGED <<Queued, InHand, Completed, Armed, Reported, Running>>
  BY <1>1 DEF Queued, InHand, Completed, Armed, Reported, Running
<1>3. Held' = Held
  BY <1>2 DEF Held
<1>4. Fresh'
  BY <1>1 DEF Owned, Fresh, Typed, TypeOK, Ids
<1>5. QED
  BY <1>1, <1>2, <1>3, <1>4
  DEF Owned, SingleOwner, CallbackExactlyOnce, FileTracked

LEMMA OwnedWorkerTake ==
  ASSUME Typed, Owned, NEW w \in Workers, WorkerTake(w)
  PROVE  Owned' /\ Held' = Held
<1> DEFINE id == Head(queue)
<1>1. /\ wpc[w] = "check" /\ queue # <<>> /\ queue' = Tail(queue)
      /\ wreq' = [wreq EXCEPT ![w] = id]
      /\ UNCHANGED <<nextId, requests, live, isFile, calls, completed, armed,
                     batch, cur>>
  BY DEF WorkerTake, haxeVars, fields, allocVars, completionVars, pollVars
<1>2. /\ id \in Ids /\ Queued = Queued' \cup {id}
      /\ IsInjective(queue) => IsInjective(queue') /\ id \notin Queued'
  BY <1>1, TailElements DEF Queued, Typed, TypeOK
<1>3. InHand' = InHand \cup {id}
  <2>1. wreq[w] = Null /\ DOMAIN wreq = Workers /\ id # Null
    BY <1>1, <1>2 DEF Typed, TypeOK, Control, Null, Ids
  <2> HIDE DEF id
  <2>2. Range([wreq EXCEPT ![w] = id]) \ {Null} = (Range(wreq) \ {Null}) \cup {id}
    BY <2>1 DEF Range, Typed, TypeOK
  <2>3. QED
    BY <1>1, <2>2 DEF InHand
<1>4. UNCHANGED <<Completed, Armed, Reported, Running>>
  BY <1>1 DEF Completed, Armed, Reported, Running
<1>5. Held' = Held
  BY <1>2, <1>3, <1>4 DEF Held
<1>6. SingleOwner'
  <2>1. (\A v, u \in Workers : v # u /\ wreq[v] # Null => wreq[v] # wreq[u])'
    <3>1. \A v \in Workers : wreq[v] # id
      BY <1>2 DEF Owned, SingleOwner, InHand, Range, Typed, TypeOK, Null, Ids
    <3>2. QED
      BY <1>1, <3>1 DEF Owned, SingleOwner, Typed, TypeOK
  <2>2. QED
    BY <1>1, <1>2, <1>3, <1>4, <1>5, <2>1 DEF Owned, SingleOwner
<1>7. QED
  BY <1>1, <1>2, <1>3, <1>4, <1>5, <1>6
  DEF Owned, Fresh, CallbackExactlyOnce, FileTracked

LEMMA OwnedWorkerComplete ==
  ASSUME Typed, Owned, NEW w \in Workers, WorkerComplete(w)
  PROVE  Owned' /\ Held' = Held
<1> DEFINE id == wreq[w]
<1>1. /\ wpc[w] = "io" /\ completed' = Append(completed, id)
      /\ wreq' = [wreq EXCEPT ![w] = Null]
      /\ UNCHANGED <<nextId, requests, live, isFile, calls, queue, armed,
                     batch, cur>>
  BY DEF WorkerComplete, haxeVars, fields, allocVars, pollVars
<1>2. DOMAIN wreq = Workers /\ id \in Ids /\ id \in InHand
  BY <1>1 DEF Typed, TypeOK, Control, InHand, Range
<1>3. /\ Completed' = Completed \cup {id}
      /\ IsInjective(completed) /\ id \notin Completed => IsInjective(completed')
  BY <1>1, <1>2, AppendElements DEF Completed, Typed, TypeOK
<1>4. InHand' = InHand \ {id}
  <2>1. \A v \in DOMAIN wreq : v # w => wreq[v] # wreq[w]
    BY <1>2 DEF Owned, SingleOwner, Null, Ids
  <2>2. QED
    BY <1>1, <1>2, <2>1, HandGives DEF InHand
<1>5. UNCHANGED <<Queued, Armed, Reported, Running>>
  BY <1>1 DEF Queued, Armed, Reported, Running
<1>6. Held' = Held
  BY <1>2, <1>3, <1>4, <1>5 DEF Held
<1>7. SingleOwner'
  <2>1. (\A v, u \in Workers : v # u /\ wreq[v] # Null => wreq[v] # wreq[u])'
    BY <1>1 DEF Owned, SingleOwner, Typed, TypeOK
  <2>2. QED
    BY <1>1, <1>2, <1>3, <1>4, <1>5, <1>6, <2>1 DEF Owned, SingleOwner
<1>8. FileTracked'
  BY <1>1, <1>2, <1>3, <1>4, <1>5 DEF Owned, FileTracked
<1>9. QED
  BY <1>1, <1>5, <1>6, <1>7, <1>8 DEF Owned, Fresh, CallbackExactlyOnce

LEMMA OwnedPollWait ==
  ASSUME Typed, Owned, PollWait
  PROVE  Owned' /\ Held' = Held
<1>1. PICK events \in SUBSET (Armed \cup PipeEvent) :
        /\ batch' = events
        /\ armed' = [fd \in StreamFds |->
                       IF armed[fd] \in events THEN Null ELSE armed[fd]]
  BY DEF PollWait
<1>2. /\ opc = "idle" /\ batch = {} /\ cur = Null
      /\ UNCHANGED <<nextId, requests, live, isFile, calls, queue, completed,
                     wreq, cur>>
  BY DEF PollWait, Typed, Control, InCallback, haxeVars, fields, allocVars, poolVars,
         completionVars
<1>3. UNCHANGED <<Queued, InHand, Completed, Running>>
  BY <1>2 DEF Queued, InHand, Completed, Running
<1>4. Reported' \subseteq Armed /\ Reported = {}
  BY <1>1, <1>2 DEF Reported, PipeEvent
<1>5. Armed' \subseteq Armed /\ Armed' \cap Reported' = {}
  BY <1>1 DEF Armed, Range, Typed, TypeOK, Reported
<1>6. Held' = Held
  <2>1. Armed \subseteq Armed' \cup Reported'
    BY <1>1 DEF Armed, Range, Typed, TypeOK, Reported, SelfPipe
  <2>2. QED
    BY <1>3, <1>4, <1>5, <2>1 DEF Held
<1>7. SingleOwner'
  <2>1. (\A f, g \in StreamFds : f # g /\ armed[f] # Null => armed[f] # armed[g])'
    BY <1>1 DEF Owned, SingleOwner, Typed, TypeOK
  <2>2. QED
    BY <1>2, <1>3, <1>4, <1>5, <1>6, <2>1 DEF Owned, SingleOwner
<1>8. QED
  BY <1>2, <1>3, <1>6, <1>7
  DEF Owned, Fresh, CallbackExactlyOnce, FileTracked

LEMMA OwnedPollDeliverCompleted ==
  ASSUME Typed, Owned, PollDeliverCompleted
  PROVE  Owned' /\ Held' = Held
<1> DEFINE id == Head(completed)
<1>1. /\ opc = "deliver" /\ completed # <<>> /\ completed' = Tail(completed)
      /\ cur' = id /\ cur = Null
      /\ calls' = IF id \in requests THEN [calls EXCEPT ![id] = @ + 1] ELSE calls
      /\ UNCHANGED <<nextId, requests, live, isFile, queue, wreq, armed, batch>>
  BY DEF PollDeliverCompleted, Dispatch, Typed, Control, InCallback, fields,
         allocVars, poolVars
<1>2. /\ id \in Ids /\ Completed = Completed' \cup {id}
      /\ IsInjective(completed) => IsInjective(completed') /\ id \notin Completed'
  BY <1>1, TailElements DEF Completed, Typed, TypeOK
<1>3. UNCHANGED <<Queued, InHand, Armed, Reported>>
  BY <1>1 DEF Queued, InHand, Armed, Reported
<1>4. Running = {} /\ Running' = {id} /\ id # Null
  BY <1>1, <1>2 DEF Running, Null, Ids
<1>5. Held' = Held /\ id \in Held /\ Held \subseteq live
  BY <1>2, <1>3, <1>4, HeldHandedOut DEF Held
<1>6. id \in requests /\ calls[id] = 0
  BY <1>2, <1>4, <1>5 DEF Owned, CallbackExactlyOnce
<1>7. calls' = [calls EXCEPT ![id] = 1]
  BY <1>1, <1>6
<1>8. Fresh'
  BY <1>1, <1>2, <1>5, <1>7 DEF Owned, Fresh, Typed, TypeOK
<1>9. SingleOwner'
  BY <1>1, <1>2, <1>3, <1>5 DEF Owned, SingleOwner
<1>10. CallbackExactlyOnce'
  BY <1>1, <1>2, <1>4, <1>5, <1>6, <1>7
  DEF Owned, CallbackExactlyOnce, Typed, TypeOK
<1>11. FileTracked'
  BY <1>1, <1>2, <1>3, <1>4 DEF Owned, FileTracked
<1>12. QED
  BY <1>5, <1>8, <1>9, <1>10, <1>11 DEF Owned

LEMMA OwnedPollDeliverReady ==
  ASSUME Typed, Owned, PollDeliverReady
  PROVE  Owned' /\ Held' = Held
<1>1. PICK id \in batch \ {SelfPipe} : batch' = batch \ {id} /\ Dispatch(id)
  BY DEF PollDeliverReady
<1>2. /\ cur' = id /\ cur = Null
      /\ calls' = IF id \in requests THEN [calls EXCEPT ![id] = @ + 1] ELSE calls
      /\ UNCHANGED <<nextId, requests, live, isFile, queue, wreq, completed,
                     armed>>
  BY <1>1 DEF PollDeliverReady, Dispatch, Typed, Control, InCallback, fields,
              allocVars, poolVars, completionVars
<1>3. /\ id \in Ids /\ id # Null
      /\ Reported = Reported' \cup {id} /\ id \notin Reported'
  BY <1>1 DEF Reported, Typed, TypeOK, SelfPipe
<1>4. UNCHANGED <<Queued, InHand, Armed, Completed>>
  BY <1>2 DEF Queued, InHand, Armed, Completed
<1>5. Running = {} /\ Running' = {id}
  BY <1>2, <1>3 DEF Running
<1>6. Held' = Held /\ id \in Held /\ Held \subseteq live
  BY <1>3, <1>4, <1>5, HeldHandedOut DEF Held
<1>7. id \in requests /\ calls[id] = 0
  BY <1>3, <1>5, <1>6 DEF Owned, CallbackExactlyOnce
<1>8. calls' = [calls EXCEPT ![id] = 1]
  BY <1>2, <1>7
<1>9. Fresh'
  BY <1>2, <1>3, <1>6, <1>8 DEF Owned, Fresh, Typed, TypeOK
<1>10. SingleOwner'
  BY <1>2, <1>3, <1>4, <1>6 DEF Owned, SingleOwner
<1>11. CallbackExactlyOnce'
  BY <1>2, <1>3, <1>5, <1>6, <1>7, <1>8
  DEF Owned, CallbackExactlyOnce, Typed, TypeOK
<1>12. FileTracked'
  BY <1>2, <1>4, <1>5 DEF Owned, FileTracked
<1>13. QED
  BY <1>6, <1>9, <1>10, <1>11, <1>12 DEF Owned

LEMMA OwnedCallbackReturns ==
  ASSUME Typed, Owned, CallbackReturns
  PROVE  Owned' /\ Held' = Held \ {cur}
<1>1. /\ cur \in Ids /\ cur # Null /\ cur' = Null
      /\ requests' = requests \ {cur} /\ live' = live \ {cur}
      /\ UNCHANGED <<nextId, isFile, calls, queue, completed, wreq, armed, batch>>
  BY DEF CallbackReturns, Typed, TypeOK, Control, fields, poolVars,
         completionVars
<1>2. UNCHANGED <<Queued, InHand, Completed, Armed, Reported>>
  BY <1>1 DEF Queued, InHand, Completed, Armed, Reported
<1>3. Running = {cur} /\ Running' = {}
  BY <1>1 DEF Running
<1>4. /\ cur \notin UNION {Queued, InHand, Completed, Armed, Reported}
      /\ Held \subseteq live
  BY DEF Owned, SingleOwner
<1>5. Held' = Held \ {cur} /\ cur \notin Held'
  BY <1>2, <1>3, <1>4 DEF Held
<1>6. Null \notin UNION {Queued, InHand, Completed, Armed, Reported}
  BY <1>5, HeldHandedOut, <1>2, <1>3 DEF Held, Null, Ids
<1>7. SingleOwner'
  BY <1>1, <1>2, <1>4, <1>5, <1>6 DEF Owned, SingleOwner
<1>8. QED
  BY <1>1, <1>2, <1>3, <1>5, <1>7
  DEF Owned, Fresh, CallbackExactlyOnce, FileTracked

LEMMA OwnedCallbackThrows ==
  ASSUME Typed, Owned, CallbackThrows
  PROVE  Owned'
<1>1. /\ CallbacksMayThrow /\ batch' = {} /\ cur' = Null
      /\ UNCHANGED <<nextId, requests, live, isFile, calls, queue, completed,
                     wreq, armed>>
  BY DEF CallbackThrows, haxeVars, fields, allocVars, poolVars, completionVars
<1>2. UNCHANGED <<Queued, InHand, Completed, Armed>>
  BY <1>1 DEF Queued, InHand, Completed, Armed
<1>3. Running' = {} /\ Reported' = {}
  BY <1>1 DEF Running, Reported
<1>4. Held' = UNION {Queued, InHand, Completed, Armed}
  BY <1>2, <1>3 DEF Held
<1>5. Held' \subseteq Held /\ Held \subseteq live /\ Null \notin Held
  BY <1>4, HeldHandedOut DEF Held, Null, Ids
<1>6. Held' \subseteq Held \ Running
  BY <1>4 DEF Held, Running, Owned, SingleOwner
<1>7. SingleOwner'
  BY <1>1, <1>2, <1>3, <1>4, <1>5 DEF Owned, SingleOwner
<1>8. QED
  BY <1>1, <1>3, <1>6, <1>7
  DEF Owned, Fresh, CallbackExactlyOnce, FileTracked

(* When every worker is joined and the owner is in loop_close, a request is
   queued, completed or armed. *)
LEMMA HeldAtJoin ==
  ASSUME Typed, opc \in {"joining", "closed"}, \A w \in Workers : wpc[w] = "exit"
  PROVE  InHand = {} /\ Reported = {} /\ Running = {}
<1>1. \A w \in Workers : wreq[w] = Null
  BY DEF Typed, TypeOK, Control
<1>2. QED
  BY <1>1
  DEF Typed, TypeOK, Control, InCallback, InHand, Reported, Running, Range

LEMMA OwnedCloseFinish ==
  ASSUME Typed, Owned, CloseFinish
  PROVE  Owned'
<1>1. /\ opc = "joining" /\ \A w \in Workers : wpc[w] = "exit"
      /\ live' = live \ (Queued \cup Completed)
      /\ queue' = <<>> /\ completed' = <<>>
      /\ armed' = [fd \in StreamFds |-> Null]
      /\ UNCHANGED <<nextId, requests, isFile, calls, wreq, batch, cur>>
  BY DEF CloseFinish, haxeVars, fields, Queued, Completed
<1>2. UNCHANGED <<InHand, Reported, Running>>
  BY <1>1 DEF InHand, Reported, Running
<1>3. InHand = {} /\ Reported = {} /\ Running = {}
  BY <1>1, HeldAtJoin
<1>4. Queued' = {} /\ Completed' = {} /\ Armed' = {}
  BY <1>1 DEF Queued, Completed, Armed, Range
<1>5. Held' = {}
  BY <1>2, <1>3, <1>4 DEF Held
<1>6. cur = Null
  BY <1>3 DEF Running
<1>7. SingleOwner'
  <2>1. IsInjective(<<>>)
    BY DEF IsInjective
  <2>2. (\A v, w \in Workers : v # w /\ wreq[v] # Null => wreq[v] # wreq[w])'
    BY <1>1 DEF Owned, SingleOwner
  <2>3. (\A f, g \in StreamFds : f # g /\ armed[f] # Null => armed[f] # armed[g])'
    BY <1>1
  <2>4. QED
    BY <1>1, <1>2, <1>3, <1>4, <1>5, <2>1, <2>2, <2>3 DEF SingleOwner
<1>8. CallbackExactlyOnce'
  BY <1>1, <1>5, <1>6 DEF Owned, CallbackExactlyOnce
<1>9. FileTracked'
  BY <1>1, <1>3 DEF Owned, FileTracked
<1>10. QED
  BY <1>1, <1>7, <1>8, <1>9 DEF Owned, Fresh

LEMMA OwnedStep == Typed /\ Owned /\ [Next]_vars => Owned'
<1> SUFFICES ASSUME Typed, Owned, [Next]_vars PROVE Owned'
  OBVIOUS
<1> USE DEF haxeVars, fields, allocVars, poolVars, completionVars, pollVars,
            ownVars
<1>1. CASE Create
  BY <1>1, OwnedQuiet DEF Create, Reported
<1>2. CASE Submit
  BY <1>2, OwnedSubmitToPool, OwnedSubmitToEpoll, OwnedSubmitRefused DEF Submit
<1>3. CASE PollWait
  BY <1>3, OwnedPollWait
<1>4. CASE PollStep
  <2>1. CASE PollDrainPipe
    BY <2>1, OwnedQuiet DEF PollDrainPipe, Reported
  <2>2. CASE PollLockCompleted \/ PollUnlockCompleted \/ PollReturns
    BY <2>2, OwnedQuiet
    DEF PollLockCompleted, PollUnlockCompleted, PollReturns, Reported
  <2>3. QED
    BY <1>4, <2>1, <2>2, OwnedPollDeliverCompleted, OwnedPollDeliverReady,
       OwnedCallbackReturns
    DEF PollStep
<1>5. CASE CallbackThrows
  BY <1>5, OwnedCallbackThrows
<1>6. CASE CloseSetStop \/ CloseNotifyAll
  BY <1>6, OwnedQuiet DEF CloseSetStop, CloseNotifyAll, Reported
<1>7. CASE CloseFinish
  BY <1>7, OwnedCloseFinish
<1>8. ASSUME NEW w \in Workers, Worker(w) \/ WorkerSpuriousWake(w)
      PROVE  Owned'
  <2>1. CASE WorkerTake(w)
    BY <2>1, OwnedWorkerTake
  <2>2. CASE WorkerComplete(w)
    BY <2>2, OwnedWorkerComplete
  <2>3. CASE \/ WorkerTop(w) \/ WorkerQuit(w) \/ WorkerFindsNothing(w)
             \/ WorkerBlock(w) \/ WorkerSignal(w) \/ WorkerSpuriousWake(w)
    BY <2>3, OwnedQuiet
    DEF WorkerTop, WorkerQuit, WorkerFindsNothing, WorkerBlock, WorkerSignal,
        WorkerSpuriousWake, Reported
  <2>4. QED
    BY <1>8, <2>1, <2>2, <2>3 DEF Worker
<1>9. CASE UNCHANGED vars
  BY <1>9, OwnedQuiet DEF vars, Reported
<1>10. QED
  BY <1>1, <1>2, <1>3, <1>4, <1>5, <1>6, <1>7, <1>8, <1>9 DEF Next, CloseStep

-----------------------------------------------------------------------------
LEMMA OwnedInit == Init => Owned /\ Joined /\ AllocationsCounted
<1> SUFFICES ASSUME Init PROVE Owned /\ Joined /\ AllocationsCounted
  OBVIOUS
<1>1. /\ Queued = {} /\ InHand = {} /\ Completed = {} /\ Armed = {}
      /\ Reported = {} /\ Running = {}
  BY DEF Init, Queued, InHand, Completed, Armed, Reported, Running, Range
<1>2. Held = {}
  BY <1>1 DEF Held
<1>3. IsInjective(queue) /\ IsInjective(completed)
  BY DEF Init, IsInjective
<1>4. SingleOwner
  BY <1>1, <1>2, <1>3 DEF Init, SingleOwner
<1>5. Fresh /\ CallbackExactlyOnce /\ FileTracked
  BY <1>2 DEF Init, Fresh, CallbackExactlyOnce, FileTracked
<1>6. Joined /\ AllocationsCounted
  BY FS_EmptySet DEF Init, Joined, AllocationsCounted
<1>7. QED
  BY <1>4, <1>5, <1>6 DEF Owned

LEMMA JoinedStep == Typed /\ Joined /\ [Next]_vars => Joined'
<1> SUFFICES ASSUME Typed, Joined, [Next]_vars PROVE Joined'
  OBVIOUS
<1> USE DEF Joined, haxeVars, allocVars, poolVars, completionVars, pollVars
<1>1. CASE CloseFinish
  <2>1. Armed' = {}
    BY <1>1 DEF CloseFinish, Armed, Range
  <2>2. QED
    BY <1>1, <2>1 DEF CloseFinish
<1>2. CASE UNCHANGED vars
  BY <1>2 DEF vars, Armed
<1>3. ASSUME NEW w \in Workers, Worker(w) \/ WorkerSpuriousWake(w)
      PROVE  Joined'
  <2>1. wpc[w] # "exit" /\ opc' = opc
    BY <1>3
    DEF Worker, WorkerTop, WorkerTake, WorkerQuit, WorkerFindsNothing,
        WorkerBlock, WorkerComplete, WorkerSignal, WorkerSpuriousWake
  <2>2. QED
    BY <2>1
<1>4. CASE Create \/ Submit \/ PollWait \/ CallbackThrows \/ CloseSetStop
  <2>1. opc' # "closed"
    BY <1>4
    DEF Create, Submit, SubmitToPool, SubmitToEpoll, SubmitRefused, TakeId,
        PollWait, CallbackThrows, CloseSetStop, InCallback
  <2>2. QED
    BY <2>1
<1>5. CASE PollStep \/ CloseNotifyAll
  <2>1. opc' # "closed"
    BY <1>5
    DEF PollStep, PollDrainPipe, PollLockCompleted, PollDeliverCompleted,
        PollUnlockCompleted, PollDeliverReady, CallbackReturns, PollReturns,
        CloseNotifyAll
  <2>2. QED
    BY <2>1
<1>6. QED
  BY <1>1, <1>2, <1>3, <1>4, <1>5 DEF Next, CloseStep

-----------------------------------------------------------------------------
(* The counter of active allocations. *)
LEMMA LiveFinite == Typed => IsFiniteSet(live) /\ Cardinality(live) \in Nat
<1> SUFFICES ASSUME Typed PROVE IsFiniteSet(live) /\ Cardinality(live) \in Nat
  OBVIOUS
<1>1. live \subseteq 1 .. MaxRequests
  BY DEF Typed, TypeOK, Ids
<1>2. IsFiniteSet(1 .. MaxRequests)
  BY NativeLoopAssumption, FS_Interval
<1>3. QED
  BY <1>1, <1>2, FS_Subset, FS_CardinalityType

LEMMA CountedCloseFinish ==
  ASSUME IInv, CloseFinish
  PROVE  AllocationsCounted'
<1>1. /\ live' = live \ (Queued \cup Completed)
      /\ allocs' = allocs - Len(queue) - Len(completed) - 1
      /\ opc = "joining" /\ opc' = "closed"
  BY DEF CloseFinish, Queued, Completed
<1>2. /\ IsFiniteSet(Queued) /\ Cardinality(Queued) = Len(queue)
      /\ IsFiniteSet(Completed) /\ Cardinality(Completed) = Len(completed)
  BY ElementCount
  DEF IInv, Typed, TypeOK, Owned, SingleOwner, Queued, Completed
<1>3. Len(queue) \in Nat /\ Len(completed) \in Nat /\ allocs \in Int
  BY LenProperties DEF IInv, Typed, TypeOK
<1>4. Queued \cap Completed = {}
  BY DEF IInv, Owned, SingleOwner
<1>5. /\ IsFiniteSet(Queued \cup Completed)
      /\ Cardinality(Queued \cup Completed) = Len(queue) + Len(completed)
  <2>1. /\ IsFiniteSet(Queued \cup Completed)
        /\ Cardinality(Queued \cup Completed) =
             Cardinality(Queued) + Cardinality(Completed)
             - Cardinality(Queued \cap Completed)
    BY <1>2, FS_Union
  <2>2. Cardinality(Queued \cap Completed) = 0
    BY <1>4, FS_EmptySet
  <2>3. QED
    BY <1>2, <1>3, <2>1, <2>2
<1>6. Queued \cup Completed \subseteq live
  BY DEF IInv, Owned, SingleOwner, Held
<1>7. IsFiniteSet(live) /\ Cardinality(live) \in Nat
  BY LiveFinite DEF IInv
<1>8. live \cap (Queued \cup Completed) = Queued \cup Completed
  BY <1>6
<1>9. Cardinality(live') = Cardinality(live) - (Len(queue) + Len(completed))
  <2>1. Cardinality(live \ (Queued \cup Completed)) =
          Cardinality(live) - Cardinality(live \cap (Queued \cup Completed))
    BY <1>7, FS_Difference
  <2>2. QED
    BY <1>1, <1>5, <1>8, <2>1
<1>10. allocs = Cardinality(live) + 1
  BY <1>1 DEF IInv, AllocationsCounted
<1>11. QED
  BY <1>1, <1>3, <1>7, <1>9, <1>10 DEF AllocationsCounted

LEMMA CountedStep == IInv /\ [Next]_vars => AllocationsCounted'
<1> SUFFICES ASSUME IInv, [Next]_vars PROVE AllocationsCounted'
  OBVIOUS
<1> USE DEF haxeVars, allocVars, poolVars, completionVars, pollVars
<1>1. IsFiniteSet(live) /\ Cardinality(live) \in Nat
  BY LiveFinite DEF IInv
<1>2. allocs \in Int /\ AllocationsCounted
  BY DEF IInv, Typed, TypeOK
<1>3. CASE Create
  BY <1>1, <1>2, <1>3 DEF Create, AllocationsCounted
<1>4. ASSUME NEW fd, SubmitToPool(fd) \/ SubmitToEpoll(fd)
      PROVE  AllocationsCounted'
  <2>1. /\ nextId \in Ids /\ live' = live \cup {nextId} /\ allocs' = allocs + 1
        /\ opc \in {"idle", "fileCallback", "streamCallback"} /\ opc' = opc
    BY <1>4 DEF SubmitToPool, SubmitToEpoll, TakeId, AllocRequest, InCallback
  <2>2. nextId \notin live
    BY <2>1, HeldHandedOut DEF IInv
  <2>3. Cardinality(live') = Cardinality(live) + 1
    BY <1>1, <2>1, <2>2, FS_AddElement
  <2>4. QED
    BY <1>1, <1>2, <2>1, <2>3 DEF AllocationsCounted
<1>5. CASE CallbackReturns
  <2>1. /\ live' = live \ {cur} /\ allocs' = allocs - 1
        /\ opc \in {"fileCallback", "streamCallback"}
        /\ opc' \in {"deliver", "events"}
    BY <1>5 DEF CallbackReturns, InCallback
  <2>2. cur \in live
    BY <2>1
    DEF IInv, Typed, Control, InCallback, Owned, SingleOwner, Held, Running
  <2>3. Cardinality(live') = Cardinality(live) - 1
    BY <1>1, <2>1, <2>2, FS_RemoveElement
  <2>4. QED
    BY <1>1, <1>2, <2>1, <2>3 DEF AllocationsCounted
<1>6. CASE CloseFinish
  BY <1>6, CountedCloseFinish
<1>7. ASSUME UNCHANGED <<live, allocs>>,
             opc \in {"new", "failed", "closed"} <=>
               opc' \in {"new", "failed", "closed"}
      PROVE  AllocationsCounted'
  BY <1>2, <1>7 DEF AllocationsCounted
<1>8. ASSUME NEW fd, SubmitRefused(fd) PROVE AllocationsCounted'
  BY <1>7, <1>8 DEF SubmitRefused
<1>9. CASE PollWait \/ CallbackThrows \/ CloseSetStop \/ CloseNotifyAll
  BY <1>7, <1>9
  DEF PollWait, CallbackThrows, CloseSetStop, CloseNotifyAll, InCallback
<1>10. CASE \/ PollDrainPipe \/ PollLockCompleted \/ PollDeliverCompleted
            \/ PollUnlockCompleted \/ PollDeliverReady \/ PollReturns
  BY <1>7, <1>10
  DEF PollDrainPipe, PollLockCompleted, PollDeliverCompleted,
      PollUnlockCompleted, PollDeliverReady, PollReturns
<1>11. ASSUME NEW w \in Workers, Worker(w) \/ WorkerSpuriousWake(w)
       PROVE  AllocationsCounted'
  BY <1>7, <1>11
  DEF Worker, WorkerTop, WorkerTake, WorkerQuit, WorkerFindsNothing,
      WorkerBlock, WorkerComplete, WorkerSignal, WorkerSpuriousWake
<1>12. CASE UNCHANGED vars
  BY <1>7, <1>12 DEF vars
<1>13. QED
  BY <1>3, <1>4, <1>5, <1>6, <1>8, <1>9, <1>10, <1>11, <1>12
  DEF Next, Submit, PollStep, CloseStep

-----------------------------------------------------------------------------
THEOREM Inductive == Spec => []IInv
<1>1. Init => IInv
  BY TypedInit, OwnedInit DEF IInv, Typed
<1>2. IInv /\ [Next]_vars => IInv'
  BY TypedStep, OwnedStep, JoinedStep, CountedStep DEF IInv, Typed
<1>3. QED
  BY <1>1, <1>2, PTL DEF Spec

(* A request's pointer is in one place at a time, and only while the request
   is allocated. *)
THEOREM RequestsHaveOneOwner == Spec => []SingleOwner
<1>1. IInv => SingleOwner
  BY DEF IInv, Owned
<1>2. QED
  BY <1>1, Inductive, PTL

(* No callback runs twice, and what the native side completes is registered. *)
THEOREM CallbacksRunOnce == Spec => []CallbackExactlyOnce
<1>1. IInv => CallbackExactlyOnce
  BY DEF IInv, Owned
<1>2. QED
  BY <1>1, Inductive, PTL

(* The counter of active allocations agrees with what is allocated, in every
   interleaving and whether callbacks throw or not. *)
THEOREM AllocationsAlwaysCounted == Spec => []AllocationsCounted
<1>1. IInv => AllocationsCounted
  BY DEF IInv
<1>2. QED
  BY <1>1, Inductive, PTL

(* A request on a regular file is always in reach of the code that calls it
   back and frees it; none survives loop_close. *)
THEOREM FileRequestsStayTracked == Spec => []FileRequestsNotLeaked
<1>1. IInv => FileRequestsNotLeaked
  <2> SUFFICES ASSUME IInv, ~CallbacksMayThrow
               PROVE  /\ Leaked \cap isFile = {}
                      /\ opc = "closed" => live \cap isFile = {}
    BY DEF FileRequestsNotLeaked
  <2>1. live \cap isFile \subseteq UNION {Queued, InHand, Completed, Running}
    BY DEF IInv, Owned, FileTracked
  <2>2. Leaked \cap isFile = {}
    BY <2>1 DEF Leaked, Held
  <2>3. ASSUME opc = "closed" PROVE live \cap isFile = {}
    <3>1. InHand = {} /\ Running = {}
      BY <2>3, HeldAtJoin DEF IInv, Joined
    <3>2. Queued = {} /\ Completed = {}
      BY <2>3 DEF IInv, Joined, Queued, Completed, Range
    <3>3. QED
      BY <2>1, <3>1, <3>2
  <2>4. QED
    BY <2>2, <2>3
<1>2. QED
  BY <1>1, Inductive, PTL

-----------------------------------------------------------------------------
(***************************************************************************)
(* How a request gets lost.  Every hand-over but one keeps what is held;   *)
(* the exception is a submission that overwrites the pointer epoll holds   *)
(* for the same stream, and the request it overwrites has then been        *)
(* replaced for good: descriptors of accepted requests never change and    *)
(* ids only grow.                                                          *)
(***************************************************************************)
ArmedForFd == \A f \in StreamFds : armed[f] # Null => fdOf[armed[f]] = f
InReach == LostOnlyIfReplaced /\ ArmedForFd

LEMMA ReplacedKept ==
  ASSUME Typed, NEW id \in Ids, id < nextId, Replaced(id),
         nextId' \in {nextId, nextId + 1},
         \A earlier \in Ids : earlier < nextId => fdOf'[earlier] = fdOf[earlier]
  PROVE  Replaced(id)'
<1>1. PICK later \in Ids :
        id < later /\ later < nextId /\ fdOf[later] = fdOf[id]
  BY DEF Replaced
<1>2. later < nextId' /\ fdOf'[later] = fdOf'[id] /\ fdOf'[id] \in StreamFds
  BY <1>1 DEF Replaced, Typed, TypeOK, Ids
<1>3. QED
  BY <1>1, <1>2 DEF Replaced

(* Steps that lose nothing. *)
LEMMA InReachKept ==
  ASSUME Typed, Owned, InReach, opc # "closed",
         nextId' \in {nextId, nextId + 1},
         \A earlier \in Ids : earlier < nextId => fdOf'[earlier] = fdOf[earlier],
         live' \ Held' \subseteq live \ Held, ArmedForFd'
  PROVE  InReach'
<1> SUFFICES ASSUME ~CallbacksMayThrow, NEW id \in Leaked' PROVE Replaced(id)'
  BY DEF InReach, LostOnlyIfReplaced
<1>1. id \in Leaked /\ id \in Ids
  BY DEF Leaked, Typed, TypeOK
<1>2. Replaced(id)
  BY <1>1 DEF InReach, LostOnlyIfReplaced
<1>3. id < nextId
  BY <1>1 DEF Leaked, Owned, Fresh, Typed, TypeOK, Ids
<1>4. QED
  BY <1>1, <1>2, <1>3, ReplacedKept

LEMMA InReachSubmitToPool ==
  ASSUME Typed, Owned, InReach, NEW fd, SubmitToPool(fd)
  PROVE  InReach'
<1>1. /\ nextId \in Ids /\ nextId' = nextId + 1 /\ live' = live \cup {nextId}
      /\ fdOf' = [fdOf EXCEPT ![nextId] = fd] /\ armed' = armed
      /\ opc # "closed"
  BY DEF SubmitToPool, TakeId, AllocRequest, pollVars, InCallback
<1>2. Held' = Held \cup {nextId}
  BY OwnedSubmitToPool
<1>3. \A earlier \in Ids : earlier < nextId => fdOf'[earlier] = fdOf[earlier]
  BY <1>1 DEF Typed, TypeOK, Ids
<1>4. nextId \notin Held
  BY <1>1, HeldHandedOut
<1>5. \A f \in StreamFds : armed[f] # nextId
  BY <1>1, <1>4 DEF Held, Armed, Range, Typed, TypeOK, Null, Ids
<1>6. ArmedForFd'
  BY <1>1, <1>5 DEF InReach, ArmedForFd, Typed, TypeOK
<1>7. QED
  BY <1>1, <1>2, <1>3, <1>6, InReachKept

LEMMA InReachSubmitToEpoll ==
  ASSUME Typed, Owned, InReach, NEW fd, SubmitToEpoll(fd)
  PROVE  InReach'
<1>1. /\ nextId \in Ids /\ nextId' = nextId + 1 /\ live' = live \cup {nextId}
      /\ fd \in StreamFds
      /\ fdOf' = [fdOf EXCEPT ![nextId] = fd]
      /\ armed' = [armed EXCEPT ![fd] = nextId]
      /\ opc # "closed"
  BY DEF SubmitToEpoll, TakeId, AllocRequest, InCallback
<1>2. Held \cup {nextId} \subseteq Held' \cup {armed[fd]}
  BY OwnedSubmitToEpoll
<1>3. \A earlier \in Ids : earlier < nextId => fdOf'[earlier] = fdOf[earlier]
  BY <1>1 DEF Typed, TypeOK, Ids
<1>4. nextId \notin Held
  BY <1>1, HeldHandedOut
<1>5. \A f \in StreamFds : armed[f] # nextId
  BY <1>1, <1>4 DEF Held, Armed, Range, Typed, TypeOK, Null, Ids
<1>6. fdOf'[nextId] = fd
  BY <1>1 DEF Typed, TypeOK
<1>7. ArmedForFd'
  BY <1>1, <1>5, <1>6 DEF InReach, ArmedForFd, Typed, TypeOK
<1>8. SUFFICES ASSUME ~CallbacksMayThrow, NEW id \in Leaked'
               PROVE  Replaced(id)'
  BY <1>7 DEF InReach, LostOnlyIfReplaced
<1>9. id \in live /\ id \in Ids /\ id < nextId /\ (id \in Held => id = armed[fd])
  <2>1. id \in live' /\ id \notin Held'
    BY DEF Leaked
  <2>2. id # nextId
    BY <1>1, <1>2, <1>5, <2>1
  <2>3. QED
    BY <1>1, <1>2, <2>1, <2>2 DEF Owned, Fresh, Typed, TypeOK, Ids
<1>10. CASE id \in Held
  <2>1. id = armed[fd] /\ armed[fd] # Null
    BY <1>9, <1>10 DEF Null, Ids
  <2>2. fdOf[id] = fd
    BY <1>1, <2>1 DEF InReach, ArmedForFd
  <2>3. fdOf'[id] = fd /\ fdOf'[nextId] = fd
    BY <1>3, <1>6, <1>9, <2>2
  <2>4. id < nextId /\ nextId < nextId'
    BY <1>1, <1>9 DEF Ids
  <2>5. QED
    BY <1>1, <2>3, <2>4 DEF Replaced
<1>11. CASE id \notin Held
  <2>1. Replaced(id)
    BY <1>1, <1>8, <1>9, <1>11 DEF InReach, LostOnlyIfReplaced, Leaked
  <2>2. QED
    BY <1>1, <1>3, <1>9, <2>1, ReplacedKept
<1>12. QED
  BY <1>10, <1>11

LEMMA InReachPollWait ==
  ASSUME Typed, Owned, InReach, PollWait
  PROVE  InReach'
<1>1. /\ opc # "closed" /\ UNCHANGED <<nextId, fdOf, live>>
      /\ \A f \in StreamFds : armed'[f] \in {Null, armed[f]}
  BY DEF PollWait, haxeVars, fields, allocVars
<1>2. Held' = Held
  BY OwnedPollWait
<1>3. ArmedForFd'
  BY <1>1 DEF InReach, ArmedForFd
<1>4. QED
  BY <1>1, <1>2, <1>3, InReachKept

(* Everything else leaves the pointers in epoll alone. *)
LEMMA InReachOther ==
  ASSUME Typed, Owned, InReach, opc # "closed",
         nextId' \in {nextId, nextId + 1}, UNCHANGED <<fdOf, armed>>,
         live' \ Held' \subseteq live \ Held
  PROVE  InReach'
<1>1. ArmedForFd'
  BY DEF InReach, ArmedForFd
<1>2. QED
  BY <1>1, InReachKept

LEMMA InReachStep == Typed /\ Owned /\ Joined /\ InReach /\ [Next]_vars => InReach'
<1> SUFFICES ASSUME Typed, Owned, Joined, InReach, [Next]_vars PROVE InReach'
  OBVIOUS
<1> USE DEF haxeVars, fields, allocVars, poolVars, completionVars, pollVars,
            ownVars
<1>1. CASE Create
  <2>1. Held' = Held
    BY <1>1, OwnedQuiet DEF Create, Reported
  <2>2. QED
    BY <1>1, <2>1, InReachOther DEF Create
<1>2. CASE Submit
  <2>1. ASSUME NEW fd, SubmitRefused(fd) PROVE InReach'
    <3>1. Held' = Held
      BY <2>1, OwnedSubmitRefused
    <3>2. QED
      BY <2>1, <3>1, InReachOther DEF SubmitRefused, TakeId, InCallback
  <2>2. QED
    BY <1>2, <2>1, InReachSubmitToPool, InReachSubmitToEpoll DEF Submit
<1>3. CASE PollWait
  BY <1>3, InReachPollWait
<1>4. CASE PollStep
  <2>1. CASE PollDrainPipe
    <3>1. Held' = Held
      BY <2>1, OwnedQuiet DEF PollDrainPipe, Reported
    <3>2. QED
      BY <2>1, <3>1, InReachOther DEF PollDrainPipe
  <2>2. CASE PollLockCompleted \/ PollUnlockCompleted \/ PollReturns
    <3>1. Held' = Held
      BY <2>2, OwnedQuiet
      DEF PollLockCompleted, PollUnlockCompleted, PollReturns, Reported
    <3>2. QED
      BY <2>2, <3>1, InReachOther
      DEF PollLockCompleted, PollUnlockCompleted, PollReturns
  <2>3. CASE PollDeliverCompleted
    BY <2>3, OwnedPollDeliverCompleted, InReachOther DEF PollDeliverCompleted
  <2>4. CASE PollDeliverReady
    BY <2>4, OwnedPollDeliverReady, InReachOther DEF PollDeliverReady
  <2>5. CASE CallbackReturns
    <3>1. Held' = Held \ {cur} /\ live' = live \ {cur}
      BY <2>5, OwnedCallbackReturns DEF CallbackReturns
    <3>2. QED
      BY <2>5, <3>1, InReachOther DEF CallbackReturns, InCallback
  <2>6. QED
    BY <1>4, <2>1, <2>2, <2>3, <2>4, <2>5 DEF PollStep
<1>5. CASE CallbackThrows
  BY <1>5
  DEF CallbackThrows, InReach, LostOnlyIfReplaced, ArmedForFd
<1>6. CASE CloseSetStop \/ CloseNotifyAll
  <2>1. Held' = Held
    BY <1>6, OwnedQuiet DEF CloseSetStop, CloseNotifyAll, Reported
  <2>2. QED
    BY <1>6, <2>1, InReachOther DEF CloseSetStop, CloseNotifyAll
<1>7. CASE CloseFinish
  BY <1>7 DEF CloseFinish, InReach, LostOnlyIfReplaced, ArmedForFd
<1>8. ASSUME NEW w \in Workers, Worker(w) \/ WorkerSpuriousWake(w)
      PROVE  InReach'
  <2>1. UNCHANGED <<nextId, fdOf, armed, live, opc>>
    BY <1>8
    DEF Worker, WorkerTop, WorkerTake, WorkerQuit, WorkerFindsNothing,
        WorkerBlock, WorkerComplete, WorkerSignal, WorkerSpuriousWake
  <2>2. wpc[w] # "exit"
    BY <1>8
    DEF Worker, WorkerTop, WorkerTake, WorkerQuit, WorkerFindsNothing,
        WorkerBlock, WorkerComplete, WorkerSignal, WorkerSpuriousWake
  <2>3. opc # "closed"
    BY <2>2 DEF Joined
  <2>4. CASE WorkerTake(w)
    BY <2>1, <2>3, <2>4, OwnedWorkerTake, InReachOther
  <2>5. CASE WorkerComplete(w)
    BY <2>1, <2>3, <2>5, OwnedWorkerComplete, InReachOther
  <2>6. CASE \/ WorkerTop(w) \/ WorkerQuit(w) \/ WorkerFindsNothing(w)
             \/ WorkerBlock(w) \/ WorkerSignal(w) \/ WorkerSpuriousWake(w)
    <3>1. Held' = Held
      BY <2>6, OwnedQuiet
      DEF WorkerTop, WorkerQuit, WorkerFindsNothing, WorkerBlock, WorkerSignal,
          WorkerSpuriousWake, Reported
    <3>2. QED
      BY <2>1, <2>3, <3>1, InReachOther
  <2>7. QED
    BY <1>8, <2>4, <2>5, <2>6 DEF Worker
<1>9. CASE UNCHANGED vars
  <2>1. Held' = Held
    BY <1>9, OwnedQuiet DEF vars, Reported
  <2>2. opc' = opc /\ UNCHANGED <<nextId, fdOf, armed, live>>
    BY <1>9 DEF vars
  <2>3. CASE opc = "closed"
    BY <2>2, <2>3 DEF InReach, LostOnlyIfReplaced, ArmedForFd
  <2>4. QED
    BY <2>1, <2>2, <2>3, InReachOther
<1>10. QED
  BY <1>1, <1>2, <1>3, <1>4, <1>5, <1>6, <1>7, <1>8, <1>9 DEF Next, CloseStep

(* While the loop is open and callbacks do not throw, the only requests that
   are never called back nor freed are those whose stream was submitted again
   before they were called back, for every number of streams and workers and
   every length of the events array. *)
THEOREM LostRequestsWereReplaced == Spec => []LostOnlyIfReplaced
<1>1. Init => InReach
  <2>1. Init => live = {} /\ ArmedForFd
    BY DEF Init, ArmedForFd
  <2>2. QED
    BY <2>1 DEF InReach, LostOnlyIfReplaced, Leaked
<1>2. IInv /\ InReach /\ [Next]_vars => InReach'
  BY InReachStep DEF IInv
<1>3. InReach => LostOnlyIfReplaced
  BY DEF InReach
<1>4. QED
  BY <1>1, <1>2, <1>3, Inductive, PTL DEF Spec

-----------------------------------------------------------------------------
(***************************************************************************)
(* The loop implements AsyncEngine.                                        *)
(***************************************************************************)

(* Whatever leaves the phase and the status of every submission alone is a
   stutter of the engine. *)
LEMMA EngineStutters ==
  ASSUME Phase' = Phase, \A id \in Ids : StatusOf(id)' = StatusOf(id)
  PROVE  UNCHANGED Engine!vars
BY DEF Engine!vars

(* The status of a submission is about its id, its callback, its allocation
   and the end of the loop, and of nothing else. *)
LEMMA StatusKept ==
  ASSUME UNCHANGED <<nextId, calls, live>>, opc # "closed", opc' # "closed"
  PROVE  \A id \in Ids : StatusOf(id)' = StatusOf(id)
BY DEF StatusOf

LEMMA EngineCreate ==
  ASSUME Create
  PROVE  Engine!Open
<1>1. /\ opc = "new" /\ opc' \in {"idle", "failed"}
      /\ UNCHANGED <<nextId, calls, live>>
  BY DEF Create, haxeVars
<1>2. Phase = "new" /\ Phase' \in {"open", "closed"}
  BY <1>1 DEF Phase
<1>3. \A id \in Ids : StatusOf(id)' = StatusOf(id)
  BY <1>1, StatusKept
<1>4. QED
  BY <1>2, <1>3 DEF Engine!Open

(* The three ways in which a submission ends have in common that they use up
   the next id. *)
LEMMA EngineTakeId ==
  ASSUME Typed, Owned, TakeId, UNCHANGED <<calls, opc>>,
         NEW new, new = nextId, live' \in {live, live \cup {new}}
  PROVE  /\ Phase = "open" /\ Phase' = "open"
         /\ new \in Ids /\ StatusOf(new) = "unused"
         /\ StatusOf(new)' = IF new \in live' THEN "pending" ELSE "discarded"
         /\ \A id \in Ids \ {new} : StatusOf(id)' = StatusOf(id)
<1>1. /\ new \in Ids /\ nextId' = new + 1
      /\ opc \in {"idle", "fileCallback", "streamCallback"}
  BY DEF TakeId, InCallback
<1>2. calls[new] = 0
  BY <1>1 DEF Owned, Fresh, Ids
<1>3. StatusOf(new) = "unused"
  BY <1>1 DEF StatusOf, Ids
<1>4. StatusOf(new)' = IF new \in live' THEN "pending" ELSE "discarded"
  BY <1>1, <1>2 DEF StatusOf, Ids
<1>5. ASSUME NEW id \in Ids \ {new} PROVE StatusOf(id)' = StatusOf(id)
  <2>1. id >= nextId <=> id >= nextId'
    BY <1>1, <1>5 DEF Ids
  <2>2. id \in live <=> id \in live'
    BY <1>5
  <2>3. QED
    BY <1>1, <2>1, <2>2 DEF StatusOf
<1>6. Phase = "open" /\ Phase' = "open"
  BY <1>1 DEF Phase
<1>7. QED
  BY <1>1, <1>3, <1>4, <1>5, <1>6

LEMMA EngineSubmit ==
  ASSUME Typed, Owned, Submit
  PROVE  \E id \in Ids : Engine!Accept(id) \/ Engine!Refuse(id)
<1>1. PICK new : new = nextId
  OBVIOUS
<1>2. ASSUME NEW fd, SubmitToPool(fd) \/ SubmitToEpoll(fd)
      PROVE  new \in Ids /\ Engine!Accept(new)
  <2>1. /\ TakeId /\ live' = live \cup {new}
        /\ UNCHANGED <<calls, opc>>
    BY <1>1, <1>2 DEF SubmitToPool, SubmitToEpoll, AllocRequest, pollVars
  <2>2. QED
    BY <1>1, <2>1, EngineTakeId DEF Engine!Accept
<1>3. ASSUME NEW fd, SubmitRefused(fd)
      PROVE  new \in Ids /\ Engine!Refuse(new)
  <2>1. TakeId /\ UNCHANGED <<calls, opc, live>>
    BY <1>3 DEF SubmitRefused, haxeVars, allocVars, pollVars
  <2>2. new \notin live
    BY <1>1, <2>1, HeldHandedOut DEF TakeId
  <2>3. QED
    BY <1>1, <2>1, <2>2, EngineTakeId DEF Engine!Refuse
<1>4. QED
  BY <1>2, <1>3 DEF Submit

(* The callback that _dispatch finds is that of a pending submission. *)
LEMMA EngineDispatch ==
  ASSUME Typed, Owned, NEW id \in Ids, id \in Held \ Running, Dispatch(id),
         opc \in {"deliver", "events"},
         opc' \in {"fileCallback", "streamCallback"},
         UNCHANGED <<nextId, live>>
  PROVE  Engine!Deliver(id)
<1>1. id \in live /\ id \in requests /\ calls[id] = 0
  BY DEF Owned, SingleOwner, CallbackExactlyOnce
<1>2. id < nextId
  BY <1>1 DEF Owned, Fresh, Typed, TypeOK, Ids
<1>3. calls' = [calls EXCEPT ![id] = 1]
  BY <1>1 DEF Dispatch
<1>4. StatusOf(id) = "pending" /\ StatusOf(id)' = "delivered"
  BY <1>1, <1>2, <1>3 DEF StatusOf, Typed, TypeOK, Ids
<1>5. \A other \in Ids \ {id} : StatusOf(other)' = StatusOf(other)
  BY <1>3 DEF StatusOf, Typed, TypeOK
<1>6. Phase = "open" /\ Phase' = "open"
  BY DEF Phase
<1>7. QED
  BY <1>4, <1>5, <1>6 DEF Engine!Deliver

LEMMA EngineDeliverCompleted ==
  ASSUME Typed, Owned, PollDeliverCompleted
  PROVE  \E id \in Ids : Engine!Deliver(id)
<1> DEFINE id == Head(completed)
<1>1. /\ opc = "deliver" /\ opc' = "fileCallback" /\ cur = Null
      /\ completed # <<>> /\ Dispatch(id) /\ UNCHANGED <<nextId, live>>
  BY DEF PollDeliverCompleted, Typed, Control, InCallback, allocVars
<1>2. id \in Ids /\ id \in Completed
  BY <1>1, TailElements DEF Completed, Typed, TypeOK
<1>3. id \in Held \ Running
  BY <1>1, <1>2 DEF Held, Running
<1>4. QED
  BY <1>1, <1>2, <1>3, EngineDispatch

LEMMA EngineDeliverReady ==
  ASSUME Typed, Owned, PollDeliverReady
  PROVE  \E id \in Ids : Engine!Deliver(id)
<1>1. PICK id \in batch \ {SelfPipe} : Dispatch(id)
  BY DEF PollDeliverReady
<1>2. /\ opc = "events" /\ opc' = "streamCallback" /\ cur = Null
      /\ UNCHANGED <<nextId, live>>
  BY DEF PollDeliverReady, Typed, Control, InCallback, allocVars
<1>3. id \in Ids /\ id \in Held \ Running
  BY <1>1, <1>2 DEF Held, Reported, Running, Typed, TypeOK
<1>4. QED
  BY <1>1, <1>2, <1>3, EngineDispatch

(* The request that is freed was delivered when its callback started. *)
LEMMA EngineCallbackEnds ==
  ASSUME Typed, Owned, CallbackReturns
  PROVE  UNCHANGED Engine!vars
<1>1. /\ live' = live \ {cur} /\ UNCHANGED <<nextId, calls>>
      /\ opc \in {"fileCallback", "streamCallback"}
      /\ opc' \in {"deliver", "events"} /\ cur # Null
  BY DEF CallbackReturns, InCallback, Typed, Control
<1>2. calls[cur] = 1
  BY <1>1 DEF Owned, CallbackExactlyOnce
<1>3. \A id \in Ids : StatusOf(id)' = StatusOf(id)
  BY <1>1, <1>2 DEF StatusOf
<1>4. Phase' = Phase
  BY <1>1 DEF Phase
<1>5. QED
  BY <1>3, <1>4, EngineStutters

LEMMA EngineCloses ==
  ASSUME CloseFinish
  PROVE  Engine!Close
<1>1. /\ opc = "joining" /\ opc' = "closed" /\ live' \subseteq live
      /\ UNCHANGED <<nextId, calls>>
  BY DEF CloseFinish, haxeVars
<1>2. \A id \in Ids :
        StatusOf(id)' = IF StatusOf(id) = "pending" THEN "discarded"
                        ELSE StatusOf(id)
  BY <1>1 DEF StatusOf
<1>3. Phase = "open" /\ Phase' = "closed"
  BY <1>1 DEF Phase
<1>4. QED
  BY <1>2, <1>3 DEF Engine!Close

(* Every other step keeps ids, callbacks, allocations and phase. *)
LEMMA EngineQuiet ==
  ASSUME UNCHANGED <<nextId, calls, live>>,
         \/ opc' = opc
         \/ {opc, opc'} \cap {"new", "failed", "closed"} = {}
  PROVE  UNCHANGED Engine!vars
<1>1. Phase' = Phase
  BY DEF Phase
<1>2. \A id \in Ids : StatusOf(id)' = StatusOf(id)
  BY DEF StatusOf
<1>3. QED
  BY <1>1, <1>2, EngineStutters

LEMMA EngineStep == IInv /\ [Next]_vars => [Engine!Next]_Engine!vars
<1> SUFFICES ASSUME Typed, Owned, [Next]_vars
             PROVE  Engine!Next \/ UNCHANGED Engine!vars
  BY DEF IInv
<1> USE DEF haxeVars, allocVars
<1>1. CASE Create
  BY <1>1, EngineCreate DEF Engine!Next
<1>2. CASE Submit
  BY <1>2, EngineSubmit DEF Engine!Next
<1>3. CASE PollDeliverCompleted \/ PollDeliverReady
  BY <1>3, EngineDeliverCompleted, EngineDeliverReady DEF Engine!Next
<1>4. CASE CallbackReturns
  BY <1>4, EngineCallbackEnds
<1>5. CASE CloseFinish
  BY <1>5, EngineCloses DEF Engine!Next
<1>6. CASE \/ PollWait \/ PollDrainPipe \/ PollLockCompleted
           \/ PollUnlockCompleted \/ PollReturns \/ CallbackThrows
           \/ CloseSetStop \/ CloseNotifyAll
  <2>1. /\ UNCHANGED <<nextId, calls, live>>
        /\ {opc, opc'} \cap {"new", "failed", "closed"} = {}
    BY <1>6
    DEF PollWait, PollDrainPipe, PollLockCompleted, PollUnlockCompleted,
        PollReturns, CallbackThrows, InCallback, CloseSetStop, CloseNotifyAll
  <2>2. QED
    BY <2>1, EngineQuiet
<1>7. ASSUME NEW w \in Workers, Worker(w) \/ WorkerSpuriousWake(w)
      PROVE  UNCHANGED Engine!vars
  <2>1. UNCHANGED <<nextId, calls, live, opc>>
    BY <1>7
    DEF Worker, WorkerTop, WorkerTake, WorkerQuit, WorkerFindsNothing,
        WorkerBlock, WorkerComplete, WorkerSignal, WorkerSpuriousWake, pollVars
  <2>2. QED
    BY <2>1, EngineQuiet
<1>8. CASE UNCHANGED vars
  BY <1>8, EngineQuiet DEF vars, pollVars
<1>9. QED
  BY <1>1, <1>2, <1>3, <1>4, <1>5, <1>6, <1>7, <1>8
  DEF Next, PollStep, CloseStep

(* Every behaviour of the loop is one of the engine: what is accepted is called
   back at most once and only while the loop is open, what is refused never, and
   closing discards what is left. *)
THEOREM LoopImplementsEngine == Spec => ImplementsAsyncEngine
<1>1. Init => Engine!Init
  BY DEF Init, Engine!Init, Phase, StatusOf, Ids
<1>2. QED
  BY <1>1, EngineStep, Inductive, PTL DEF Spec, ImplementsAsyncEngine, Engine!Spec

=============================================================================
