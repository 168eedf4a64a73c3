------------------------------ MODULE NativeLoop ------------------------------
(***************************************************************************)
(* The completion-based event loop of digigun.sys on Linux: the POSIX      *)
(* branch of native/src/loop_native.cpp together with the Haxe class       *)
(* digigun.sys.io.NativeLoop that owns it.                                 *)
(*                                                                         *)
(* One owner thread submits requests, polls and closes the loop.  Requests *)
(* on regular files go through a mutex/condition-variable queue to a fixed *)
(* pool of workers, which hand them back in `completed' and write one byte *)
(* to a self-pipe.  Requests on pipes and sockets are armed, one shot, in  *)
(* an epoll instance and performed by the poller itself.                   *)
(***************************************************************************)
EXTENDS Integers, Sequences, FiniteSets, Functions

CONSTANTS
  Workers,          (* the pool's threads; loop_create starts 4                *)
  MaxRequests,      (* bound on the number of submissions of a behaviour       *)
  FileFds,          (* descriptors that fstat reports as regular files         *)
  StreamFds,        (* pipes and sockets                                       *)
  BadFds,           (* closed descriptors: fstat and epoll_ctl fail on them    *)
  PipeCapacity,     (* bytes the self-pipe holds before a write blocks         *)
  MaxEvents,        (* length of the events array of loop_poll; 64 in the code *)
  CallbacksMayThrow (* whether a Haxe callback may throw through loop_poll     *)

ASSUME NativeLoopAssumption ==
  /\ Workers # {} /\ IsFiniteSet(Workers)
  /\ MaxRequests \in Nat
  /\ PipeCapacity \in Nat \ {0}
  /\ MaxEvents \in Nat \ {0}
  /\ CallbacksMayThrow \in BOOLEAN

Ids == 1 .. MaxRequests

(* The null pointer: no request, and the data.ptr of the self-pipe event. *)
Null == 0
SelfPipe == Null

(* The fd field of a request that does not exist. *)
NoFd == "none"
Fds == FileFds \cup StreamFds \cup BadFds

VARIABLES
  nextId,     (* NativeLoop._nextId                                            *)
  requests,   (* keys of NativeLoop._requests                                  *)
  live,       (* requests that are malloc'ed and not yet freed                 *)
  isFile,     (* requests whose is_file flag is set                            *)
  fdOf,       (* the fd field of each request                                  *)
  allocs,     (* digigun::g_active_allocations                                 *)
  queue,      (* loop->queue                                                   *)
  completed,  (* loop->completed                                               *)
  pipe,       (* bytes written to self_pipe[1] and not read from self_pipe[0]  *)
  stop,       (* loop->stop                                                    *)
  wpc, wreq,  (* where each worker is, and its local `req'                     *)
  armed,      (* per stream descriptor, the data.ptr epoll will report         *)
  opc,        (* where the owner thread is                                     *)
  batch,      (* unprocessed part of the events array of loop_poll             *)
  cur,        (* the request whose callback runs                               *)
  calls       (* history: how often each request's Haxe callback was called    *)

haxeVars == <<nextId, requests, calls>>
allocVars == <<live, allocs>>
poolVars == <<queue, stop, wpc, wreq>>
completionVars == <<completed, pipe>>
pollVars == <<armed, opc, batch, cur>>
fields == <<isFile, fdOf>>
vars == <<haxeVars, fields, allocVars, poolVars, completionVars, pollVars>>

(***************************************************************************)
(* The two mutexes.  A worker owns loop->mutex only between finding        *)
(* nothing to do and blocking (every other critical section is one step);  *)
(* the poller owns loop->comp_mutex while it empties `completed', the      *)
(* callbacks included.                                                     *)
(***************************************************************************)
MutexFree == \A w \in Workers : wpc[w] # "toBlock"
CompMutexFree == opc \notin {"deliver", "fileCallback"}

Waiting == {w \in Workers : wpc[w] = "waiting"}
InCallback == opc \in {"fileCallback", "streamCallback"}

-----------------------------------------------------------------------------
(* loop_create: on failure of pipe() the loop is deleted and 0 is returned. *)
Create ==
  /\ opc = "new"
  /\ \/ /\ opc' = "idle"
        /\ allocs' = allocs + 1
        /\ wpc' = [w \in Workers |-> "top"]
     \/ /\ opc' = "failed"
        /\ UNCHANGED <<allocs, wpc>>
  /\ UNCHANGED <<haxeVars, fields, live, queue, stop, wreq, completionVars,
                 armed, batch, cur>>

-----------------------------------------------------------------------------
(***************************************************************************)
(* NativeLoop.submit and loop_submit.  The owner submits between polls or  *)
(* from a callback.  `_requests' is set before the native call and the     *)
(* entry removed again when the call fails.                                *)
(***************************************************************************)
TakeId ==
  /\ opc = "idle" \/ InCallback
  /\ nextId \in Ids
  /\ nextId' = nextId + 1

AllocRequest ==
  /\ live' = live \cup {nextId}
  /\ allocs' = allocs + 1
  /\ requests' = requests \cup {nextId}

(* Mutant: the queue is filled without a notification. *)
NotifyNobody == UNCHANGED wpc

(* cv.notify_one *)
NotifyOne ==
  IF Waiting = {} THEN UNCHANGED wpc
  ELSE \E w \in Waiting : wpc' = [wpc EXCEPT ![w] = "check"]

(* fstat's result is not checked: on a bad descriptor st is uninitialised
   and may say "regular file". *)
SubmitToPool(fd) ==
  /\ fd \in FileFds \cup BadFds
  /\ TakeId /\ AllocRequest
  /\ MutexFree
  /\ isFile' = isFile \cup {nextId}
  /\ fdOf' = [fdOf EXCEPT ![nextId] = fd]
  /\ queue' = Append(queue, nextId)
  /\ NotifyOne
  /\ UNCHANGED <<calls, stop, wreq, completionVars, pollVars>>

(* EPOLL_CTL_ADD, or EPOLL_CTL_MOD when the descriptor is in the interest
   list already: either way data.ptr is now the new request.  The client
   leaves its streams open while the loop is. *)
SubmitToEpoll(fd) ==
  /\ fd \in StreamFds
  /\ TakeId /\ AllocRequest
  /\ armed' = [armed EXCEPT ![fd] = nextId]
  /\ fdOf' = [fdOf EXCEPT ![nextId] = fd]
  /\ UNCHANGED <<calls, isFile, poolVars, completionVars, opc, batch, cur>>

(* Mutant: the counter is not decremented when epoll_ctl fails. *)
SubmitRefusedCounted(fd) ==
  /\ fd \in Fds
  /\ TakeId
  /\ allocs' = allocs + 1
  /\ UNCHANGED <<requests, calls, fields, live, poolVars, completionVars,
                 pollVars>>

(* EPOLL_CTL_ADD fails, on a bad descriptor or, for want of memory or of
   watches, on any: the request is freed and the map entry removed.  When
   malloc finds no memory for a request, a regular file's too, the entry is
   removed just the same. *)
SubmitRefused(fd) ==
  /\ fd \in Fds
  /\ TakeId
  /\ UNCHANGED <<requests, calls, fields, allocVars, poolVars, completionVars,
                 pollVars>>

Submit ==
  \/ \E fd \in FileFds \cup BadFds : SubmitToPool(fd)
  \/ \E fd \in StreamFds : SubmitToEpoll(fd)
  \/ \E fd \in Fds : SubmitRefused(fd)

-----------------------------------------------------------------------------
(* posix_worker_thread: while (!loop->stop) *)
WorkerTop(w) ==
  /\ wpc[w] = "top"
  /\ wpc' = [wpc EXCEPT ![w] = IF stop THEN "exit" ELSE "check"]
  /\ UNCHANGED <<haxeVars, fields, allocVars, queue, stop, wreq,
                 completionVars, pollVars>>

(* Mutant: queue.front() without queue.pop(). *)
WorkerTakeWithoutPop(w) ==
  /\ wpc[w] = "check" /\ MutexFree
  /\ queue # <<>>
  /\ wreq' = [wreq EXCEPT ![w] = Head(queue)]
  /\ wpc' = [wpc EXCEPT ![w] = "io"]
  /\ UNCHANGED <<haxeVars, fields, allocVars, queue, stop, completionVars,
                 pollVars>>

(* With loop->mutex: the predicate of cv.wait holds and the front request is
   taken off the queue. *)
WorkerTake(w) ==
  /\ wpc[w] = "check" /\ MutexFree
  /\ queue # <<>>
  /\ wreq' = [wreq EXCEPT ![w] = Head(queue)]
  /\ queue' = Tail(queue)
  /\ wpc' = [wpc EXCEPT ![w] = "io"]
  /\ UNCHANGED <<haxeVars, fields, allocVars, stop, completionVars, pollVars>>

(* if (loop->stop && loop->queue.empty()) break *)
WorkerQuit(w) ==
  /\ wpc[w] = "check" /\ MutexFree
  /\ queue = <<>> /\ stop
  /\ wpc' = [wpc EXCEPT ![w] = "exit"]
  /\ UNCHANGED <<haxeVars, fields, allocVars, queue, stop, wreq,
                 completionVars, pollVars>>

(* The predicate is false.  cv.wait is about to block, mutex still held:
   stop is written without that mutex. *)
WorkerFindsNothing(w) ==
  /\ wpc[w] = "check" /\ MutexFree
  /\ queue = <<>> /\ ~stop
  /\ wpc' = [wpc EXCEPT ![w] = "toBlock"]
  /\ UNCHANGED <<haxeVars, fields, allocVars, queue, stop, wreq,
                 completionVars, pollVars>>

WorkerBlock(w) ==
  /\ wpc[w] = "toBlock"
  /\ wpc' = [wpc EXCEPT ![w] = "waiting"]
  /\ UNCHANGED <<haxeVars, fields, allocVars, queue, stop, wreq,
                 completionVars, pollVars>>

(* A condition variable may wake up spuriously. *)
WorkerSpuriousWake(w) ==
  /\ wpc[w] = "waiting"
  /\ wpc' = [wpc EXCEPT ![w] = "check"]
  /\ UNCHANGED <<haxeVars, fields, allocVars, queue, stop, wreq,
                 completionVars, pollVars>>

(* read or write, then completed.push(req) under comp_mutex *)
WorkerComplete(w) ==
  /\ wpc[w] = "io" /\ CompMutexFree
  /\ completed' = Append(completed, wreq[w])
  /\ wreq' = [wreq EXCEPT ![w] = Null]
  /\ wpc' = [wpc EXCEPT ![w] = "signal"]
  /\ UNCHANGED <<haxeVars, fields, allocVars, queue, stop, pipe, pollVars>>

(* write(self_pipe[1], ..., 1): that end of the pipe is blocking. *)
WorkerSignal(w) ==
  /\ wpc[w] = "signal"
  /\ pipe < PipeCapacity
  /\ pipe' = pipe + 1
  /\ wpc' = [wpc EXCEPT ![w] = "top"]
  /\ UNCHANGED <<haxeVars, fields, allocVars, queue, stop, wreq, completed,
                 pollVars>>

Worker(w) ==
  \/ WorkerTop(w) \/ WorkerTake(w) \/ WorkerQuit(w) \/ WorkerFindsNothing(w)
  \/ WorkerBlock(w) \/ WorkerComplete(w) \/ WorkerSignal(w)

-----------------------------------------------------------------------------
(***************************************************************************)
(* loop_poll.  epoll_wait reports at most MaxEvents of what is ready: the  *)
(* self-pipe (level triggered) when it holds a byte, and any of the armed  *)
(* requests, whose peers decide when they are ready; a reported request is *)
(* disarmed (EPOLLONESHOT).  The reported events are processed in some     *)
(* order.  A poll that reports nothing changes nothing.                    *)
(***************************************************************************)
Armed == Range(armed) \ {Null}
PipeEvent == IF pipe > 0 THEN {SelfPipe} ELSE {}

(* Mutant: what is ready is disarmed even where the events array has no room
   to report it. *)
PollWaitDisarmsReady ==
  /\ opc = "idle"
  /\ \E ready \in SUBSET Armed :
       \E events \in SUBSET (ready \cup PipeEvent) :
         /\ events # {}
         /\ \/ events = ready \cup PipeEvent /\ Cardinality(events) <= MaxEvents
            \/ Cardinality(events) = MaxEvents
         /\ batch' = events
         /\ armed' = [fd \in StreamFds |->
                        IF armed[fd] \in ready THEN Null ELSE armed[fd]]
  /\ opc' = "events"
  /\ UNCHANGED <<haxeVars, fields, allocVars, poolVars, completionVars, cur>>

PollWait ==
  /\ opc = "idle"
  /\ \E ready \in SUBSET Armed :
       \E events \in SUBSET (ready \cup PipeEvent) :
         /\ events # {}
         /\ \/ events = ready \cup PipeEvent /\ Cardinality(events) <= MaxEvents
            \/ Cardinality(events) = MaxEvents
         /\ batch' = events
         /\ armed' = [fd \in StreamFds |->
                        IF armed[fd] \in events THEN Null ELSE armed[fd]]
  /\ opc' = "events"
  /\ UNCHANGED <<haxeVars, fields, allocVars, poolVars, completionVars, cur>>

(* Mutant: the completed requests are looked at before the pipe is drained,
   so that what is pushed in between loses its byte. *)
PollDrainAfterDelivering ==
  /\ opc = "events" /\ SelfPipe \in batch
  /\ pipe' = 0
  /\ batch' = batch \ {SelfPipe}
  /\ UNCHANGED <<haxeVars, fields, allocVars, poolVars, completed, armed, opc,
                 cur>>

(* while (read(self_pipe[0], buf, sizeof(buf)) > 0) *)
PollDrainPipe ==
  /\ opc = "events" /\ SelfPipe \in batch
  /\ pipe' = 0
  /\ batch' = batch \ {SelfPipe}
  /\ opc' = "drained"
  /\ UNCHANGED <<haxeVars, fields, allocVars, poolVars, completed, armed, cur>>

PollLockCompleted ==
  /\ opc = "drained"
  /\ opc' = "deliver"
  /\ UNCHANGED <<haxeVars, fields, allocVars, poolVars, completionVars, armed,
                 batch, cur>>

(* _dispatch finds the callback in _requests and calls it; the entry is
   removed only after the call. *)
Dispatch(id) ==
  /\ cur' = id
  /\ calls' = IF id \in requests THEN [calls EXCEPT ![id] = @ + 1] ELSE calls

(* Mutant: completed.front() without completed.pop(). *)
PollDeliverWithoutPop ==
  /\ opc = "deliver" /\ completed # <<>>
  /\ Dispatch(Head(completed))
  /\ opc' = "fileCallback"
  /\ UNCHANGED <<nextId, requests, fields, allocVars, poolVars, completionVars,
                 armed, batch>>

PollDeliverCompleted ==
  /\ opc = "deliver" /\ completed # <<>>
  /\ completed' = Tail(completed)
  /\ Dispatch(Head(completed))
  /\ opc' = "fileCallback"
  /\ UNCHANGED <<nextId, requests, fields, allocVars, poolVars, pipe, armed,
                 batch>>

PollUnlockCompleted ==
  /\ opc = "deliver" /\ completed = <<>>
  /\ opc' = "events"
  /\ UNCHANGED <<haxeVars, fields, allocVars, poolVars, completionVars, armed,
                 batch, cur>>

(* A ready pipe or socket: the poller itself reads or writes. *)
PollDeliverReady ==
  /\ opc = "events"
  /\ \E id \in batch \ {SelfPipe} :
       /\ batch' = batch \ {id}
       /\ Dispatch(id)
  /\ opc' = "streamCallback"
  /\ UNCHANGED <<nextId, requests, fields, allocVars, poolVars, completionVars,
                 armed>>

(* _requests.remove(id), free(req), g_active_allocations-- *)
CallbackReturns ==
  /\ InCallback
  /\ requests' = requests \ {cur}
  /\ live' = live \ {cur}
  /\ allocs' = allocs - 1
  /\ cur' = Null
  /\ opc' = IF opc = "fileCallback" THEN "deliver" ELSE "events"
  /\ UNCHANGED <<nextId, calls, fields, poolVars, completionVars, armed, batch>>

(* The exception unwinds loop_poll: the lock is released, the request is not
   freed, the rest of the events array is forgotten. *)
CallbackThrows ==
  /\ CallbacksMayThrow /\ InCallback
  /\ opc' = "idle"
  /\ batch' = {}
  /\ cur' = Null
  /\ UNCHANGED <<haxeVars, fields, allocVars, poolVars, completionVars, armed>>

PollReturns ==
  /\ opc = "events" /\ batch = {}
  /\ opc' = "idle"
  /\ UNCHANGED <<haxeVars, fields, allocVars, poolVars, completionVars, armed,
                 batch, cur>>

PollStep ==
  \/ PollDrainPipe \/ PollLockCompleted \/ PollDeliverCompleted
  \/ PollUnlockCompleted \/ PollDeliverReady \/ CallbackReturns \/ PollReturns

-----------------------------------------------------------------------------
(* loop_close: stop is set and the workers notified without loop->mutex. *)
CloseSetStop ==
  /\ opc = "idle"
  /\ stop' = TRUE
  /\ opc' = "stopping"
  /\ UNCHANGED <<haxeVars, fields, allocVars, queue, wpc, wreq, completionVars,
                 armed, batch, cur>>

(* Mutant: one worker is notified instead of all. *)
CloseNotifyOne ==
  /\ opc = "stopping"
  /\ NotifyOne
  /\ opc' = "joining"
  /\ UNCHANGED <<haxeVars, fields, allocVars, queue, stop, wreq,
                 completionVars, armed, batch, cur>>

CloseNotifyAll ==
  /\ opc = "stopping"
  /\ wpc' = [w \in Workers |-> IF w \in Waiting THEN "check" ELSE wpc[w]]
  /\ opc' = "joining"
  /\ UNCHANGED <<haxeVars, fields, allocVars, queue, stop, wreq,
                 completionVars, armed, batch, cur>>

(* Mutant: what is completed and not yet delivered is not freed. *)
CloseForgetsCompleted ==
  /\ opc = "joining"
  /\ \A w \in Workers : wpc[w] = "exit"
  /\ live' = live \ Range(queue)
  /\ allocs' = allocs - Len(queue) - 1
  /\ queue' = <<>> /\ completed' = <<>> /\ pipe' = 0
  /\ armed' = [fd \in StreamFds |-> Null]
  /\ opc' = "closed"
  /\ UNCHANGED <<haxeVars, fields, stop, wpc, wreq, batch, cur>>

(* Once every worker is joined: free what is queued or completed, close the
   descriptors (with the epoll instance goes what is armed), delete loop. *)
CloseFinish ==
  /\ opc = "joining"
  /\ \A w \in Workers : wpc[w] = "exit"
  /\ live' = live \ (Range(queue) \cup Range(completed))
  /\ allocs' = allocs - Len(queue) - Len(completed) - 1
  /\ queue' = <<>>
  /\ completed' = <<>>
  /\ pipe' = 0
  /\ armed' = [fd \in StreamFds |-> Null]
  /\ opc' = "closed"
  /\ UNCHANGED <<haxeVars, fields, stop, wpc, wreq, batch, cur>>

CloseStep == CloseNotifyAll \/ CloseFinish

-----------------------------------------------------------------------------
Init ==
  /\ nextId = 1
  /\ requests = {} /\ live = {} /\ isFile = {}
  /\ fdOf = [id \in Ids |-> NoFd]
  /\ allocs = 0
  /\ queue = <<>> /\ completed = <<>> /\ pipe = 0
  /\ stop = FALSE
  /\ wpc = [w \in Workers |-> "unborn"]
  /\ wreq = [w \in Workers |-> Null]
  /\ armed = [fd \in StreamFds |-> Null]
  /\ opc = "new" /\ batch = {} /\ cur = Null
  /\ calls = [id \in Ids |-> 0]

Next ==
  \/ Create
  \/ Submit
  \/ PollWait
  \/ PollStep
  \/ CallbackThrows
  \/ CloseSetStop
  \/ CloseStep
  \/ \E w \in Workers : Worker(w) \/ WorkerSpuriousWake(w)

Spec == Init /\ [][Next]_vars

(***************************************************************************)
(* Fairness.  The threads of the pool run, callbacks return, and an owner  *)
(* that started to poll or to close goes on; the client keeps polling      *)
(* while the loop is open, as the example in README.md does.  Nothing      *)
(* makes it submit or close, and no spurious wake-up is owed to anyone.    *)
(***************************************************************************)
Fairness ==
  /\ \A w \in Workers : WF_vars(Worker(w))
  /\ WF_vars(PollWait)
  /\ WF_vars(PollStep)
  /\ WF_vars(CloseStep)

FairSpec == Spec /\ Fairness
-----------------------------------------------------------------------------
(***************************************************************************)
(* Properties.                                                             *)
(***************************************************************************)
WorkerPcs == {"unborn", "top", "check", "toBlock", "waiting", "io", "signal",
              "exit"}
OwnerPcs == {"new", "failed", "idle", "events", "drained", "deliver",
             "fileCallback", "streamCallback", "stopping", "joining", "closed"}

(* The type invariant. *)
TypeOK ==
  /\ nextId \in 1 .. MaxRequests + 1
  /\ requests \subseteq Ids /\ live \subseteq Ids /\ isFile \subseteq Ids
  /\ fdOf \in [Ids -> Fds \cup {NoFd}]
  /\ allocs \in Int
  /\ queue \in Seq(Ids) /\ completed \in Seq(Ids)
  /\ pipe \in 0 .. PipeCapacity
  /\ stop \in BOOLEAN
  /\ wpc \in [Workers -> WorkerPcs]
  /\ wreq \in [Workers -> Ids \cup {Null}]
  /\ armed \in [StreamFds -> Ids \cup {Null}]
  /\ opc \in OwnerPcs
  /\ batch \subseteq Ids \cup {SelfPipe}
  /\ cur \in Ids \cup {Null}
  /\ calls \in [Ids -> Nat]

(* Where a request can be: each place that holds its pointer. *)
Queued == Range(queue)
InHand == Range(wreq) \ {Null}
Completed == Range(completed)
Reported == batch \ {SelfPipe}
Running == {cur} \ {Null}
Held == UNION {Queued, InHand, Completed, Armed, Reported, Running}

(* Allocated, and out of reach of every part of the loop: such a request is
   never performed, called back or freed. *)
Leaked == live \ Held

(* The pointer of a request is in one place only, and only while the request
   is allocated: loop_submit, the workers, the poller and loop_close hand it
   on without ever duplicating it, so nothing is freed twice or used after it
   was freed. *)
SingleOwner ==
  /\ Held \subseteq live
  /\ IsInjective(queue) /\ IsInjective(completed)
  /\ \A v, w \in Workers : v # w /\ wreq[v] # Null => wreq[v] # wreq[w]
  /\ \A f, g \in StreamFds : f # g /\ armed[f] # Null => armed[f] # armed[g]
  /\ Queued \cap InHand = {} /\ Queued \cap Completed = {}
  /\ InHand \cap Completed = {}
  /\ (Queued \cup InHand \cup Completed) \cap (Armed \cup Reported) = {}
  /\ Armed \cap Reported = {}
  /\ cur \notin UNION {Queued, InHand, Completed, Armed, Reported}

(* A completion that is waiting in `completed' is never forgotten: a byte for
   it is in the self-pipe, or its worker is about to write one, or the poller
   has drained the pipe and not yet looked at the queue.  This is what the
   order push-then-write of the worker and drain-then-lock of loop_poll is
   for. *)
NoLostCompletion ==
  completed # <<>> =>
    \/ pipe > 0
    \/ \E w \in Workers : wpc[w] = "signal"
    \/ opc \in {"drained", "deliver", "fileCallback"}

(* Until a request's callback runs, the request is registered in _requests and
   has not been called back; no callback ever runs twice.  So _dispatch always
   finds the callback of what the native side completes. *)
CallbackExactlyOnce ==
  /\ \A id \in Ids : calls[id] <= 1
  /\ \A id \in Held \ Running : id \in requests /\ calls[id] = 0
  /\ cur # Null => cur \in requests /\ calls[cur] = 1

(* The global counter that the Battlefield suite reads is the number of
   objects in memory: the loop itself and the requests not yet freed. *)
AllocationsCounted ==
  allocs = Cardinality(live)
           + IF opc \in {"new", "failed", "closed"} THEN 0 ELSE 1

(* As long as no callback throws, a request on a regular file is never out of
   reach, and loop_close frees every one that is left. *)
FileRequestsNotLeaked ==
  ~CallbacksMayThrow =>
    /\ Leaked \cap isFile = {}
    /\ opc = "closed" => live \cap isFile = {}

(* A request was replaced if another one was accepted later for its stream:
   EPOLL_CTL_MOD overwrote the pointer that epoll held. *)
Replaced(id) ==
  /\ fdOf[id] \in StreamFds
  /\ \E later \in Ids :
       id < later /\ later < nextId /\ fdOf[later] = fdOf[id]

(* As long as no callback throws and the loop is open, there is only one way
   for a request to get lost, never called back and never freed: a second
   submission on the same stream before the first one was called back, which
   loop_submit turns into EPOLL_CTL_MOD.  A client with one request at a time
   on each stream loses none, however many are ready at once and whatever its
   callbacks submit while the events of one poll are processed. *)
LostOnlyIfReplaced ==
  ~CallbacksMayThrow /\ opc # "closed" => \A id \in Leaked : Replaced(id)

(* A request on a regular file is called back (and freed) if the owner keeps
   polling and does not close the loop. *)
FileRequestServed ==
  \A id \in Ids : (id \in live \cap isFile) ~> (id \notin live \/ stop)

(* The two ways in which loop_close can hang: a worker has found nothing to do
   and not yet blocked when notify_all goes by, or the self-pipe, which nobody
   drains any more, has no room for what is still to be completed. *)
LostWakeupPossible == ~MutexFree
PipeHasRoom ==
  pipe + Len(queue) + Cardinality({w \in Workers : wpc[w] \in {"io", "signal"}})
    <= PipeCapacity

(* A loop_close that runs into neither returns, whatever the workers are doing
   and however much is still queued: each of them leaves its loop. *)
CloseReturnsUnlessRaced ==
  (opc = "stopping" /\ ~LostWakeupPossible /\ PipeHasRoom) ~> (opc = "closed")

(* loop_native.h:20-22, "Closes the event loop handle.": loop_close returns. *)
CloseReturns == (opc = "stopping") ~> (opc = "closed")

-----------------------------------------------------------------------------
(***************************************************************************)
(* The loop implements AsyncEngine.  A submission is pending from the      *)
(* malloc of its request until its callback starts, delivered when it was  *)
(* called once, and by a second call it would be "repeated", which is no   *)
(* status of the engine; a loop that loop_close has not finished with is   *)
(* still open.                                                             *)
(***************************************************************************)
Phase ==
  CASE opc = "new" -> "new"
    [] opc \in {"failed", "closed"} -> "closed"
    [] OTHER -> "open"

StatusOf(id) ==
  IF id >= nextId THEN "unused"
  ELSE IF calls[id] = 1 THEN "delivered"
  ELSE IF calls[id] > 1 THEN "repeated"
  ELSE IF id \in live /\ opc # "closed" THEN "pending"
  ELSE "discarded"

Engine == INSTANCE AsyncEngine
            WITH phase <- Phase, status <- [id \in Ids |-> StatusOf(id)]

(* Every behaviour of the loop is a behaviour of AsyncEngine: callbacks run at
   most once, after a callback that threw too, only for accepted requests and
   only while the loop is open. *)
ImplementsAsyncEngine == Engine!Spec
=============================================================================
