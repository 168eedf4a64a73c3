-------------------------------- MODULE Signals --------------------------------
(***************************************************************************)
(* Signal.hx over signal_native.cpp (POSIX branch).  A signal interrupts a *)
(* thread wherever it is: native_signal_handler runs on top of what the    *)
(* thread was doing, locks the mutex that signal_trap locks, and calls the *)
(* Haxe callback while it holds it.  A thread is a stack of frames, of     *)
(* which the last one runs.                                                *)
(***************************************************************************)
EXTENDS Integers, Sequences

CONSTANTS
  Threads, Signos, Callbacks,
  Uncatchable, (* signals sigaction refuses, such as KILL                   *)
  MaxFrames,   (* bound: frames of a thread                                 *)
  MaxSteps     (* bound: calls of trap plus signals delivered               *)

ASSUME SignalsAssumption ==
  MaxFrames \in Nat /\ MaxSteps \in Nat /\ Uncatchable \subseteq Signos

VARIABLES
  handlers,   (* g_signal_handlers: the signals that have an entry, and which
                 callback it is: "none" is a null                           *)
  roots,      (* per signal: how often its entry is registered as a GC root *)
  installed,  (* the signals for which sigaction installed the handler      *)
  stack,      (* per thread: its frames                                     *)
  owner,      (* g_signal_mutex: thread and depth of the frame that holds it *)
  signalSteps (* bound                                                      *)

signalTable == <<handlers, roots, installed>>
signalsVars == <<signalTable, stack, owner, signalSteps>>

Unlocked == <<>>
Trappable == Callbacks \cup {"none"}
Depth(t) == Len(stack[t])
Top(t) == stack[t][Depth(t)]
AtTop(t, op, at) == stack[t] # <<>> /\ Top(t).op = op /\ Top(t).at = at
Push(t, frame) ==
  /\ Depth(t) < MaxFrames /\ signalSteps < MaxSteps
  /\ stack' = [stack EXCEPT ![t] = Append(@, frame)]
  /\ signalSteps' = signalSteps + 1
Pop(t) == stack' = [stack EXCEPT ![t] = SubSeq(@, 1, Len(@) - 1)]

SignalsInit ==
  /\ handlers = <<>> /\ installed = {}
  /\ roots = [s \in Signos |-> 0]
  /\ stack = [t \in Threads |-> <<>>]
  /\ owner = Unlocked /\ signalSteps = 0

(* Signal.trap, from a thread that is idle or inside a callback; Haxe passes a
   null callback through. *)
CallTrap(t, s, cb) ==
  /\ stack[t] = <<>> \/ AtTop(t, "handler", "callback")
  /\ Push(t, [op |-> "trap", at |-> "lock", sig |-> s, cb |-> cb])
  /\ UNCHANGED <<signalTable, owner>>

(* A signal, from outside or by Signal.raise: the kernel holds it back only
   while its own handler runs in this thread (sa_mask is empty). *)
Deliver(t, s) ==
  /\ s \in installed
  /\ \A i \in 1 .. Depth(t) : stack[t][i].op = "handler" => stack[t][i].sig # s
  /\ Push(t, [op |-> "handler", at |-> "lock", sig |-> s, cb |-> "none"])
  /\ UNCHANGED <<signalTable, owner>>

(* std::lock_guard: a thread that holds the mutex already waits for itself. *)
LockSignals(t) ==
  /\ stack[t] # <<>> /\ Top(t).at = "lock"
  /\ owner = Unlocked
  /\ owner' = <<t, Depth(t)>>
  /\ stack' = [stack EXCEPT ![t][Depth(t)].at = "held"]
  /\ UNCHANGED <<signalTable, signalSteps>>

Store(s, cb) ==
  /\ handlers' = [r \in DOMAIN handlers \cup {s} |-> IF r = s THEN cb ELSE handlers[r]]
  /\ roots' = [roots EXCEPT ![s] =
                 LET others == IF s \in DOMAIN handlers /\ @ > 0 THEN @ - 1 ELSE @
                 IN  IF cb = "none" THEN others ELSE others + 1]

(* signal_trap behind the lock: if sigaction refuses, the entry stays. *)
Trap(t) ==
  /\ AtTop(t, "trap", "held")
  /\ Store(Top(t).sig, Top(t).cb)
  /\ installed' = installed \cup ({Top(t).sig} \ Uncatchable)
  /\ owner' = Unlocked /\ Pop(t)
  /\ UNCHANGED signalSteps

(* Mutant: the callback runs without the mutex. *)
CallbackUnlocked(t) ==
  /\ AtTop(t, "handler", "held") /\ handlers[Top(t).sig] # "none"
  /\ owner' = Unlocked
  /\ stack' = [stack EXCEPT ![t][Depth(t)].at = "callback",
                            ![t][Depth(t)].cb = handlers[Top(t).sig]]
  /\ UNCHANGED <<signalTable, signalSteps>>

(* The handler finds the callback and calls it. *)
CallbackBegins(t) ==
  /\ AtTop(t, "handler", "held") /\ handlers[Top(t).sig] # "none"
  /\ stack' = [stack EXCEPT ![t][Depth(t)].at = "callback",
                            ![t][Depth(t)].cb = handlers[Top(t).sig]]
  /\ UNCHANGED <<signalTable, owner, signalSteps>>

(* A null was trapped: the handler stays installed and calls nothing. *)
HandlerFindsNull(t) ==
  /\ AtTop(t, "handler", "held") /\ handlers[Top(t).sig] = "none"
  /\ owner' = Unlocked /\ Pop(t)
  /\ UNCHANGED <<signalTable, signalSteps>>

(* Mutant: the handler returns without unlocking. *)
HandlerKeepsMutex(t) ==
  /\ AtTop(t, "handler", "callback")
  /\ Pop(t)
  /\ UNCHANGED <<signalTable, owner, signalSteps>>

HandlerReturns(t) ==
  /\ AtTop(t, "handler", "callback")
  /\ owner' = IF owner = <<t, Depth(t)>> THEN Unlocked ELSE owner
  /\ Pop(t)
  /\ UNCHANGED <<signalTable, signalSteps>>

RunTop(t) ==
  \/ LockSignals(t) \/ Trap(t)
  \/ CallbackBegins(t) \/ HandlerFindsNull(t) \/ HandlerReturns(t)

SignalsNext == \E t \in Threads :
          \/ RunTop(t)
          \/ \E s \in Signos : Deliver(t, s) \/ \E cb \in Trappable : CallTrap(t, s, cb)

SignalsSpec == SignalsInit /\ [][SignalsNext]_signalsVars

-----------------------------------------------------------------------------
Frame == [op : {"trap", "handler"}, at : {"lock", "held", "callback"},
          sig : Signos, cb : Trappable]

(* The type invariant. *)
SignalsTypeOK ==
  /\ DOMAIN handlers \subseteq Signos
  /\ \A s \in DOMAIN handlers : handlers[s] \in Trappable
  /\ roots \in [Signos -> Int] /\ installed \subseteq Signos
  /\ stack \in [Threads -> Seq(Frame)]

Trapped(s) == s \in DOMAIN handlers /\ handlers[s] # "none"

(* Every entry with a callback is a GC root exactly once, and no other is one,
   whatever traps, of nulls too, replaced it and whether sigaction accepted the
   signal. *)
RootedOnce == \A s \in Signos : roots[s] = IF Trapped(s) THEN 1 ELSE 0

(* A callback that runs is the one that is trapped now, and rooted: no other
   thread can replace it, and take its root away, until it returns. *)
RunningCallbackRooted ==
  /\ RootedOnce
  /\ \A t \in Threads : \A i \in 1 .. Depth(t) :
       LET f == stack[t][i]
       IN f.at = "callback" => Trapped(f.sig) /\ handlers[f.sig] = f.cb

(* The thread that holds the mutex waits for it in a frame above. *)
SelfDeadlock ==
  \E t \in Threads : stack[t] # <<>> /\ Top(t).at = "lock" /\ owner # Unlocked
                     /\ owner[1] = t

(* Every trap and every handler gets the mutex and returns, unless a thread was
   interrupted, or called trap, while it held the mutex itself: no two threads
   wait for each other. *)
CallsReturnUnlessSelfDeadlock ==
  \A t \in Threads : stack[t] # <<>> ~> (stack[t] = <<>> \/ SelfDeadlock)
=============================================================================
