------------------------- MODULE SignalsFifosProofs --------------------------
(***************************************************************************)
(* Theorems about Signals, for any number of threads, signals, callbacks   *)
(* and frames: what the mutex that a handler holds protects; and about     *)
(* Fifos, for any number of fifos and of descriptors and any capacity: the *)
(* bytes between a writer and readAll, and what select answers.            *)
(***************************************************************************)
EXTENDS Signals, Fifos, FiniteSetTheorems, SequenceTheorems, TLAPS

-----------------------------------------------------------------------------
(***************************************************************************)
(* Signals.                                                                *)
(***************************************************************************)

(* A frame behind the lock is the one that holds it; so there is only one. *)
FrameOwnsMutex ==
  \A t \in Threads : \A i \in 1 .. Len(stack[t]) :
    stack[t][i].at # "lock" => owner = <<t, i>>

(* Only handlers call back, and for signals that were trapped; a callback runs
   as long as it is the trapped one. *)
FramesTrapped ==
  \A t \in Threads : \A i \in 1 .. Len(stack[t]) :
    LET f == stack[t][i]
    IN /\ f.at = "callback" =>
            f.op = "handler" /\ handlers[f.sig] = f.cb /\ f.cb # "none"
       /\ f.op = "handler" => f.sig \in DOMAIN handlers

Inv ==
  /\ SignalsTypeOK
  /\ installed \subseteq DOMAIN handlers
  /\ FrameOwnsMutex /\ FramesTrapped
  /\ RootedOnce

LEMMA InvInit == SignalsInit => Inv
<1> SUFFICES ASSUME SignalsInit PROVE Inv
  OBVIOUS
<1>1. DOMAIN handlers = {}
  BY DEF SignalsInit
<1>2. stack \in [Threads -> Seq(Frame)] /\ \A t \in Threads : Len(stack[t]) = 0
  BY EmptySeq DEF SignalsInit
<1>3. roots \in [Signos -> Int] /\ \A s \in Signos : roots[s] = 0
  BY DEF SignalsInit
<1>4. QED
  BY <1>1, <1>2, <1>3
     DEF Inv, SignalsTypeOK, FrameOwnsMutex, FramesTrapped, RootedOnce, Trapped, SignalsInit

-----------------------------------------------------------------------------
(***************************************************************************)
(* What the three ways of changing a stack do to its frames.               *)
(***************************************************************************)
LEMMA PushFrame ==
  ASSUME NEW t \in Threads, NEW f \in Frame, SignalsTypeOK, Push(t, f)
  PROVE  /\ stack' \in [Threads -> Seq(Frame)]
         /\ \A u \in Threads : \A i \in 1 .. Len(stack'[u]) :
              \/ i \in 1 .. Len(stack[u]) /\ stack'[u][i] = stack[u][i]
              \/ stack'[u][i] = f
<1> DEFINE s == Append(stack[t], f)
<1>1. stack[t] \in Seq(Frame)
  BY DEF SignalsTypeOK
<1>2. /\ s \in Seq(Frame) /\ Len(s) = Len(stack[t]) + 1
      /\ \A i \in 1 .. Len(stack[t]) : s[i] = stack[t][i]
      /\ s[Len(s)] = f
  BY <1>1, AppendProperties
<1>3. Len(stack[t]) \in Nat
  BY <1>1, LenProperties
<1>4. stack' = [stack EXCEPT ![t] = s]
  BY DEF Push
<1> HIDE DEF s
<1>5. stack' \in [Threads -> Seq(Frame)]
  BY <1>2, <1>4 DEF SignalsTypeOK
<1>6. ASSUME NEW u \in Threads, NEW i \in 1 .. Len(stack'[u])
      PROVE  \/ i \in 1 .. Len(stack[u]) /\ stack'[u][i] = stack[u][i]
             \/ stack'[u][i] = f
  <2>1. CASE u = t
    BY <1>2, <1>3, <1>4, <2>1 DEF SignalsTypeOK
  <2>2. CASE u # t
    BY <1>4, <2>2 DEF SignalsTypeOK
  <2>3. QED
    BY <2>1, <2>2
<1>7. QED
  BY <1>5, <1>6

LEMMA PopFrame ==
  ASSUME NEW t \in Threads, SignalsTypeOK, stack[t] # <<>>, Pop(t)
  PROVE  /\ stack' \in [Threads -> Seq(Frame)]
         /\ Len(stack[t]) \in Nat \ {0} /\ Len(stack'[t]) = Len(stack[t]) - 1
         /\ \A u \in Threads : u # t => stack'[u] = stack[u]
         /\ \A i \in 1 .. Len(stack'[t]) : stack'[t][i] = stack[t][i]
<1> DEFINE s == SubSeq(stack[t], 1, Len(stack[t]) - 1)
<1>1. stack[t] \in Seq(Frame) /\ Len(stack[t]) \in Nat \ {0}
  BY EmptySeq, LenProperties DEF SignalsTypeOK
<1>2. /\ s \in Seq(Frame) /\ Len(s) = Len(stack[t]) - 1
      /\ \A i \in 1 .. Len(stack[t]) - 1 : s[i] = stack[t][i]
  BY <1>1, SubSeqProperties
<1>3. stack' = [stack EXCEPT ![t] = s]
  BY DEF Pop
<1> HIDE DEF s
<1>4. QED
  BY <1>1, <1>2, <1>3 DEF SignalsTypeOK

LEMMA TopFrame ==
  ASSUME NEW t \in Threads, SignalsTypeOK, stack[t] # <<>>
  PROVE  /\ Len(stack[t]) \in 1 .. Len(stack[t])
         /\ Top(t) = stack[t][Len(stack[t])] /\ Top(t) \in Frame
<1>1. stack[t] \in Seq(Frame)
  BY DEF SignalsTypeOK
<1>2. Len(stack[t]) \in Nat /\ Len(stack[t]) # 0
  BY <1>1, EmptySeq, LenProperties
<1>3. stack[t][Len(stack[t])] \in Frame
  BY <1>1, <1>2, ElementOfSeq
<1>4. QED
  BY <1>2, <1>3 DEF Top, Depth

LEMMA EditTop ==
  ASSUME NEW t \in Threads, SignalsTypeOK, stack[t] # <<>>, NEW f \in Frame,
         stack' = [stack EXCEPT ![t] = [@ EXCEPT ![Len(stack[t])] = f]]
  PROVE  /\ stack' \in [Threads -> Seq(Frame)]
         /\ \A u \in Threads : Len(stack'[u]) = Len(stack[u])
         /\ stack'[t][Len(stack[t])] = f
         /\ \A u \in Threads : \A i \in 1 .. Len(stack[u]) :
              <<u, i>> # <<t, Len(stack[t])>> => stack'[u][i] = stack[u][i]
<1>1. stack[t] \in Seq(Frame) /\ Len(stack[t]) \in 1 .. Len(stack[t])
  BY TopFrame DEF SignalsTypeOK
<1> DEFINE s == [stack[t] EXCEPT ![Len(stack[t])] = f]
<1>2. /\ s \in Seq(Frame) /\ Len(s) = Len(stack[t]) /\ s[Len(stack[t])] = f
      /\ \A i \in 1 .. Len(stack[t]) : i # Len(stack[t]) => s[i] = stack[t][i]
  BY <1>1, ExceptSeq
<1>3. stack' = [stack EXCEPT ![t] = s]
  OBVIOUS
<1> HIDE DEF s
<1>4. QED
  BY <1>2, <1>3 DEF SignalsTypeOK

-----------------------------------------------------------------------------
(***************************************************************************)
(* One lemma per step.                                                     *)
(***************************************************************************)
LEMMA PushStep ==
  ASSUME NEW t \in Threads, NEW f \in Frame, f.at = "lock",
         f.op = "handler" => f.sig \in DOMAIN handlers,
         Inv, Push(t, f), UNCHANGED <<signalTable, owner>>
  PROVE  Inv'
<1>1. UNCHANGED <<handlers, roots, installed, owner>>
  BY DEF signalTable
<1>2. /\ stack' \in [Threads -> Seq(Frame)]
      /\ \A u \in Threads : \A i \in 1 .. Len(stack'[u]) :
           \/ i \in 1 .. Len(stack[u]) /\ stack'[u][i] = stack[u][i]
           \/ stack'[u][i] = f
  BY PushFrame DEF Inv
<1>3. SignalsTypeOK' /\ RootedOnce' /\ (installed \subseteq DOMAIN handlers)'
  BY <1>1, <1>2 DEF Inv, SignalsTypeOK, RootedOnce, Trapped
<1>4. FrameOwnsMutex'
  BY <1>1, <1>2 DEF Inv, FrameOwnsMutex
<1>5. FramesTrapped'
  BY <1>1, <1>2 DEF Inv, FramesTrapped
<1>6. QED
  BY <1>3, <1>4, <1>5 DEF Inv

LEMMA LockStep == ASSUME NEW t \in Threads, Inv, LockSignals(t) PROVE Inv'
<1> DEFINE d == Len(stack[t])
           f == [Top(t) EXCEPT !.at = "held"]
<1>1. /\ d \in 1 .. d /\ Top(t) = stack[t][d] /\ Top(t) \in Frame
      /\ owner = Unlocked /\ owner' = <<t, d>> /\ Top(t).at = "lock"
      /\ UNCHANGED <<handlers, roots, installed>>
  BY TopFrame DEF Inv, LockSignals, Depth, signalTable
<1>2. f \in Frame /\ f.at = "held" /\ f.op = Top(t).op /\ f.sig = Top(t).sig
  BY <1>1 DEF Frame
<1>3. stack' = [stack EXCEPT ![t] = [@ EXCEPT ![d] = f]]
  BY <1>1 DEF LockSignals, Depth
<1> HIDE DEF f
<1>4. /\ stack' \in [Threads -> Seq(Frame)]
      /\ \A u \in Threads : Len(stack'[u]) = Len(stack[u])
      /\ stack'[t][d] = f
      /\ \A u \in Threads : \A i \in 1 .. Len(stack[u]) :
           <<u, i>> # <<t, d>> => stack'[u][i] = stack[u][i]
  BY <1>2, <1>3, EditTop DEF Inv, LockSignals
<1>5. \A u \in Threads : \A i \in 1 .. Len(stack[u]) : owner # <<u, i>>
  BY <1>1 DEF Unlocked
<1>6. SignalsTypeOK' /\ RootedOnce' /\ (installed \subseteq DOMAIN handlers)'
  BY <1>1, <1>4 DEF Inv, SignalsTypeOK, RootedOnce, Trapped
<1>7. FrameOwnsMutex'
  BY <1>1, <1>2, <1>4, <1>5 DEF Inv, FrameOwnsMutex
<1>8. FramesTrapped'
  BY <1>1, <1>2, <1>4 DEF Inv, FramesTrapped
<1>9. QED
  BY <1>6, <1>7, <1>8 DEF Inv

(* signal_trap replaces an entry while no other frame is behind the lock. *)
LEMMA TrapStep == ASSUME NEW t \in Threads, Inv, Trap(t) PROVE Inv'
<1> DEFINE d == Len(stack[t])
           s == Top(t).sig
<1>1. /\ stack[t] # <<>> /\ Top(t).op = "trap" /\ Top(t).at = "held"
      /\ Pop(t) /\ owner' = Unlocked
      /\ Store(s, Top(t).cb)
      /\ installed' = installed \cup ({s} \ Uncatchable)
  BY DEF Trap, AtTop
<1>2. d \in 1 .. d /\ Top(t) = stack[t][d] /\ Top(t) \in Frame /\ s \in Signos
  BY <1>1, TopFrame DEF Inv, Frame
<1>3. owner = <<t, d>>
  BY <1>1, <1>2 DEF Inv, FrameOwnsMutex
<1>4. /\ stack' \in [Threads -> Seq(Frame)] /\ d \in Nat \ {0}
      /\ Len(stack'[t]) = d - 1
      /\ \A u \in Threads : u # t => stack'[u] = stack[u]
      /\ \A i \in 1 .. Len(stack'[t]) : stack'[t][i] = stack[t][i]
  BY <1>1, PopFrame DEF Inv
<1>5. \A u \in Threads : \A i \in 1 .. Len(stack'[u]) :
        /\ i \in 1 .. Len(stack[u]) /\ stack'[u][i] = stack[u][i]
        /\ <<u, i>> # <<t, d>>
  BY <1>2, <1>4
<1>6. \A u \in Threads : \A i \in 1 .. Len(stack'[u]) : stack'[u][i].at = "lock"
  BY <1>3, <1>5 DEF Inv, FrameOwnsMutex
<1>7. DOMAIN handlers' = DOMAIN handlers \cup {s}
  BY <1>1 DEF Store
<1>8. SignalsTypeOK' /\ RootedOnce'
  <2>1. \A r \in DOMAIN handlers' : handlers'[r] \in Trappable
    BY <1>1, <1>2 DEF Inv, SignalsTypeOK, Store, Frame
  <2>2. installed' \subseteq Signos /\ DOMAIN handlers' \subseteq Signos
    BY <1>1, <1>2, <1>7 DEF Inv, SignalsTypeOK
  <2>3. roots' \in [Signos -> Int] /\ RootedOnce'
    BY <1>1, <1>2, <1>7 DEF Inv, SignalsTypeOK, RootedOnce, Trapped, Store, Frame
  <2>4. QED
    BY <1>4, <2>1, <2>2, <2>3 DEF SignalsTypeOK
<1>9. (installed \subseteq DOMAIN handlers)'
  BY <1>1, <1>7 DEF Inv
<1>10. FrameOwnsMutex' /\ FramesTrapped'
  BY <1>5, <1>6, <1>7 DEF Inv, FrameOwnsMutex, FramesTrapped
<1>11. QED
  BY <1>8, <1>9, <1>10 DEF Inv

LEMMA CallbackBeginsStep == ASSUME NEW t \in Threads, Inv, CallbackBegins(t) PROVE Inv'
<1> DEFINE d == Len(stack[t])
           f == [Top(t) EXCEPT !.at = "callback", !.cb = handlers[Top(t).sig]]
<1>1. /\ stack[t] # <<>> /\ Top(t).op = "handler" /\ Top(t).at = "held"
      /\ UNCHANGED <<handlers, roots, installed, owner>>
  BY DEF CallbackBegins, AtTop, signalTable
<1>2. d \in 1 .. d /\ Top(t) = stack[t][d] /\ Top(t) \in Frame
  BY <1>1, TopFrame DEF Inv
<1>3. owner = <<t, d>> /\ Top(t).sig \in DOMAIN handlers
  BY <1>1, <1>2 DEF Inv, FrameOwnsMutex, FramesTrapped
<1>4. /\ f \in Frame /\ f.op = "handler" /\ f.sig = Top(t).sig
      /\ f.cb = handlers[f.sig] /\ f.cb # "none"
  BY <1>1, <1>2, <1>3 DEF Frame, Inv, SignalsTypeOK, CallbackBegins
<1>5. stack' = [stack EXCEPT ![t] = [@ EXCEPT ![d] = f]]
  BY <1>2 DEF CallbackBegins, Depth
<1> HIDE DEF f
<1>6. /\ stack' \in [Threads -> Seq(Frame)]
      /\ \A u \in Threads : Len(stack'[u]) = Len(stack[u])
      /\ stack'[t][d] = f
      /\ \A u \in Threads : \A i \in 1 .. Len(stack[u]) :
           <<u, i>> # <<t, d>> => stack'[u][i] = stack[u][i]
  BY <1>1, <1>4, <1>5, EditTop DEF Inv
<1>7. SignalsTypeOK' /\ RootedOnce' /\ (installed \subseteq DOMAIN handlers)'
  BY <1>1, <1>6 DEF Inv, SignalsTypeOK, RootedOnce, Trapped
<1>8. FrameOwnsMutex'
  BY <1>1, <1>3, <1>6 DEF Inv, FrameOwnsMutex
<1>9. FramesTrapped'
  BY <1>1, <1>3, <1>4, <1>6 DEF Inv, FramesTrapped
<1>10. QED
  BY <1>7, <1>8, <1>9 DEF Inv

(* The handler returns, with or without having called a callback. *)
LEMMA HandlerReturnsStep ==
  ASSUME NEW t \in Threads, Inv, HandlerReturns(t) \/ HandlerFindsNull(t)
  PROVE  Inv'
<1> DEFINE d == Len(stack[t])
<1>1. /\ stack[t] # <<>> /\ Top(t).at # "lock" /\ Pop(t)
      /\ UNCHANGED <<handlers, roots, installed>>
  BY DEF HandlerReturns, HandlerFindsNull, AtTop, signalTable
<1>2. d \in 1 .. d /\ Top(t) = stack[t][d]
  BY <1>1, TopFrame DEF Inv
<1>3. owner = <<t, d>>
  BY <1>1, <1>2 DEF Inv, FrameOwnsMutex
<1>4. /\ stack' \in [Threads -> Seq(Frame)] /\ d \in Nat \ {0}
      /\ Len(stack'[t]) = d - 1
      /\ \A u \in Threads : u # t => stack'[u] = stack[u]
      /\ \A i \in 1 .. Len(stack'[t]) : stack'[t][i] = stack[t][i]
  BY <1>1, PopFrame DEF Inv
<1>5. \A u \in Threads : \A i \in 1 .. Len(stack'[u]) :
        /\ i \in 1 .. Len(stack[u]) /\ stack'[u][i] = stack[u][i]
        /\ <<u, i>> # <<t, d>>
  BY <1>2, <1>4
<1>6. SignalsTypeOK' /\ RootedOnce' /\ (installed \subseteq DOMAIN handlers)'
  BY <1>1, <1>4 DEF Inv, SignalsTypeOK, RootedOnce, Trapped
<1>7. FrameOwnsMutex'
  BY <1>3, <1>5 DEF Inv, FrameOwnsMutex
<1>8. FramesTrapped'
  <2>1. \A u \in Threads : \A i \in 1 .. Len(stack[u]) :
          LET f == stack[u][i]
          IN /\ f.at = "callback" =>
               f.op = "handler" /\ handlers[f.sig] = f.cb /\ f.cb # "none"
             /\ f.op = "handler" => f.sig \in DOMAIN handlers
    BY DEF Inv, FramesTrapped
  <2>2. handlers' = handlers
    BY <1>1
  <2>3. QED
    BY <1>5, <2>1, <2>2 DEF FramesTrapped
<1>9. QED
  BY <1>6, <1>7, <1>8 DEF Inv

LEMMA InvStep == Inv /\ [SignalsNext]_signalsVars => Inv'
<1> SUFFICES ASSUME Inv, [SignalsNext]_signalsVars PROVE Inv'
  OBVIOUS
<1>1. ASSUME NEW t \in Threads, NEW s \in Signos, Deliver(t, s) PROVE Inv'
  <2> DEFINE f == [op |-> "handler", at |-> "lock", sig |-> s, cb |-> "none"]
  <2>1. f \in Frame /\ s \in DOMAIN handlers
    BY <1>1 DEF Deliver, Frame, Trappable, Inv
  <2>2. Push(t, f) /\ UNCHANGED <<signalTable, owner>>
    BY <1>1 DEF Deliver
  <2>3. f.at = "lock" /\ f.sig = s
    OBVIOUS
  <2> HIDE DEF f
  <2>4. QED
    BY <2>1, <2>2, <2>3, PushStep
<1>2. ASSUME NEW t \in Threads, NEW s \in Signos, NEW cb \in Trappable,
             CallTrap(t, s, cb)
      PROVE  Inv'
  <2> DEFINE f == [op |-> "trap", at |-> "lock", sig |-> s, cb |-> cb]
  <2>1. f \in Frame /\ f.at = "lock" /\ f.op # "handler"
    BY DEF Frame
  <2>2. Push(t, f) /\ UNCHANGED <<signalTable, owner>>
    BY <1>2 DEF CallTrap
  <2> HIDE DEF f
  <2>3. QED
    BY <2>1, <2>2, PushStep
<1>3. ASSUME NEW t \in Threads, RunTop(t) PROVE Inv'
  BY <1>3, LockStep, TrapStep, CallbackBeginsStep, HandlerReturnsStep DEF RunTop
<1>4. CASE UNCHANGED signalsVars
  <2>1. UNCHANGED <<handlers, roots, installed, stack, owner>>
    BY <1>4 DEF signalsVars, signalTable
  <2>2. QED
    BY <2>1 DEF Inv, SignalsTypeOK, FrameOwnsMutex, FramesTrapped, RootedOnce, Trapped
<1>5. QED
  BY <1>1, <1>2, <1>3, <1>4 DEF SignalsNext

(* A callback that native_signal_handler runs is the trapped one and a GC root,
   in every frame of every thread: signal_trap cannot drop it before it returns. *)
THEOREM SignalsCallbackRooted == SignalsSpec => []RunningCallbackRooted
<1>1. Inv => RunningCallbackRooted
  <2> SUFFICES ASSUME Inv, NEW t \in Threads, NEW i \in 1 .. Len(stack[t]),
                      stack[t][i].at = "callback"
               PROVE  /\ Trapped(stack[t][i].sig)
                      /\ handlers[stack[t][i].sig] = stack[t][i].cb
    BY DEF Inv, RunningCallbackRooted, Depth
  <2>1. QED
    BY DEF Inv, FramesTrapped, Trapped
<1>2. QED
  BY InvInit, InvStep, <1>1, PTL DEF SignalsSpec

-----------------------------------------------------------------------------
(***************************************************************************)
(* Fifos.                                                                  *)
(***************************************************************************)

(***************************************************************************)
(* The buffers of the readAlls, taken together: as many pairs as bytes.    *)
(***************************************************************************)
Held(f) == {p \in Fifos \X (1 .. MaxBytes) : p[2] <= f[p[1]]}

(* One buffer grows by k bytes, and by that the bytes held. *)
LEMMA HeldGrows ==
  ASSUME NEW f \in [Fifos -> 0 .. MaxBytes], NEW o \in Fifos, NEW k \in Nat,
         NEW g \in [Fifos -> 0 .. MaxBytes],
         g[o] = f[o] + k, \A p \in Fifos \ {o} : g[p] = f[p],
         IsFiniteSet(Held(f)), MaxBytes \in Nat
  PROVE  /\ IsFiniteSet(Held(g))
         /\ Cardinality(Held(g)) = Cardinality(Held(f)) + k
<1> DEFINE first == f[o] + 1
           last == f[o] + k
           new == first .. last
           added == {o} \X new
<1>1. f[o] \in Nat /\ first \in Int /\ last \in Int
  OBVIOUS
<1>2. IsFiniteSet(new) /\ Cardinality(new) = k
  <2>1. /\ IsFiniteSet(new)
        /\ Cardinality(new) = IF first > last THEN 0 ELSE last - first + 1
    <3> HIDE DEF first, last
    <3>. QED
      BY <1>1, FS_Interval
  <2>2. QED
    BY <1>1, <2>1
<1>3. IsFiniteSet({o}) /\ Cardinality({o}) = 1
  BY FS_Singleton
<1>4. IsFiniteSet(added) /\ Cardinality(added) = k
  <2>1. IsFiniteSet(added) /\ Cardinality(added) = Cardinality({o}) * Cardinality(new)
    <3> HIDE DEF new
    <3>. QED
      BY <1>2, <1>3, FS_Product
  <2>2. QED
    BY <1>2, <1>3, <2>1
<1>5. Held(g) = Held(f) \cup added
  BY <1>1 DEF Held
<1>6. Held(f) \cap added = {}
  BY <1>1 DEF Held
<1>7. Cardinality(Held(f) \cap added) = 0
  BY <1>6, FS_EmptySet
<1>8. Cardinality(Held(f)) \in Nat
  BY FS_CardinalityType
<1> HIDE DEF added
<1>9. /\ IsFiniteSet(Held(f) \cup added)
      /\ Cardinality(Held(f) \cup added)
           = Cardinality(Held(f)) + Cardinality(added) - Cardinality(Held(f) \cap added)
  BY <1>4, FS_Union
<1>10. Cardinality(Held(g)) = Cardinality(Held(f)) + k - 0
  BY <1>4, <1>5, <1>7, <1>9
<1>11. Cardinality(Held(g)) = Cardinality(Held(f)) + k
  BY <1>8, <1>10
<1>12. IsFiniteSet(Held(g))
  BY <1>5, <1>9
<1>13. QED
  BY <1>11, <1>12

(* One buffer is handed over: the bytes held are fewer by its bytes. *)
LEMMA HeldHandedOver ==
  ASSUME NEW f \in [Fifos -> 0 .. MaxBytes], NEW o \in Fifos,
         NEW g \in [Fifos -> 0 .. MaxBytes],
         g[o] = 0, \A p \in Fifos \ {o} : g[p] = f[p],
         IsFiniteSet(Held(f)), MaxBytes \in Nat
  PROVE  /\ IsFiniteSet(Held(g)) /\ Cardinality(Held(g)) \in Nat
         /\ Cardinality(Held(f)) = Cardinality(Held(g)) + f[o]
<1>1. f[o] \in Nat
  OBVIOUS
<1>2. f[o] = g[o] + f[o] /\ \A p \in Fifos \ {o} : f[p] = g[p]
  BY <1>1
<1>3. Held(g) \in SUBSET Held(f)
  BY <1>1 DEF Held
<1>4. IsFiniteSet(Held(g))
  BY <1>3, FS_Subset
<1>5. Cardinality(Held(f)) = Cardinality(Held(g)) + f[o]
  BY <1>1, <1>2, <1>4, HeldGrows
<1>6. QED
  BY <1>4, <1>5, FS_CardinalityType

(* No buffer holds more than all of them. *)
LEMMA HeldBounds ==
  ASSUME NEW f \in [Fifos -> 0 .. MaxBytes], NEW o \in Fifos,
         IsFiniteSet(Held(f)), MaxBytes \in Nat
  PROVE  f[o] <= Cardinality(Held(f)) /\ Cardinality(Held(f)) \in Nat
<1>1. f[o] \in Nat
  OBVIOUS
<1> DEFINE g == [f EXCEPT ![o] = 0]
<1>2. g \in [Fifos -> 0 .. MaxBytes] /\ g[o] = 0 /\ \A p \in Fifos \ {o} : g[p] = f[p]
  OBVIOUS
<1>3. Cardinality(Held(g)) \in Nat /\ Cardinality(Held(f)) = Cardinality(Held(g)) + f[o]
  <2> HIDE DEF g
  <2>. QED
    BY <1>2, HeldHandedOver
<1> HIDE DEF g
<1>4. QED
  BY <1>1, <1>3

-----------------------------------------------------------------------------
(***************************************************************************)
(* Bytes are conserved.                                                    *)
(***************************************************************************)
(* The inductive invariant: BytesConserved, the bound on what is written (so
   that a buffer of readAll stays within it), and that the bytes held are
   finite in number, whatever the number of objects. *)
BytesAccounted ==
  /\ {inPipe, written, returned, gone} \subseteq Nat
  /\ written <= MaxBytes
  /\ soFar \in [Fifos -> 0 .. MaxBytes]
  /\ IsFiniteSet(Held(soFar))
  /\ inPipe <= Capacity
  /\ written = inPipe + returned + gone + Cardinality(Held(soFar))

LEMMA BytesAccountedInit == FifosInit => BytesAccounted
<1> SUFFICES ASSUME FifosInit PROVE BytesAccounted
  OBVIOUS
<1>1. Held(soFar) = {}
  BY DEF FifosInit, Held
<1>2. IsFiniteSet(Held(soFar)) /\ Cardinality(Held(soFar)) = 0
  BY <1>1, FS_EmptySet
<1>3. QED
  BY <1>2, FifosAssumption DEF FifosInit, BytesAccounted

LEMMA BytesAccountedStep == BytesAccounted /\ [FifosNext]_fifosVars => BytesAccounted'
<1> SUFFICES ASSUME BytesAccounted, [FifosNext]_fifosVars PROVE BytesAccounted'
  OBVIOUS
<1>0. /\ Capacity \in Nat /\ Chunk \in Nat /\ MaxBytes \in Nat
      /\ inPipe \in Nat /\ written \in Nat /\ returned \in Nat /\ gone \in Nat
      /\ Cardinality(Held(soFar)) \in Nat
  BY FifosAssumption, FS_CardinalityType DEF BytesAccounted
<1>1. ASSUME UNCHANGED <<soFar, bytes>> PROVE BytesAccounted'
  BY <1>1 DEF BytesAccounted, bytes, Held
<1>2. ASSUME NEW o \in Fifos, CloseFifo(o) PROVE BytesAccounted'
  <2>1. UNCHANGED <<soFar, written, returned>>
    BY <1>2 DEF CloseFifo
  <2>2. \/ inPipe' = 0 /\ gone' = gone + inPipe
        \/ UNCHANGED <<inPipe, gone>>
    BY <1>2 DEF CloseFifo
  <2>3. Held(soFar)' = Held(soFar)
    BY <2>1 DEF Held
  <2>4. QED
    BY <1>0, <2>1, <2>2, <2>3 DEF BytesAccounted
<1>3. ASSUME NEW o \in Fifos, NEW n \in 1 .. MaxBytes, WriteFifo(o, n)
      PROVE  BytesAccounted'
  <2>1. /\ UNCHANGED <<soFar, returned, gone>>
        /\ n \in 1 .. MaxBytes - written
        /\ inPipe' = inPipe + Taken(n) /\ written' = written + Taken(n)
    BY <1>3 DEF WriteFifo
  <2>2. Taken(n) \in 0 .. n /\ inPipe + Taken(n) <= Capacity
    BY <1>0 DEF Taken, Space, BytesAccounted
  <2>3. Held(soFar)' = Held(soFar)
    BY <2>1 DEF Held
  <2>4. QED
    BY <1>0, <2>1, <2>2, <2>3 DEF BytesAccounted
<1>4. ASSUME NEW o \in Fifos, NEW n \in 1 .. MaxBytes, ReadFifo(o, n)
      PROVE  BytesAccounted'
  <2>1. /\ UNCHANGED <<soFar, written, gone>> /\ n \in 1 .. inPipe
        /\ inPipe' = inPipe - n /\ returned' = returned + n
    BY <1>4 DEF ReadFifo
  <2>2. Held(soFar)' = Held(soFar)
    BY <2>1 DEF Held
  <2>3. QED
    BY <1>0, <2>1, <2>2 DEF BytesAccounted
<1>5. ASSUME NEW o \in Fifos, ReadMore(o) PROVE BytesAccounted'
  <2> DEFINE k == Least(Chunk, inPipe)
  <2>1. /\ UNCHANGED <<written, returned, gone>>
        /\ soFar' = [soFar EXCEPT ![o] = @ + k]
        /\ inPipe' = inPipe - k
    BY <1>5 DEF ReadMore
  <2>2. k \in Nat /\ k <= inPipe
    BY <1>0 DEF Least
  <2> HIDE DEF k
  <2>3. soFar[o] <= Cardinality(Held(soFar))
    BY <1>0, HeldBounds DEF BytesAccounted
  <2>4. soFar[o] + k <= MaxBytes /\ soFar[o] \in Nat
    BY <1>0, <2>2, <2>3 DEF BytesAccounted
  <2>5. /\ soFar' \in [Fifos -> 0 .. MaxBytes]
        /\ soFar'[o] = soFar[o] + k /\ \A p \in Fifos \ {o} : soFar'[p] = soFar[p]
    BY <2>1, <2>2, <2>4 DEF BytesAccounted
  <2>6. /\ IsFiniteSet(Held(soFar'))
        /\ Cardinality(Held(soFar')) = Cardinality(Held(soFar)) + k
    BY <1>0, <2>2, <2>5, HeldGrows DEF BytesAccounted
  <2>7. QED
    BY <1>0, <2>1, <2>2, <2>5, <2>6 DEF BytesAccounted
<1>6. ASSUME NEW o \in Fifos, ReadAllReturns(o) PROVE BytesAccounted'
  <2>1. /\ UNCHANGED <<inPipe, written, gone>>
        /\ returned' = returned + soFar[o] /\ soFar' = [soFar EXCEPT ![o] = 0]
    BY <1>6 DEF ReadAllReturns
  <2>2. /\ soFar' \in [Fifos -> 0 .. MaxBytes] /\ soFar[o] \in Nat
        /\ soFar'[o] = 0 /\ \A p \in Fifos \ {o} : soFar'[p] = soFar[p]
    BY <1>0, <2>1 DEF BytesAccounted
  <2>3. /\ IsFiniteSet(Held(soFar')) /\ Cardinality(Held(soFar')) \in Nat
        /\ Cardinality(Held(soFar)) = Cardinality(Held(soFar')) + soFar[o]
    BY <1>0, <2>2, HeldHandedOver DEF BytesAccounted
  <2>4. QED
    BY <1>0, <2>1, <2>2, <2>3 DEF BytesAccounted
<1>7. CASE UNCHANGED fifosVars
  BY <1>1, <1>7 DEF fifosVars
<1>8. ASSUME NEW o \in Fifos,
             \/ \E kind \in {"read", "write"} : OpenFifo(o, kind)
             \/ \E to \in BOOLEAN : SetBlocking(o, to)
             \/ CallReadAll(o)
      PROVE  BytesAccounted'
  BY <1>1, <1>8 DEF OpenFifo, SetBlocking, CallReadAll
<1>9. QED
  BY <1>2, <1>3, <1>4, <1>5, <1>6, <1>7, <1>8 DEF FifosNext, ReadAllStep

(* Whatever is written, read, closed and opened again between the reads of
   readAll, by any number of objects, no byte that a write took is lost or
   returned twice: only closing the last end loses what is in the pipe. *)
THEOREM FifoBytesConserved == FifosSpec => []BytesConserved
<1>1. BytesAccounted => BytesConserved
  BY DEF BytesAccounted, BytesConserved, Held
<1>2. QED
  BY <1>1, BytesAccountedInit, BytesAccountedStep, PTL DEF FifosSpec

-----------------------------------------------------------------------------
(***************************************************************************)
(* select is exact.                                                        *)
(***************************************************************************)
(* An object's handle stands for an open end that no other object has; files
   are numbered in the order of the opens. *)
HandlesDistinct ==
  /\ fd \in [Fifos -> Nat]
  /\ end \in [Files -> {"unused", "read", "write", "closed"}]
  /\ \A o \in Fifos : fd[o] # 0 => fd[o] \in Files /\ end[fd[o]] \in {"read", "write"}
  /\ \A o, p \in Fifos : fd[o] # 0 /\ fd[o] = fd[p] => o = p
  /\ \E k \in 0 .. MaxOpens : \A f \in Files : end[f] # "unused" <=> f <= k

LEMMA HandlesDistinctInit == FifosInit => HandlesDistinct
<1> SUFFICES ASSUME FifosInit PROVE HandlesDistinct
  OBVIOUS
<1>1. 0 \in 0 .. MaxOpens /\ \A f \in Files : ~ (f <= 0)
  BY FifosAssumption DEF Files
<1>2. \A f \in Files : end[f] = "unused"
  BY DEF FifosInit
<1>3. QED
  BY <1>1, <1>2 DEF FifosInit, HandlesDistinct

(* The file that open makes is the first of the unused ones. *)
LEMMA NextFile ==
  ASSUME HandlesDistinct, NEW f, f = Cardinality({g \in Files : end[g] # "unused"}) + 1
  PROVE  /\ f \in Nat \ {0} /\ f <= MaxOpens + 1
         /\ \A g \in Files : end[g] # "unused" <=> g < f
<1>0. MaxOpens \in Nat
  BY FifosAssumption
<1>1. PICK k \in 0 .. MaxOpens : \A g \in Files : end[g] # "unused" <=> g <= k
  BY DEF HandlesDistinct
<1>2. {g \in Files : end[g] # "unused"} = 1 .. k
  BY <1>0, <1>1 DEF Files
<1>3. k \in Nat /\ Cardinality(1 .. k) = k
  BY <1>0, FS_Interval
<1>4. f = k + 1
  BY <1>2, <1>3
<1>5. \A g \in Files : end[g] # "unused" <=> g < k + 1
  BY <1>0, <1>1 DEF Files
<1>6. k + 1 \in Nat \ {0} /\ k + 1 <= MaxOpens + 1
  BY <1>0
<1>7. QED
  BY <1>4, <1>5, <1>6

LEMMA HandlesDistinctStep == HandlesDistinct /\ [FifosNext]_fifosVars => HandlesDistinct'
<1> SUFFICES ASSUME HandlesDistinct, [FifosNext]_fifosVars PROVE HandlesDistinct'
  OBVIOUS
<1>1. ASSUME UNCHANGED <<fd, end>> PROVE HandlesDistinct'
  BY <1>1 DEF HandlesDistinct
<1>2. ASSUME NEW o \in Fifos, NEW kind \in {"read", "write"}, OpenFifo(o, kind)
      PROVE  HandlesDistinct'
  <2>1. PICK f : f = Cardinality({g \in Files : end[g] # "unused"}) + 1
    OBVIOUS
  <2>2. /\ f \in Nat \ {0} /\ f <= MaxOpens + 1
        /\ \A g \in Files : end[g] # "unused" <=> g < f
    BY <2>1, NextFile
  <2>3. /\ f \in Files
        /\ \/ fd' = [fd EXCEPT ![o] = 0] /\ end' = end
           \/ fd' = [fd EXCEPT ![o] = f] /\ end' = [end EXCEPT ![f] = kind]
    BY <1>2, <2>1 DEF OpenFifo
  <2>4. CASE fd' = [fd EXCEPT ![o] = 0] /\ end' = end
    BY <2>4 DEF HandlesDistinct
  <2>5. CASE fd' = [fd EXCEPT ![o] = f] /\ end' = [end EXCEPT ![f] = kind]
    <3>1. \A p \in Fifos : fd[p] # f
      BY <2>2, <2>3 DEF HandlesDistinct, Files
    <3>2. f \in 0 .. MaxOpens /\ \A g \in Files : end'[g] # "unused" <=> g <= f
      BY <2>2, <2>3, <2>5, FifosAssumption DEF HandlesDistinct, Files
    <3>3. /\ fd' \in [Fifos -> Nat]
          /\ end' \in [Files -> {"unused", "read", "write", "closed"}]
          /\ \A p \in Fifos : fd'[p] # 0
               => fd'[p] \in Files /\ end'[fd'[p]] \in {"read", "write"}
      BY <2>2, <2>3, <2>5 DEF HandlesDistinct
    <3>4. \A p, q \in Fifos : fd'[p] # 0 /\ fd'[p] = fd'[q] => p = q
      BY <2>5, <3>1 DEF HandlesDistinct
    <3>5. QED
      BY <3>2, <3>3, <3>4 DEF HandlesDistinct, Files
  <2>6. QED
    BY <2>3, <2>4, <2>5
<1>3. ASSUME NEW o \in Fifos, CloseFifo(o) PROVE HandlesDistinct'
  <2>1. fd[o] # 0 /\ fd' = [fd EXCEPT ![o] = 0] /\ end' = [end EXCEPT ![fd[o]] = "closed"]
    BY <1>3 DEF CloseFifo
  <2>2. \A f \in Files : end'[f] # "unused" <=> end[f] # "unused"
    BY <2>1 DEF HandlesDistinct
  <2>3. /\ fd' \in [Fifos -> Nat]
        /\ end' \in [Files -> {"unused", "read", "write", "closed"}]
        /\ \A p \in Fifos : fd'[p] # 0
             => fd'[p] \in Files /\ end'[fd'[p]] \in {"read", "write"}
        /\ \A p, q \in Fifos : fd'[p] # 0 /\ fd'[p] = fd'[q] => p = q
    BY <2>1 DEF HandlesDistinct
  <2>4. QED
    BY <2>2, <2>3 DEF HandlesDistinct, Files
<1>4. CASE UNCHANGED fifosVars
  BY <1>1, <1>4 DEF fifosVars
<1>5. ASSUME NEW o \in Fifos,
             \/ \E to \in BOOLEAN : SetBlocking(o, to)
             \/ \E n \in 1 .. MaxBytes : WriteFifo(o, n) \/ ReadFifo(o, n)
             \/ CallReadAll(o) \/ ReadMore(o) \/ ReadAllReturns(o)
      PROVE  HandlesDistinct'
  BY <1>1, <1>5
     DEF SetBlocking, WriteFifo, ReadFifo, CallReadAll, ReadMore, ReadAllReturns
<1>6. QED
  BY <1>2, <1>3, <1>4, <1>5 DEF FifosNext, ReadAllStep

(* Why what poll answers to what select asks is what the caller wants to know. *)
LEMMA SelectAnswers ==
  ASSUME BytesAccounted, HandlesDistinct
  PROVE  SelectExact
<1> SUFFICES ASSUME NEW forRead \in SUBSET Fifos, NEW forWrite \in SUBSET Fifos
             PROVE  /\ \A o \in forRead : IsOpen(o, "read") /\ inPipe > 0
                                            => o \in ReadyRead(forRead, forWrite)
                    /\ \A o \in forWrite : IsOpen(o, "write") /\ Space >= PipeBuf
                                             => o \in ReadyWrite(forRead, forWrite)
                    /\ \A o \in ReadyRead(forRead, forWrite) :
                         IsOpen(o, "read") => inPipe > 0
                    /\ \A o \in ReadyWrite(forRead, forWrite) :
                         IsOpen(o, "write") /\ Space > 0
  BY DEF SelectExact
<1>1. ASSUME NEW o \in forRead, IsOpen(o, "read"), inPipe > 0
      PROVE  o \in ReadyRead(forRead, forWrite)
  BY <1>1 DEF ReadyRead, Revents, Asked, IsOpen
<1>2. ASSUME NEW o \in forWrite, IsOpen(o, "write"), Space >= PipeBuf
      PROVE  o \in ReadyWrite(forRead, forWrite)
  BY <1>2 DEF ReadyWrite, Revents, Asked, IsOpen
<1>3. ASSUME NEW o \in ReadyRead(forRead, forWrite), IsOpen(o, "read")
      PROVE  inPipe > 0
  BY <1>3 DEF ReadyRead, Revents
<1>4. ASSUME NEW o \in ReadyWrite(forRead, forWrite)
      PROVE  IsOpen(o, "write") /\ Space > 0
  <2>1. o \in Fifos /\ fd[o] # 0 /\ "OUT" \in Revents(o, Asked(o, forRead, forWrite))
    BY <1>4 DEF ReadyWrite
  <2>2. ~ IsOpen(o, "read") /\ Space >= PipeBuf
    BY <2>1 DEF Revents
  <2>3. IsOpen(o, "write")
    BY <2>1, <2>2 DEF IsOpen, HandlesDistinct
  <2>4. Space \in Int /\ PipeBuf \in Nat \ {0}
    BY FifosAssumption DEF Space, BytesAccounted
  <2>5. QED
    BY <2>2, <2>3, <2>4
<1>5. QED
  BY <1>1, <1>2, <1>3, <1>4

(* select misses no object it was asked about that has bytes or space, and
   reports none whose read, or write of a byte, would wait. *)
THEOREM FifoSelectExact == FifosSpec => []SelectExact
<1>1. BytesAccounted /\ HandlesDistinct => SelectExact
  BY SelectAnswers
<1>2. QED
  BY <1>1, BytesAccountedInit, BytesAccountedStep, HandlesDistinctInit,
     HandlesDistinctStep, PTL DEF FifosSpec

=============================================================================
