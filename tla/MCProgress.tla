------------------------------ MODULE MCProgress -------------------------------
(***************************************************************************)
(* What has to end: signal handlers, a service that is stopped, readAll on *)
(* a FIFO, a child whose parent has ended.  The four parts share no state, *)
(* so a behaviour is one of a single part, chosen at the start.            *)
(***************************************************************************)
EXTENDS Signals, Service, Fifos, ParentDeath

VARIABLE part (* the part this behaviour is about                          *)

Init ==
  /\ part \in {"signals", "service", "fifos", "parent"}
  /\ SignalsInit /\ ServiceInit /\ FifosInit /\ ParentInit
  /\ part # "parent" => platform = "linux" /\ forkedBy = "main"

Only(p) ==
  /\ part = p /\ UNCHANGED part
  /\ p # "signals" => UNCHANGED signalsVars
  /\ p # "service" => UNCHANGED serviceVars
  /\ p # "fifos" => UNCHANGED fifosVars
  /\ p # "parent" => UNCHANGED parentVars

Next ==
  \/ Only("signals") /\ SignalsNext
  \/ Only("service") /\ ServiceNext
  \/ Only("fifos") /\ FifosNext
  \/ Only("parent") /\ ParentNext

vars == <<part, signalsVars, serviceVars, fifosVars, parentVars>>

(* In the part that a behaviour is about, threads that are inside a call of
   the library run, the threads of the native side and the kernel run, and
   callbacks return.  Nobody need ever trap, signal, stop, write, close, fork
   or end. *)
Fairness ==
  /\ \A t \in Threads : WF_vars(Only("signals") /\ RunTop(t))
  /\ WF_vars(Only("service") /\ ServiceMain)
  /\ WF_vars(Only("service") /\ Handler)
  /\ WF_vars(Only("service") /\ DispatcherReturns)
  /\ \A o \in Fifos : WF_vars(Only("fifos") /\ ReadAllStep(o))
  /\ WF_vars(Only("parent") /\ ChildStep)

Spec == Init /\ [][Next]_vars /\ Fairness
=============================================================================
