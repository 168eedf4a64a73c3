-------------------------------- MODULE Service --------------------------------
(***************************************************************************)
(* Service.run over service_native.cpp (Windows branch).  The service      *)
(* control manager (SCM) starts win32_service_main in a thread and calls   *)
(* win32_service_handler_ex, when the service has said that it accepts a   *)
(* stop, from the dispatcher's thread; the two share g_status and          *)
(* g_stop_event.  service_run returns when the SCM was told STOPPED.       *)
(***************************************************************************)
EXTENDS Integers, Sequences

VARIABLES
  serviceMain, (* how many steps of win32_service_main are done             *)
  inStart,     (* the Haxe start callback runs                              *)
  handler,     (* the stop handler: idle, pending, callback, signal, done   *)
  reported,    (* what the SCM was told last                                *)
  accepting,   (* ... and whether that the service can be stopped           *)
  stopEvent,   (* g_stop_event: NULL, unset or set                          *)
  running      (* service_run has not returned                              *)

serviceVars == <<serviceMain, inStart, handler, reported, accepting, stopEvent,
                 running>>

ServiceInit ==
  /\ serviceMain = 0 /\ inStart = FALSE
  /\ handler = "idle"
  /\ reported = "nothing" /\ accepting = FALSE
  /\ stopEvent = "NULL" /\ running = TRUE

(* Mutant: RUNNING is reported before there is an event. *)
MainStepsEventLate == <<"pending", "running", "event", "onStart", "wait">>

(* What win32_service_main does, in this order. *)
MainSteps == <<"pending", "event", "running", "onStart", "wait">>

MainAt(step) == serviceMain < Len(MainSteps) /\ MainSteps[serviceMain + 1] = step
MainDid == serviceMain' = serviceMain + 1

ReportPending ==
  /\ MainAt("pending") /\ MainDid
  /\ reported' = "START_PENDING"
  /\ UNCHANGED <<inStart, handler, accepting, stopEvent, running>>

(* CreateEvent may fail: the event stays NULL and nobody waits for it. *)
CreateEvent ==
  /\ MainAt("event") /\ MainDid
  /\ stopEvent' \in {"unset", "NULL"}
  /\ UNCHANGED <<inStart, handler, reported, accepting, running>>

ReportRunning ==
  /\ MainAt("running") /\ MainDid
  /\ reported' = "RUNNING" /\ accepting' = TRUE
  /\ UNCHANGED <<inStart, handler, stopEvent, running>>

OnStartBegins ==
  /\ MainAt("onStart") /\ ~inStart
  /\ inStart' = TRUE
  /\ UNCHANGED <<serviceMain, handler, reported, accepting, stopEvent, running>>

OnStartEnds ==
  /\ inStart /\ MainDid
  /\ inStart' = FALSE
  /\ UNCHANGED <<handler, reported, accepting, stopEvent, running>>

(* The event is waited for, closed and reset, unless there is none. *)
WaitForStop ==
  /\ MainAt("wait") /\ MainDid
  /\ stopEvent # "unset"
  /\ stopEvent' = "NULL"
  /\ UNCHANGED <<inStart, handler, reported, accepting, running>>

(* The SCM delivers a stop or a shutdown; the handler reports STOP_PENDING. *)
Stop ==
  /\ handler = "idle" /\ accepting /\ reported = "RUNNING"
  /\ handler' = "pending" /\ reported' = "STOP_PENDING"
  /\ UNCHANGED <<serviceMain, inStart, accepting, stopEvent, running>>

OnStopBegins ==
  /\ handler = "pending" /\ handler' = "callback"
  /\ UNCHANGED <<serviceMain, inStart, reported, accepting, stopEvent, running>>

OnStopEnds ==
  /\ handler = "callback" /\ handler' = "signal"
  /\ UNCHANGED <<serviceMain, inStart, reported, accepting, stopEvent, running>>

SignalStop ==
  /\ handler = "signal" /\ handler' = "stopped"
  /\ stopEvent' = IF stopEvent = "NULL" THEN "NULL" ELSE "set"
  /\ UNCHANGED <<serviceMain, inStart, reported, accepting, running>>

ReportStopped ==
  /\ handler = "stopped" /\ handler' = "done"
  /\ reported' = "STOPPED"
  /\ UNCHANGED <<serviceMain, inStart, accepting, stopEvent, running>>

(* StartServiceCtrlDispatcher returns, whatever win32_service_main does. *)
DispatcherReturns ==
  /\ running /\ reported = "STOPPED"
  /\ running' = FALSE
  /\ UNCHANGED <<serviceMain, inStart, handler, reported, accepting, stopEvent>>

ServiceMain == ReportPending \/ CreateEvent \/ ReportRunning \/ OnStartBegins
               \/ OnStartEnds \/ WaitForStop
Handler == OnStopBegins \/ OnStopEnds \/ SignalStop \/ ReportStopped

ServiceNext == ServiceMain \/ Stop \/ Handler \/ DispatcherReturns

ServiceSpec == ServiceInit /\ [][ServiceNext]_serviceVars

-----------------------------------------------------------------------------
(* A service that is asked to stop, at whatever point of its start, stops:
   service_run returns, and win32_service_main finds the event signaled. *)
ServiceStops ==
  handler # "idle" ~> (~running /\ serviceMain = Len(MainSteps))
=============================================================================
