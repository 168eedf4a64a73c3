------------------------------ MODULE ParentDeath ------------------------------
(***************************************************************************)
(* Process.fork and Process.exitWithParent over process_native.cpp: a      *)
(* child asks to be ended with its parent, by PR_SET_PDEATHSIG (Linux), by *)
(* a thread that waits for a kqueue event (macOS) or for the handle of the *)
(* parent (Windows).  The parent may die, and its process identifier be    *)
(* given to another process, between any two of the steps.                 *)
(***************************************************************************)
EXTENDS Naturals

VARIABLES
  platform, (* of the build: linux, macos or windows                        *)
  forkedBy, (* the thread of the parent that forked: main or other          *)
  forker,   (* that thread exists                                           *)
  parent,   (* the parent: alive, dead or reused (its identifier)           *)
  child,    (* none, running, dead                                          *)
  waiter,   (* what exit_with_parent does next: call, arm, done, ignored    *)
  armedFor  (* whose end ends the child: nobody, parent or stranger         *)

parentVars == <<platform, forkedBy, forker, parent, child, waiter, armedFor>>

ParentInit ==
  /\ platform \in {"linux", "macos", "windows"}
  /\ forkedBy \in {"main", "other"} /\ forker = TRUE
  /\ parent = "alive" /\ child = "none"
  /\ waiter = "none" /\ armedFor = "nobody"

Fork ==
  /\ parent = "alive" /\ forker
  /\ child = "none" /\ child' = "running" /\ waiter' = "call"
  /\ UNCHANGED <<platform, forkedBy, forker, parent, armedFor>>

(* The parent process ends, or only the thread that forked. *)
ParentDies ==
  /\ parent = "alive" /\ parent' = "dead" /\ forker' = FALSE
  /\ UNCHANGED <<platform, forkedBy, child, waiter, armedFor>>

ForkerEnds ==
  /\ forkedBy = "other" /\ forker /\ forker' = FALSE
  /\ UNCHANGED <<platform, forkedBy, parent, child, waiter, armedFor>>

IdentifierReused ==
  /\ parent = "dead" /\ parent' = "reused"
  /\ UNCHANGED <<platform, forkedBy, forker, child, waiter, armedFor>>

(* prctl; the kernel does not look back.  getppid of an orphan is 1, for which
   macOS arms nothing; Windows remembers the identifier. *)
CallExitWithParent ==
  /\ child = "running" /\ waiter = "call"
  /\ waiter' = IF platform = "linux" THEN "done"
               ELSE IF platform = "macos" /\ parent # "alive" THEN "ignored"
               ELSE "arm"
  /\ armedFor' = IF platform = "linux" /\ forker THEN "parent" ELSE armedFor
  /\ UNCHANGED <<platform, forkedBy, forker, parent, child>>

(* Mutant: the event is not added to the queue, or the handle not opened. *)
ArmNothing ==
  /\ child = "running" /\ waiter = "arm" /\ waiter' = "done"
  /\ UNCHANGED <<platform, forkedBy, forker, parent, child, armedFor>>

(* EV_ADD in the new thread, or OpenProcess: neither finds a dead process, and
   the identifier may have become that of another one. *)
Arm ==
  /\ child = "running" /\ waiter = "arm" /\ waiter' = "done"
  /\ armedFor' = CASE parent = "alive" -> "parent"
                   [] parent = "reused" -> "stranger"
                   [] OTHER -> armedFor
  /\ UNCHANGED <<platform, forkedBy, forker, parent, child>>

(* The signal is for the end of the thread that forked. *)
ArmedProcessEnds ==
  \/ armedFor = "parent"
     /\ IF platform = "linux" THEN ~forker ELSE parent # "alive"
  \/ armedFor = "stranger"

ChildEnds ==
  /\ child = "running" /\ ArmedProcessEnds
  /\ child' = "dead"
  /\ UNCHANGED <<platform, forkedBy, forker, parent, waiter, armedFor>>

(* exit(0) follows the wait of macOS whether it succeeded or not. *)
WaitFails ==
  /\ platform = "macos" /\ child = "running" /\ waiter = "done"
  /\ child' = "dead"
  /\ UNCHANGED <<platform, forkedBy, forker, parent, waiter, armedFor>>

ChildStep == CallExitWithParent \/ Arm \/ ChildEnds
ParentNext == Fork \/ ParentDies \/ ForkerEnds \/ IdentifierReused
              \/ ChildStep \/ WaitFails
ParentSpec == ParentInit /\ [][ParentNext]_parentVars

-----------------------------------------------------------------------------
(* Process.hx:149, "Ensures that the current process terminates if its parent
   process dies", holds if the parent lives until the child has armed (not only
   called), and on Linux if the thread that forked does. *)
EndsWithParent ==
  (/\ child = "running" /\ waiter = "done" /\ parent = "alive"
   /\ platform = "linux" => forker)
    ~> (child = "dead" \/ [](parent = "alive"))
=============================================================================
