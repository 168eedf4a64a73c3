------------------------------ MODULE NamedLocks ------------------------------
(***************************************************************************)
(* Locks between processes: NamedSemaphore.hx over sync_native.cpp (POSIX  *)
(* branch), used as a lock that InitialValue processes may hold, and       *)
(* FileLock.hx over fs_file_lock of fs_native.cpp.  Processes die at any   *)
(* time: the kernel gives back their file locks and not their permits.     *)
(***************************************************************************)
EXTENDS Integers, FiniteSets

CONSTANTS
  Processes,
  InitialValue, (* what every process passes to NamedSemaphore.open         *)
  WithoutStdin, (* processes started with descriptor 0 closed               *)
  MaxSemaphores (* bound: semaphores made under the name                    *)

ASSUME NamedLocksAssumption ==
  /\ InitialValue \in Nat /\ MaxSemaphores \in Nat
  /\ WithoutStdin \subseteq Processes /\ IsFiniteSet(Processes)

Sems == 1 .. MaxSemaphores

VARIABLES
  count,   (* per semaphore made so far: its value                          *)
  named,   (* the semaphore the name stands for, 0 if none                  *)
  sem,     (* per process: the semaphore its object is open on, 0 if none   *)
  held,    (* per process: the semaphore it holds a permit of, 0 if none    *)
  lost,    (* history: per semaphore, permits that died with their holder   *)
  flocked, (* per process: what its descriptor locks: "no", "sh", "ex"      *)
  lock,    (* per process: what the FileLock object it was given stands for *)
  procPc   (* per process: "idle", "wait" in sem_wait, "sh" or "ex" in flock,
              "dead"                                                         *)

semaphores == <<count, named, sem, held, lost>>
lockVars == <<semaphores, flocked, lock, procPc>>

LocksInit ==
  /\ count = <<>> /\ named = 0 /\ lost = <<>>
  /\ sem = [p \in Processes |-> 0] /\ held = [p \in Processes |-> 0]
  /\ flocked = [p \in Processes |-> "no"]
  /\ lock = [p \in Processes |-> "no"]
  /\ procPc = [p \in Processes |-> "idle"]

(* sem_open with O_CREAT: the initial value is that of the first to open. *)
SemOpen(p) ==
  /\ procPc[p] = "idle" /\ sem[p] = 0
  /\ IF named # 0 THEN UNCHANGED <<count, named, lost>>
     ELSE LET s == Cardinality(DOMAIN count) + 1
          IN /\ s \in Sems /\ named' = s
             /\ count' = [t \in 1 .. s |-> IF t = s THEN InitialValue ELSE count[t]]
             /\ lost' = [t \in 1 .. s |-> IF t = s THEN 0 ELSE lost[t]]
  /\ sem' = [sem EXCEPT ![p] = named']
  /\ UNCHANGED <<held, flocked, lock, procPc>>

(* wait blocks; tryWait is Acquire without StartWait, or does nothing. *)
StartWait(p) ==
  /\ procPc[p] = "idle" /\ sem[p] # 0 /\ held[p] = 0
  /\ procPc' = [procPc EXCEPT ![p] = "wait"]
  /\ UNCHANGED <<semaphores, flocked, lock>>

Acquire(p) ==
  /\ procPc[p] \in {"idle", "wait"} /\ sem[p] # 0 /\ held[p] = 0
  /\ count[sem[p]] > 0
  /\ count' = [count EXCEPT ![sem[p]] = @ - 1]
  /\ held' = [held EXCEPT ![p] = sem[p]]
  /\ procPc' = [procPc EXCEPT ![p] = "idle"]
  /\ UNCHANGED <<named, sem, lost, flocked, lock>>

(* Mutant: an interrupted sem_wait counts as success. *)
InterruptedHolds(p) ==
  /\ procPc[p] = "wait"
  /\ procPc' = [procPc EXCEPT ![p] = "idle"]
  /\ held' = [held EXCEPT ![p] = sem[p]]
  /\ UNCHANGED <<count, named, sem, lost, flocked, lock>>

(* A signal handler that was installed without SA_RESTART ran (signal_trap's are
   installed with it): sem_wait returns -1, wait returns false. *)
Interrupted(p) ==
  /\ procPc[p] = "wait"
  /\ procPc' = [procPc EXCEPT ![p] = "idle"]
  /\ UNCHANGED <<semaphores, flocked, lock>>

(* post, by a process that holds a permit and has not closed its object *)
SemPost(p) ==
  /\ procPc[p] = "idle" /\ sem[p] # 0 /\ held[p] = sem[p]
  /\ count' = [count EXCEPT ![sem[p]] = @ + 1]
  /\ held' = [held EXCEPT ![p] = 0]
  /\ UNCHANGED <<named, sem, lost, flocked, lock, procPc>>

(* close does not give the permit back; the client closes what it released. *)
SemClose(p) ==
  /\ procPc[p] = "idle" /\ sem[p] # 0 /\ held[p] = 0
  /\ sem' = [sem EXCEPT ![p] = 0]
  /\ UNCHANGED <<count, named, held, lost, flocked, lock, procPc>>

SemUnlink(p) ==
  /\ procPc[p] = "idle" /\ sem[p] # 0 /\ named # 0
  /\ named' = 0
  /\ UNCHANGED <<count, sem, held, lost, flocked, lock, procPc>>

-----------------------------------------------------------------------------
Compatible(p, mode) ==
  \A q \in Processes \ {p} :
    flocked[q] = "no" \/ (mode = "sh" /\ flocked[q] = "sh")

(* FileLock.lock with wait opens the file and blocks in flock; without wait it
   is GetLock, or closes the descriptor again. *)
StartLock(p, mode) ==
  /\ procPc[p] = "idle" /\ flocked[p] = "no"
  /\ procPc' = [procPc EXCEPT ![p] = mode]
  /\ UNCHANGED <<semaphores, flocked, lock>>

(* Mutant: the flock operation does not depend on `exclusive'. *)
GetLockShared(p, mode) ==
  /\ procPc[p] \in {"idle", mode} /\ flocked[p] = "no"
  /\ Compatible(p, "sh")
  /\ flocked' = [flocked EXCEPT ![p] = "sh"]
  /\ lock' = [lock EXCEPT ![p] = IF p \in WithoutStdin THEN "no" ELSE mode]
  /\ procPc' = [procPc EXCEPT ![p] = "idle"]
  /\ UNCHANGED semaphores

(* The descriptor is the handle of the Haxe object, and 0 stands for failure. *)
GetLock(p, mode) ==
  /\ procPc[p] \in {"idle", mode} /\ flocked[p] = "no"
  /\ Compatible(p, mode)
  /\ flocked' = [flocked EXCEPT ![p] = mode]
  /\ lock' = [lock EXCEPT ![p] = IF p \in WithoutStdin THEN "no" ELSE mode]
  /\ procPc' = [procPc EXCEPT ![p] = "idle"]
  /\ UNCHANGED semaphores

LockInterrupted(p) ==
  /\ procPc[p] \in {"sh", "ex"}
  /\ procPc' = [procPc EXCEPT ![p] = "idle"]
  /\ UNCHANGED <<semaphores, flocked, lock>>

Unlock(p) ==
  /\ procPc[p] = "idle" /\ lock[p] # "no"
  /\ flocked' = [flocked EXCEPT ![p] = "no"]
  /\ lock' = [lock EXCEPT ![p] = "no"]
  /\ UNCHANGED <<semaphores, procPc>>

-----------------------------------------------------------------------------
(* The process is killed: its descriptors are closed, its permit is gone. *)
Die(p) ==
  /\ procPc[p] # "dead"
  /\ procPc' = [procPc EXCEPT ![p] = "dead"]
  /\ flocked' = [flocked EXCEPT ![p] = "no"]
  /\ lock' = [lock EXCEPT ![p] = "no"]
  /\ lost' = [s \in DOMAIN lost |-> IF s = held[p] THEN lost[s] + 1 ELSE lost[s]]
  /\ held' = [held EXCEPT ![p] = 0] /\ sem' = [sem EXCEPT ![p] = 0]
  /\ UNCHANGED <<count, named>>

Semaphore(p) == SemOpen(p) \/ StartWait(p) \/ Acquire(p) \/ Interrupted(p)
                \/ SemPost(p) \/ SemClose(p) \/ SemUnlink(p)
Locking(p) == (\E mode \in {"sh", "ex"} : StartLock(p, mode) \/ GetLock(p, mode))
              \/ LockInterrupted(p) \/ Unlock(p)

LocksNext == \E p \in Processes : Semaphore(p) \/ Locking(p) \/ Die(p)

LocksSpec == LocksInit /\ [][LocksNext]_lockVars

-----------------------------------------------------------------------------
SemTypeOK ==
  /\ \E n \in 0 .. MaxSemaphores : DOMAIN count = 1 .. n
  /\ count \in [DOMAIN count -> Nat] /\ lost \in [DOMAIN count -> Nat]
  /\ named \in {0} \cup DOMAIN count
  /\ sem \in [Processes -> {0} \cup DOMAIN count]
  /\ held \in [Processes -> {0} \cup DOMAIN count]

(* The type invariant. *)
NamedLocksTypeOK ==
  /\ SemTypeOK
  /\ flocked \in [Processes -> {"no", "sh", "ex"}]
  /\ lock \in [Processes -> {"no", "sh", "ex"}]
  /\ procPc \in [Processes -> {"idle", "wait", "sh", "ex", "dead"}]

Holders(s) == {p \in Processes : held[p] = s}

(* No permit is made or lost by an interrupted wait, a close, an unlink or the
   order of opens; only the death of its holder takes one away, and for ever.
   So at most InitialValue processes hold the lock at a time, unless the name
   was unlinked: who opens it afterwards gets another semaphore. *)
PermitsConserved ==
  /\ \A s \in DOMAIN count :
       count[s] + Cardinality(Holders(s)) + lost[s] = InitialValue
  /\ Cardinality(DOMAIN count) = 1 =>
       Cardinality(UNION {Holders(s) : s \in Sems}) <= InitialValue

(* Who was given an exclusive FileLock is alone until it unlocks or dies. *)
FileLocksExclude ==
  \A p, q \in Processes : p # q /\ lock[p] = "ex" => lock[q] = "no"
=============================================================================
