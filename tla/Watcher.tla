-------------------------------- MODULE Watcher --------------------------------
(***************************************************************************)
(* Watcher.hx over the watcher sessions of fs_native.cpp (Linux branch).   *)
(* Every watch has an inotify instance and a thread that reads it; the     *)
(* directories below the watched one, and those that appear there later,   *)
(* are added one by one while the tree keeps changing.  stopAll closes     *)
(* descriptors, detaches the threads and deletes the sessions.             *)
(* A path is the sequence of names below the watched root; a directory     *)
(* (its inode) keeps its watch when it is moved.                           *)
(***************************************************************************)
EXTENDS Integers, Sequences, SequencesExt, FiniteSets

CONSTANTS
  Sessions,   (* calls of Watcher.watch, all on the root and recursive      *)
  Dirs, Root, (* directories that may come to exist; the root does          *)
  Names,      (* file and directory names                                   *)
  MaxDepth,   (* bound: directories below each other                        *)
  MaxChanges, (* bound: changes of the tree                                 *)
  MaxFailures,(* bound: failures of one session to watch or list a directory *)
  QueueLimit  (* max_queued_events of an inotify instance                   *)

ASSUME WatcherAssumption ==
  /\ Root \in Dirs /\ {MaxDepth, MaxChanges, MaxFailures, QueueLimit} \subseteq Nat
  /\ IsFiniteSet(Names)  (* a name has at most 255 bytes *)
  /\ "?" \notin Names    (* it stands for no path        *)

VARIABLES
  pathOf,                  (* per directory: its path, or Nowhere while it does not exist *)
  wd,                      (* per session and directory: wd_to_path, Nowhere if not watched *)
  queue,                   (* per session: events the kernel holds          *)
  ses,                     (* per session: none, starting, running, listed (in g_watchers),
                              inactive, deleted                                             *)
  thr,                     (* per session: its thread: none, test, read, event, gone, or
                              wild: it used its deleted session                          *)
  buffer,                  (* per session: events read and not yet handled *)
  tasks,                   (* per session: calls of linux_add_watch_recursive in progress *)
  callback,                (* Watcher._callback: the session whose callback it is, or null *)
  stopping,                (* stopAll is in its loop and holds g_watchers_mtx *)
  told,                    (* the last event reported: to whom, path, where it was *)
  failed,                  (* history, per session: the steps of adding that failed *)
  changes, moved, dropped, (* changes made (bound); history: a directory was
                              moved, an event was dropped because the queue was full        *)
  watcherAllocs            (* g_active_allocations, as far as watchers count in it *)

tree == <<pathOf, changes, moved>>
kernel == <<queue, dropped>>
watcherVars == <<tree, kernel, wd, ses, thr, buffer, tasks, callback, stopping,
                 told, failed, watcherAllocs>>

Nowhere == <<"?">>
Null == "null"
(* p leads to q, or is q. *)
Under(p, q) == Len(p) <= Len(q) /\ \A i \in 1 .. Len(p) : p[i] = q[i]

Alive(s) == ses[s] \in {"starting", "running", "listed", "inactive"}

WatcherInit ==
  /\ pathOf = [d \in Dirs |-> IF d = Root THEN <<>> ELSE Nowhere]
  /\ wd = [s \in Sessions |-> [d \in Dirs |-> Nowhere]]
  /\ queue = [s \in Sessions |-> <<>>] /\ dropped = FALSE
  /\ ses = [s \in Sessions |-> "none"] /\ thr = [s \in Sessions |-> "none"]
  /\ buffer = [s \in Sessions |-> <<>>] /\ tasks = [s \in Sessions |-> <<>>]
  /\ callback = Null /\ stopping = FALSE
  /\ told = [to |-> Null, path |-> <<>>, truth |-> <<>>]
  /\ changes = 0 /\ moved = FALSE /\ watcherAllocs = 0
  /\ failed = [s \in Sessions |-> {}]

-----------------------------------------------------------------------------
(* The file system.  A closed inotify instance lives as long as a thread is
   blocked reading it. *)
Change == changes < MaxChanges /\ changes' = changes + 1

Notify(d, names, mkdir) ==
  LET To == {s \in Sessions : wd[s][d] # Nowhere}
      All(s) == queue[s] \o [i \in DOMAIN names |->
                  [dir |-> d, name |-> names[i], mkdir |-> mkdir,
                   truth |-> Append(pathOf[d], names[i])]]
      Kept(s) == IF Len(All(s)) > QueueLimit THEN QueueLimit ELSE Len(All(s))
  IN /\ queue' = [s \in Sessions |-> IF s \in To THEN SubSeq(All(s), 1, Kept(s))
                                     ELSE queue[s]]
     /\ dropped' = (dropped \/ \E s \in To : Len(All(s)) > QueueLimit)

Unoccupied(path) == \A d \in Dirs : pathOf[d] # path

MakeDir(d, parent, name) ==
  LET path == Append(pathOf[parent], name)
  IN /\ Change
     /\ pathOf[d] = Nowhere /\ pathOf[parent] # Nowhere
     /\ Unoccupied(path) /\ Len(path) <= MaxDepth
     /\ pathOf' = [pathOf EXCEPT ![d] = path]
     /\ Notify(parent, <<name>>, TRUE)
     /\ UNCHANGED <<wd, ses, thr, buffer, tasks, callback, stopping, told, failed,
                    moved, watcherAllocs>>

(* A file in d is created, modified or deleted. *)
TouchFile(d, name) ==
  /\ Change
  /\ pathOf[d] # Nowhere
  /\ Notify(d, <<name>>, FALSE)
  /\ UNCHANGED <<pathOf, wd, ses, thr, buffer, tasks, callback, stopping, told, failed,
                 moved, watcherAllocs>>

(* A directory gets another name, and what is below it another path. *)
Rename(d, parent, name) ==
  LET old == pathOf[d]
      new == Append(pathOf[parent], name)
  IN /\ Change
     /\ pathOf[parent] # Nowhere /\ old # Nowhere /\ Unoccupied(new)
     /\ old # <<>> /\ pathOf[parent] = SubSeq(old, 1, Len(old) - 1)
     /\ pathOf' = [c \in Dirs |-> IF pathOf[c] # Nowhere /\ Under(old, pathOf[c])
                              THEN new \o SubSeq(pathOf[c], Len(old) + 1, Len(pathOf[c]))
                              ELSE pathOf[c]]
     /\ moved' = TRUE
     /\ Notify(parent, <<old[Len(old)], name>>, FALSE)
     /\ UNCHANGED <<wd, ses, thr, buffer, tasks, callback, stopping, told, failed,
                    watcherAllocs>>

-----------------------------------------------------------------------------
(* linux_add_watch_recursive on a directory: watch it, then look inside.
   Mutant: look inside, then watch. *)
ScanThenWatch == <<"scan", "watch">>

AddingOrder == <<"watch", "scan">>
Adding(path) == [do |-> AddingOrder[1], path |-> path]

(* fs_watch_start: the callback is stored first, then the session made, unless
   inotify_init fails. *)
WatchFails(s) ==
  /\ ses[s] = "none"
  /\ callback' = s
  /\ UNCHANGED <<tree, kernel, wd, ses, thr, buffer, tasks, stopping, told, failed,
                 watcherAllocs>>

Watch(s) ==
  /\ ses[s] = "none"
  /\ callback' = s
  /\ ses' = [ses EXCEPT ![s] = "starting"]
  /\ tasks' = [tasks EXCEPT ![s] = <<Adding(<<>>)>>]
  /\ watcherAllocs' = watcherAllocs + 1
  /\ UNCHANGED <<tree, kernel, wd, thr, buffer, stopping, told, failed>>

StartThread(s) ==
  /\ ses[s] = "starting" /\ tasks[s] = <<>>
  /\ ses' = [ses EXCEPT ![s] = "running"]
  /\ thr' = [thr EXCEPT ![s] = "test"]
  /\ watcherAllocs' = watcherAllocs + 1
  /\ UNCHANGED <<tree, kernel, wd, buffer, tasks, callback, stopping, told, failed>>

ListWatcher(s) ==
  /\ ses[s] = "running" /\ ~stopping
  /\ ses' = [ses EXCEPT ![s] = "listed"]
  /\ UNCHANGED <<tree, kernel, wd, thr, buffer, tasks, callback, stopping, told, failed,
                 watcherAllocs>>

(* What a call of linux_add_watch_recursive has left after its next step *)
Remaining(s) ==
  LET task == Head(tasks[s])
  IN IF task.do = AddingOrder[1]
     THEN <<[do |-> AddingOrder[2], path |-> task.path]>> \o Tail(tasks[s])
     ELSE Tail(tasks[s])

(* inotify_add_watch on the directory the path names now, if any *)
WatchDirectory(s, task) ==
  /\ task.do = "watch"
  /\ wd' = [wd EXCEPT ![s] = [d \in Dirs |->
                IF pathOf[d] = task.path THEN task.path ELSE wd[s][d]]]
  /\ tasks' = [tasks EXCEPT ![s] = Remaining(s)]
  /\ UNCHANGED failed

(* opendir and readdir find the directories of that moment, in any order. *)
ListDirectory(s, task) ==
  LET Found == {n \in Names : ~Unoccupied(Append(task.path, n))}
  IN /\ task.do = "scan"
     /\ \E names \in SetToSeqs(Found) :
          tasks' = [tasks EXCEPT ![s] =
            [i \in DOMAIN names |-> Adding(Append(task.path, names[i]))]
              \o Remaining(s)]
     /\ UNCHANGED <<wd, failed>>

(* Either may fail (no permission, no watch or descriptor left): nobody is
   told, and the adding goes on. *)
AddingFails(s, task) ==
  /\ Cardinality(failed[s]) < MaxFailures
  /\ failed' = [failed EXCEPT ![s] = @ \cup {task}]
  /\ tasks' = [tasks EXCEPT ![s] = Remaining(s)]
  /\ UNCHANGED wd

AddWatch(s) ==
  /\ tasks[s] # <<>>
  /\ IF Alive(s)
     THEN /\ \/ WatchDirectory(s, Head(tasks[s])) \/ ListDirectory(s, Head(tasks[s]))
             \/ AddingFails(s, Head(tasks[s]))
          /\ UNCHANGED thr
     ELSE /\ thr' = [thr EXCEPT ![s] = "wild"]
          /\ tasks' = [tasks EXCEPT ![s] = <<>>]
          /\ UNCHANGED <<wd, failed>>
  /\ UNCHANGED <<tree, kernel, ses, buffer, callback, stopping, told, watcherAllocs>>

-----------------------------------------------------------------------------
(* linux_watcher_thread.  A step that uses the session is wild once the
   session is deleted. *)
ThreadStep(s, from, to) ==
  /\ thr[s] = from /\ tasks[s] = <<>>
  /\ thr' = [thr EXCEPT ![s] = IF Alive(s) THEN to ELSE "wild"]

TestActive(s) ==
  /\ ThreadStep(s, "test", IF ses[s] = "inactive" THEN "gone" ELSE "read")
  /\ UNCHANGED <<tree, kernel, wd, ses, buffer, tasks, callback, stopping, told, failed,
                 watcherAllocs>>

(* read blocks until there is an event, and does not touch the session. *)
ReadEvents(s) ==
  /\ thr[s] = "read" /\ queue[s] # <<>>
  /\ thr' = [thr EXCEPT ![s] = "event"]
  /\ buffer' = [buffer EXCEPT ![s] = queue[s]]
  /\ queue' = [queue EXCEPT ![s] = <<>>]
  /\ UNCHANGED <<tree, dropped, wd, ses, tasks, callback, stopping, told, failed,
                 watcherAllocs>>

(* Mutant: the path the watch was started on instead of that of the event's
   directory. *)
EventPathOfSession(s, e) == <<e.name>>

EventPath(s, e) == Append(wd[s][e.dir], e.name)

(* The callback of the last watch, whichever session this is; then a new
   directory is watched. *)
HandleEvent(s) ==
  LET e == Head(buffer[s])
  IN /\ ThreadStep(s, "event", IF Len(buffer[s]) > 1 THEN "event" ELSE "test")
     /\ buffer' = [buffer EXCEPT ![s] = Tail(@)]
     /\ IF Alive(s)
        THEN /\ told' = IF callback = Null THEN told
                        ELSE [to |-> callback, path |-> EventPath(s, e),
                              truth |-> e.truth]
             /\ tasks' = IF e.mkdir
                         THEN [tasks EXCEPT ![s] = <<Adding(EventPath(s, e))>>]
                         ELSE tasks
        ELSE UNCHANGED <<told, tasks>>
     /\ UNCHANGED <<tree, kernel, wd, ses, callback, stopping, watcherAllocs,
                    failed>>

WatcherThread(s) == TestActive(s) \/ ReadEvents(s) \/ HandleEvent(s)
                    \/ AddWatch(s) \/ StartThread(s) \/ ListWatcher(s)

-----------------------------------------------------------------------------
StopAll ==
  /\ ~stopping /\ stopping' = TRUE
  /\ UNCHANGED <<tree, kernel, wd, ses, thr, buffer, tasks, callback, told, failed,
                 watcherAllocs>>

Deactivate(s) ==
  /\ stopping /\ ses[s] = "listed"
  /\ \A r \in Sessions : ses[r] # "inactive"
  /\ ses' = [ses EXCEPT ![s] = "inactive"]
  /\ UNCHANGED <<tree, kernel, wd, thr, buffer, tasks, callback, stopping, told, failed,
                 watcherAllocs>>

(* close, detach, delete the thread object and the session. *)
DeleteWatcher(s) ==
  /\ stopping /\ ses[s] = "inactive"
  /\ ses' = [ses EXCEPT ![s] = "deleted"]
  /\ watcherAllocs' = watcherAllocs - 2
  /\ UNCHANGED <<tree, kernel, wd, thr, buffer, tasks, callback, stopping, told, failed>>

(* The mutex is released and Watcher._callback reset. *)
StopAllReturns ==
  /\ stopping /\ \A s \in Sessions : ses[s] \notin {"listed", "inactive"}
  /\ stopping' = FALSE /\ callback' = Null
  /\ UNCHANGED <<tree, kernel, wd, ses, thr, buffer, tasks, told, failed,
                 watcherAllocs>>

WatcherNext ==
  \/ \E d, parent \in Dirs, name \in Names :
       MakeDir(d, parent, name) \/ Rename(d, parent, name)
  \/ \E d \in Dirs, name \in Names : TouchFile(d, name)
  \/ \E s \in Sessions :
       Watch(s) \/ WatchFails(s) \/ WatcherThread(s)
       \/ Deactivate(s) \/ DeleteWatcher(s)
  \/ StopAll \/ StopAllReturns

WatcherSpec == WatcherInit /\ [][WatcherNext]_watcherVars

-----------------------------------------------------------------------------
CaughtUp(s) == /\ ses[s] \in {"running", "listed"} /\ thr[s] \in {"test", "read"}
               /\ queue[s] = <<>> /\ tasks[s] = <<>>

(* A step of the adding by which the directory with this path is found *)
FoundBy(task, path) ==
  Under(task.path, path) /\ (task.do = "scan" => Len(task.path) < Len(path))

(* However directories appear while others are being added, a watch that has
   caught up watches every one of them, under its path: unless the kernel
   dropped an event, a directory was renamed, or the very step by which that
   directory was to be found failed: its own watch, or the watch or the listing
   of a directory that leads to it. *)
EveryDirectoryWatched ==
  ~moved /\ ~dropped =>
    \A s \in Sessions : CaughtUp(s) =>
      \A d \in Dirs : pathOf[d] # Nowhere =>
        wd[s][d] = pathOf[d] \/ \E task \in failed[s] : FoundBy(task, pathOf[d])

(* An event is reported under the path at which it happened, unless a
   directory was renamed: wd_to_path keeps the old path. *)
ReportsTruePath == ~moved => told.path = told.truth

(* Watcher.hx:30, "Stops all active native watches and background threads.": no
   background thread goes on with a session that was stopped. *)
StopAllStopsThreads == \A s \in Sessions : thr[s] # "wild"
=============================================================================
