------------------------------ MODULE NativeLists ------------------------------
(***************************************************************************)
(* The calls that hand Haxe malloc'ed memory: Network.getHostInfo and      *)
(* getNetworkInterfaces, Process.listProcesses, Auth.listGroups, and the   *)
(* look-ups of a user.  The native side collects nodes, the Haxe side      *)
(* copies and frees them; every malloc may fail, and each call does        *)
(* something else then.  getpw*, getgrent and setgrent keep one static     *)
(* record and one cursor for the process, so threads disturb each other.   *)
(***************************************************************************)
EXTENDS Integers, Sequences, FiniteSets

CONSTANTS
  Callers,   (* the threads that call                                       *)
  People,    (* users of the system                                         *)
  Me,        (* the user that runs the program                              *)
  Entries,   (* how many things the system has to list                      *)
  MaxCalls   (* bound on the calls of a thread                              *)

ASSUME ListsAssumption ==
  /\ Me \in People
  /\ {Entries, MaxCalls} \subseteq Nat

VARIABLES
  doing,     (* per thread, its call, or the last one                       *)
  callsMade, (* per thread, how many                                        *)
  groupAt,   (* the process's cursor in the group database                  *)
  group,     (* ... and its record of getgrent                              *)
  person,    (* the process's record of getpwnam and getpwuid               *)
  counted,   (* digigun::g_active_allocations                               *)
  lostHosts, (* blocks of getHostInfo that nothing points to any more       *)
  windows,   (* the platform the program is built for                       *)
  segv       (* a null pointer was followed                                 *)

listsVars == <<doing, callsMade, groupAt, group, person, counted, lostHosts, windows,
               segv>>

Lists == {"hosts", "interfaces", "processes", "groups"}
Strings == {"username", "realname", "home_dir", "shell"}
NoUser == "no user"
All == [i \in 1 .. Entries |-> i]

(* A node of a list or a user's record: the entry it is for and the strings
   it owns, each a user's or a group's; the blocks that malloc gave for it, and
   how many of them the counter was told of: process_list and process_free_list
   do not touch the counter. *)
Node(entry, owned) == [entry |-> entry, owned |-> owned]
Blocks(node) == {"node"} \cup DOMAIN node.owned
Counts(kind) == kind # "processes"
CountedBlocks(kind, node) == IF Counts(kind) THEN Blocks(node) ELSE {}
AllBlocks(c) == UNION {{i} \X Blocks(c.nodes[i]) : i \in DOMAIN c.nodes}

NoCall == [kind |-> "none", phase |-> "idle", todo |-> <<>>, nodes |-> <<>>,
           short |-> FALSE, disturbed |-> FALSE, got |-> <<>>, who |-> NoUser]

ListsInit ==
  /\ doing = [t \in Callers |-> NoCall] /\ callsMade = [t \in Callers |-> 0]
  /\ groupAt = 0 /\ group = 0 /\ person = NoUser
  /\ counted = 0 /\ lostHosts = 0 /\ segv = FALSE
  /\ windows \in BOOLEAN

Collecting(t, kind) ==
  doing[t].phase = "collect" /\ doing[t].kind = kind /\ ~segv
Begins(t) ==
  /\ doing[t].phase = "idle" /\ callsMade[t] < MaxCalls /\ ~segv
  /\ callsMade' = [callsMade EXCEPT ![t] = @ + 1]

(* t's call becomes c; t used libc's record of this kind, so the others that
   are between two uses of it will find it changed. *)
Disturbing(t, kind, c) ==
  doing' = [u \in Callers |->
             IF u = t THEN c
             ELSE [doing[u] EXCEPT !.disturbed = @ \/ Collecting(u, kind)]]
Becomes(t, c) == doing' = [doing EXCEPT ![t] = c]

(* getaddrinfo, getifaddrs, opendir or Windows' snapshot of the processes
   gives a private list, or fails. *)
List(t, kind) ==
  /\ Begins(t)
  /\ \E phase \in {"collect", "idle"} :
       Becomes(t, [NoCall EXCEPT !.kind = kind, !.phase = phase, !.todo = All,
                                 !.short = (phase = "idle")])
  /\ UNCHANGED <<groupAt, group, person, counted, lostHosts, segv>>

(* setgrent *)
ListGroups(t) ==
  /\ Begins(t) /\ ~windows
  /\ Disturbing(t, "groups", [NoCall EXCEPT !.kind = "groups", !.phase = "collect"])
  /\ groupAt' = 0
  /\ UNCHANGED <<group, person, counted, lostHosts, segv>>

(* getgrent: the record of the next group, into libc's static buffer. *)
NextGroup(t) ==
  /\ Collecting(t, "groups") /\ doing[t].todo = <<>> /\ groupAt < Entries
  /\ Disturbing(t, "groups", [doing[t] EXCEPT !.todo = <<"a group">>])
  /\ groupAt' = groupAt + 1 /\ group' = groupAt + 1
  /\ UNCHANGED <<callsMade, person, counted, lostHosts, segv>>

(* safe_strdup of each of these, where malloc may fail: the string is NULL. *)
Duplicates(names, value) == {[n \in made |-> value] : made \in SUBSET names}

(* Mutant: a new node is put before the others. *)
AddNodeFirst(t, kind, entry, names) ==
  /\ Collecting(t, kind) /\ doing[t].todo # <<>>
  /\ \E owned \in Duplicates(names, entry) :
       LET node == Node(entry, owned) IN
       /\ Becomes(t, [doing[t] EXCEPT !.nodes = <<node>> \o @, !.todo = Tail(@)])
       /\ counted' = counted + Cardinality(CountedBlocks(kind, node))
  /\ UNCHANGED <<callsMade, groupAt, group, person, lostHosts, segv>>

(* The body of the loops: one more node, with these strings, at the end. *)
AddNode(t, kind, entry, names) ==
  /\ Collecting(t, kind) /\ doing[t].todo # <<>>
  /\ \E owned \in Duplicates(names, entry) :
       LET node == Node(entry, owned) IN
       /\ Becomes(t, [doing[t] EXCEPT !.nodes = Append(@, node), !.todo = Tail(@)])
       /\ counted' = counted + Cardinality(CountedBlocks(kind, node))
  /\ UNCHANGED <<callsMade, groupAt, group, person, lostHosts, segv>>

(* The end of a list; for the groups, endgrent rewinds the process's cursor. *)
Collected(t, kind) ==
  /\ Collecting(t, kind) /\ doing[t].todo = <<>>
  /\ IF kind = "groups"
     THEN /\ groupAt = Entries /\ groupAt' = 0
          /\ Disturbing(t, kind, [doing[t] EXCEPT !.phase = "copy"])
     ELSE UNCHANGED groupAt /\ Becomes(t, [doing[t] EXCEPT !.phase = "copy"])
  /\ UNCHANGED <<callsMade, group, person, counted, lostHosts, segv>>

(* No memory for a node.  The nodes so far are dropped for good ... *)
HostsOutOfMemory(t) ==
  /\ Collecting(t, "hosts") /\ doing[t].todo # <<>>
  /\ Becomes(t, [doing[t] EXCEPT !.phase = "idle", !.nodes = <<>>, !.short = TRUE])
  /\ lostHosts' = lostHosts + Cardinality(AllBlocks(doing[t]))
  /\ UNCHANGED <<callsMade, groupAt, group, person, counted, segv>>

(* ... or returned as if they were all ... *)
ListOutOfMemory(t, kind) ==
  /\ Collecting(t, kind) /\ doing[t].todo # <<>>
  /\ Becomes(t, [doing[t] EXCEPT !.phase = "copy", !.short = TRUE])
  /\ UNCHANGED <<callsMade, groupAt, group, person, counted, lostHosts, segv>>

(* Mutant: the groups collected so far are dropped. *)
GroupsDropped(t) ==
  /\ Collecting(t, "groups") /\ doing[t].todo # <<>>
  /\ Disturbing(t, "groups", [doing[t] EXCEPT !.phase = "idle", !.nodes = <<>>,
                                             !.short = TRUE])
  /\ groupAt' = 0
  /\ UNCHANGED <<callsMade, group, person, counted, lostHosts, segv>>

(* ... or freed, and none is returned. *)
GroupsOutOfMemory(t) ==
  /\ Collecting(t, "groups") /\ doing[t].todo # <<>>
  /\ Disturbing(t, "groups", [doing[t] EXCEPT !.phase = "idle", !.nodes = <<>>,
                                             !.short = TRUE])
  /\ counted' = counted - Cardinality(AllBlocks(doing[t]))
  /\ groupAt' = 0
  /\ UNCHANGED <<callsMade, group, person, lostHosts, segv>>

(* The four native functions, step by step. *)
Private(t, kind) ==
  \/ List(t, kind) \/ Collected(t, kind)
  \/ doing[t].todo # <<>> /\ AddNode(t, kind, Head(doing[t].todo), {})

HostInfo(t) == Private(t, "hosts") \/ HostsOutOfMemory(t)
Interfaces(t) ==
  ~windows /\ (Private(t, "interfaces") \/ ListOutOfMemory(t, "interfaces"))
ProcessList(t) == Private(t, "processes") \/ ListOutOfMemory(t, "processes")
Groups(t) ==
  \/ ListGroups(t) \/ NextGroup(t) \/ AddNode(t, "groups", group, {"name"})
  \/ Collected(t, "groups") \/ GroupsOutOfMemory(t)

-----------------------------------------------------------------------------
(* Mutant: the running user is looked up instead. *)
LookUpMe(t) ==
  /\ Begins(t)
  /\ \E u \in People :
       /\ person' = Me
       /\ Disturbing(t, "user",
                     [NoCall EXCEPT !.kind = IF windows THEN "winuser" ELSE "user",
                                    !.who = u, !.phase = "collect",
                                    !.nodes = <<Node(u, <<>>)>>])
       /\ counted' = counted + 1
  /\ UNCHANGED <<groupAt, group, lostHosts, segv>>

(* getpwuid, getpwnam: the record of user u, in libc's static buffer; then a
   malloc for the node, without which the look-up returns null.  Windows looks
   nobody up before the node is made. *)
LookUp(t) ==
  /\ Begins(t)
  /\ \E u \in People, memory \in BOOLEAN :
       LET c == [NoCall EXCEPT !.kind = IF windows THEN "winuser" ELSE "user",
                               !.who = u, !.short = ~memory] IN
       /\ person' = IF windows THEN person ELSE u
       /\ Disturbing(t, "user",
                     IF memory
                     THEN [c EXCEPT !.phase = "collect", !.nodes = <<Node(u, <<>>)>>]
                     ELSE c)
       /\ counted' = IF memory THEN counted + 1 ELSE counted
  /\ UNCHANGED <<groupAt, group, lostHosts, segv>>

(* posix_fill_user: one string after the other, from libc's record; a string
   there is no memory for is NULL. *)
Duplicate(t) ==
  LET c == doing[t] IN
  /\ Collecting(t, "user") /\ Len(c.todo) < Cardinality(Strings)
  /\ \E memory \in BOOLEAN :
       LET field == <<"username", "realname", "home_dir", "shell">>[Len(c.todo) + 1]
           owned == c.nodes[1].owned IN
       /\ Becomes(t, [c EXCEPT !.todo = Append(@, field),
            !.nodes = IF memory
                      THEN <<Node(@[1].entry,
                              [f \in DOMAIN owned \cup {field} |->
                                 IF f = field THEN person ELSE owned[f]])>>
                      ELSE @])
       /\ counted' = counted + (IF memory THEN 1 ELSE 0)
  /\ UNCHANGED <<callsMade, groupAt, group, person, lostHosts, segv>>

Filled(t) ==
  /\ Collecting(t, "user") /\ Len(doing[t].todo) = Cardinality(Strings)
  /\ Becomes(t, [doing[t] EXCEPT !.phase = "copy"])
  /\ UNCHANGED <<callsMade, groupAt, group, person, counted, lostHosts, segv>>

(* win32_fill_user, which shares nothing: the name is the one asked for, the
   other strings are empty or the running user's; strlen follows home_dir
   whether there was memory for it or not. *)
FillWindowsUser(t) ==
  /\ Collecting(t, "winuser")
  /\ \E made \in SUBSET Strings, full, home \in {Me, NoUser} :
       LET owned == [f \in made |-> CASE f = "username" -> doing[t].who
                                      [] f = "realname" -> full
                                      [] f = "home_dir" -> home
                                      [] OTHER -> NoUser] IN
       /\ Becomes(t, [doing[t] EXCEPT !.phase = "copy",
                                     !.nodes = <<Node(@[1].entry, owned)>>])
       /\ counted' = counted + Cardinality(made)
       /\ segv' = ("home_dir" \notin made)
  /\ UNCHANGED <<callsMade, groupAt, group, person, lostHosts>>

User(t) == LookUp(t) \/ Duplicate(t) \/ Filled(t) \/ FillWindowsUser(t)

-----------------------------------------------------------------------------
(* The Haxe side copies the list in its order, or the record's strings. *)
Copy(t) ==
  /\ doing[t].phase = "copy" /\ ~segv
  /\ Becomes(t, [doing[t] EXCEPT !.phase = "free", !.got = doing[t].nodes])
  /\ UNCHANGED <<callsMade, groupAt, group, person, counted, lostHosts, segv>>

(* The free functions of the four lists and auth_free_user: per node, the
   strings that are not NULL, then the node. *)
Free(t) ==
  LET c == doing[t] IN
  /\ c.phase = "free" /\ ~segv
  /\ IF c.nodes = <<>>
     THEN Becomes(t, [c EXCEPT !.phase = "idle"]) /\ UNCHANGED counted
     ELSE /\ Becomes(t, [c EXCEPT !.nodes = Tail(@)])
          /\ counted' = counted - Cardinality(CountedBlocks(c.kind, Head(c.nodes)))
  /\ UNCHANGED <<callsMade, groupAt, group, person, lostHosts, segv>>

ListsNext ==
  /\ UNCHANGED windows
  /\ \E t \in Callers :
       \/ HostInfo(t) \/ Interfaces(t) \/ ProcessList(t) \/ Groups(t) \/ User(t)
       \/ Copy(t) \/ Free(t)

ListsSpec == ListsInit /\ [][ListsNext]_listsVars

-----------------------------------------------------------------------------
(* getActiveAllocations() is exactly what the calls under way hold, listProcesses
   left aside, and what a getHostInfo that ran out of memory has dropped:
   whichever malloc fails, in whichever call.  The nodes of listProcesses are
   malloc'ed too, and the counter never hears of them. *)
ListsCounted ==
  LET tracked == {t \in Callers : Counts(doing[t].kind)}
  IN counted = lostHosts
               + Cardinality(UNION {{t} \X AllBlocks(doing[t]) : t \in tracked})

(* What a list call returns is what the system has, in its order: all of it
   unless memory ran out, and then a beginning of it.  Only groups that
   another thread was listing at the same time may be lost or repeated. *)
ListedInOrder ==
  \A t \in Callers :
    LET c == doing[t]
        got == [i \in DOMAIN c.got |-> c.got[i].entry] IN
    c.kind \in Lists /\ c.phase = "idle" /\ ~c.disturbed =>
      /\ got = SubSeq(All, 1, Len(got))
      /\ ~c.short => got = All

(* A look-up returns the strings of the user that was asked for, as long as no
   other thread looks a user up meanwhile; on Windows a string may be the
   running user's instead. *)
UserAsAsked ==
  \A t \in Callers :
    LET c == doing[t] IN
    c.kind \in {"user", "winuser"} /\ c.got # <<>> /\ ~c.disturbed =>
      \A f \in DOMAIN c.got[1].owned :
        \/ c.got[1].owned[f] = c.who
        \/ c.kind = "winuser" /\ f # "username" /\ c.got[1].owned[f] \in {Me, NoUser}
=============================================================================
