------------------------- MODULE NativeTablesProofs --------------------------
(***************************************************************************)
(* Theorems about Sniffers and NativeLists, for any number of threads,     *)
(* sniffers, users and calls and lists of any length: the table of         *)
(* sniffers and its mutex, what the lists return, what a look-up of a user *)
(* answers, and that the allocation counter counts exactly what each of    *)
(* them holds.                                                             *)
(***************************************************************************)
EXTENDS Sniffers, NativeLists, FunctionTheorems, FiniteSetTheorems, SequenceTheorems, TLAPS

-----------------------------------------------------------------------------
(***************************************************************************)
(* The table of sniffers.                                                  *)
(***************************************************************************)

(* recv runs under the mutex and only the thread in recv keeps it; a thread
   inside close has asked for the handle it closes. *)
MutexHeld ==
  /\ \A t \in Users : call[t] = "recv" => mtx = t /\ callArg[t] \in sniffers
  /\ \A t \in Users : call[t] = "close" => callArg[t] \in asked

TableInv == SnifferTypeOK /\ MutexHeld /\ OthersUnharmed

LEMMA TableInit == SniffersInit => TableInv
  BY SniffersAssumption
     DEF SniffersInit, TableInv, SnifferTypeOK, MutexHeld, OthersUnharmed

LEMMA TableStep == TableInv /\ [SniffersNext]_sniffersVars => TableInv'
<1> SUFFICES ASSUME TableInv, [SniffersNext]_sniffersVars PROVE TableInv'
  OBVIOUS
<1> USE SniffersAssumption, NobodyAssumption
    DEF TableInv, SnifferTypeOK, MutexHeld, OthersUnharmed, snifferCounts, GoesOn
<1>1. ASSUME NEW t \in Users, Create(t) PROVE TableInv'
  BY <1>1 DEF Create
<1>2. ASSUME NEW t \in Users, NEW h \in Handles, CallRead(t, h) PROVE TableInv'
  BY <1>2 DEF CallRead
<1>3. ASSUME NEW t \in Users, NEW h \in Handles, CallClose(t, h) PROVE TableInv'
  BY <1>3 DEF CallClose
<1>4. ASSUME NEW t \in Users, OpenFails(t) PROVE TableInv'
  BY <1>4 DEF OpenFails
<1>5. ASSUME NEW t \in Users, Register(t) PROVE TableInv'
  <2>1. snifferId' = snifferId + 1 /\ snifferId \in 1 .. snifferId' - 1
    BY <1>5 DEF Register
  <2>2. SnifferTypeOK'
    BY <1>5, <2>1 DEF Register
  <2>3. MutexHeld' /\ OthersUnharmed'
    BY <1>5 DEF Register
  <2>4. QED
    BY <2>2, <2>3
<1>6. ASSUME NEW t \in Users, ReadBegins(t) PROVE TableInv'
  BY <1>6 DEF ReadBegins
<1>7. ASSUME NEW t \in Users, ReadEnds(t) PROVE TableInv'
  BY <1>7 DEF ReadEnds
<1>8. ASSUME NEW t \in Users, CloseNative(t) PROVE TableInv'
  <2>1. \A u \in Users : call[u] # "recv"
    BY <1>8 DEF CloseNative
  <2>2. callArg[t] \in asked
    BY <1>8 DEF CloseNative
  <2>3. SnifferTypeOK'
    <3>1. snifferAllocs' \in Int /\ sockets' \in Int /\ sniffers' \subseteq sniffers
      BY <1>8 DEF CloseNative
    <3>2. call' \in [Users -> {"idle", "opening", "read", "recv", "close", "closed"}]
      BY <1>8 DEF CloseNative
    <3>3. QED
      BY <1>8, <3>1, <3>2 DEF CloseNative
  <2>4. UNCHANGED <<callArg, mtx, valid, asked>> /\ sniffers \ {callArg[t]} \subseteq sniffers'
    BY <1>8 DEF CloseNative
  <2>5. call' = [call EXCEPT ![t] = "closed"]
    BY <1>8 DEF CloseNative
  <2>6. MutexHeld'
    BY <2>1, <2>4, <2>5
  <2>7. OthersUnharmed'
    BY <2>2, <2>4
  <2>8. QED
    BY <2>3, <2>6, <2>7
<1>9. ASSUME NEW t \in Users, CloseReturns(t) PROVE TableInv'
  BY <1>9 DEF CloseReturns
<1>10. CASE UNCHANGED sniffersVars
  BY <1>10 DEF sniffersVars
<1>11. QED
  BY <1>1, <1>2, <1>3, <1>4, <1>5, <1>6, <1>7, <1>8, <1>9, <1>10
     DEF SniffersNext, StartCall, InsideCall

(* A sniffer nobody asked to close is in the table, whatever other threads
   open, close twice and read. *)
THEOREM SniffersUnharmed == SniffersSpec => []OthersUnharmed
<1>1. TableInv => OthersUnharmed
  BY DEF TableInv
<1>2. QED
  BY TableInit, TableStep, <1>1, PTL DEF SniffersSpec

(* While network_raw_sniffer_read is in recv, its sniffer is in the table: the
   mutex it keeps holds back every close. *)
THEOREM SniffersRecv == SniffersSpec => []RecvOnOpenSniffer
<1>1. TableInv => RecvOnOpenSniffer
  BY DEF TableInv, MutexHeld, RecvOnOpenSniffer
<1>2. QED
  BY TableInit, TableStep, <1>1, PTL DEF SniffersSpec

-----------------------------------------------------------------------------
(***************************************************************************)
(* The counters.                                                           *)
(***************************************************************************)
LEMMA TableFinite ==
  TableInv => IsFiniteSet(sniffers) /\ IsFiniteSet(Opening)
<1> SUFFICES ASSUME TableInv PROVE IsFiniteSet(sniffers) /\ IsFiniteSet(Opening)
  OBVIOUS
<1>1. IsFiniteSet(1 .. snifferId - 1)
  BY FS_Interval DEF TableInv, SnifferTypeOK
<1>2. IsFiniteSet(sniffers)
  BY <1>1, FS_Subset DEF TableInv, SnifferTypeOK
<1>3. IsFiniteSet(Opening)
  BY SniffersAssumption, FS_Subset DEF Opening
<1>4. QED
  BY <1>2, <1>3

LEMMA AccountedStep ==
  TableInv /\ SniffersAccounted /\ [SniffersNext]_sniffersVars => SniffersAccounted'
<1> SUFFICES ASSUME TableInv, SniffersAccounted, [SniffersNext]_sniffersVars
             PROVE  SniffersAccounted'
  OBVIOUS
<1>1. /\ IsFiniteSet(sniffers) /\ Cardinality(sniffers) \in Nat
      /\ IsFiniteSet(Opening) /\ Cardinality(Opening) \in Nat
  BY TableFinite, FS_CardinalityType
<1>2. /\ call \in [Users -> {"idle", "opening", "read", "recv", "close", "closed"}]
      /\ snifferAllocs \in Int /\ sockets \in Int
  BY DEF TableInv, SnifferTypeOK
<1> USE <1>1, <1>2 DEF SniffersAccounted, snifferCounts, GoesOn
<1>3. ASSUME NEW t \in Users, call[t] = "idle", call' = [call EXCEPT ![t] = "opening"]
      PROVE  Cardinality(Opening') = Cardinality(Opening) + 1
  <2>1. t \notin Opening /\ Opening' = Opening \cup {t}
    BY <1>3 DEF Opening
  <2>2. QED
    BY <2>1, FS_AddElement
<1>4. ASSUME NEW t \in Users, call[t] = "opening", call' = [call EXCEPT ![t] = "idle"]
      PROVE  Cardinality(Opening') = Cardinality(Opening) - 1
  <2>1. t \in Opening /\ Opening' = Opening \ {t}
    BY <1>4 DEF Opening
  <2>2. QED
    BY <2>1, FS_RemoveElement
<1>5. ASSUME NEW t \in Users, NEW to \in {"read", "recv", "close", "closed", "idle"},
             call[t] # "opening", call' = [call EXCEPT ![t] = to]
      PROVE  Opening' = Opening
  BY <1>5 DEF Opening
<1>6. ASSUME NEW t \in Users, Create(t) PROVE SniffersAccounted'
  <2>1. CASE GoesOn(t, "idle", "opening")
    <3>1. Cardinality(Opening') = Cardinality(Opening) + 1
      BY <2>1, <1>3
    <3>2. sniffers' = sniffers
      BY <1>6 DEF Create
    <3>3. snifferAllocs' = snifferAllocs + 1 /\ sockets' = sockets + 1
      BY <1>6, <2>1 DEF Create
    <3>4. QED
      BY <3>1, <3>2, <3>3
  <2>2. CASE UNCHANGED <<call, snifferCounts>>
    BY <1>6, <2>2 DEF Create, Opening
  <2>3. QED
    BY <1>6, <2>1, <2>2 DEF Create
<1>7. ASSUME NEW t \in Users, OpenFails(t) PROVE SniffersAccounted'
  <2>1. Cardinality(Opening') = Cardinality(Opening) - 1
    BY <1>7, <1>4 DEF OpenFails
  <2>2. sniffers' = sniffers
    BY <1>7 DEF OpenFails
  <2>3. snifferAllocs' = snifferAllocs - 1 /\ sockets' = sockets - 1
    BY <1>7 DEF OpenFails
  <2>4. QED
    BY <2>1, <2>2, <2>3
<1>8. ASSUME NEW t \in Users, Register(t) PROVE SniffersAccounted'
  <2>1. snifferId \notin sniffers
    BY DEF TableInv, SnifferTypeOK
  <2>2. Cardinality(sniffers') = Cardinality(sniffers) + 1
    BY <1>8, <2>1, FS_AddElement DEF Register
  <2>3. QED
    <3>1. Cardinality(Opening') = Cardinality(Opening) - 1
      BY <1>8, <1>4 DEF Register
    <3>2. snifferAllocs' = snifferAllocs /\ sockets' = sockets
      BY <1>8 DEF Register
    <3>3. QED
      BY <2>2, <3>1, <3>2
<1>9. ASSUME NEW t \in Users, CloseNative(t) PROVE SniffersAccounted'
  <2>1. Opening' = Opening
    BY <1>9, <1>5 DEF CloseNative
  <2>2. CASE callArg[t] \in sniffers
    BY <1>9, <2>1, <2>2, FS_RemoveElement DEF CloseNative
  <2>3. CASE callArg[t] \notin sniffers
    BY <1>9, <2>1, <2>3 DEF CloseNative
  <2>4. QED
    BY <2>2, <2>3
<1>10. ASSUME NEW t \in Users,
              \/ \E h \in Handles : CallRead(t, h) \/ CallClose(t, h)
              \/ ReadBegins(t) \/ ReadEnds(t) \/ CloseReturns(t)
       PROVE  SniffersAccounted'
  <2>1. Opening' = Opening
    BY <1>10, <1>5 DEF CallRead, CallClose, ReadBegins, ReadEnds, CloseReturns
  <2>2. UNCHANGED <<sniffers, snifferCounts>>
    BY <1>10 DEF CallRead, CallClose, ReadBegins, ReadEnds, CloseReturns
  <2>3. QED
    BY <2>1, <2>2
<1>11. CASE UNCHANGED sniffersVars
  BY <1>11 DEF sniffersVars, Opening
<1>12. QED
  BY <1>6, <1>7, <1>8, <1>9, <1>10, <1>11 DEF SniffersNext, StartCall, InsideCall

(* The allocation counter and the open sockets match the table and the opens
   under way, through every error path of open and every double close. *)
THEOREM SniffersCounted == SniffersSpec => []SniffersAccounted
<1>1. SniffersInit => SniffersAccounted
  <2>1. ASSUME SniffersInit PROVE Opening = {}
    BY <2>1 DEF SniffersInit, Opening
  <2>2. QED
    BY <2>1, FS_EmptySet DEF SniffersInit, SniffersAccounted
<1>2. QED
  BY TableInit, TableStep, AccountedStep, <1>1, PTL DEF SniffersSpec

-----------------------------------------------------------------------------
(***************************************************************************)
(* Lists and look-ups.                                                     *)
(***************************************************************************)

(***************************************************************************)
(* Sequences and sets of blocks.                                           *)
(***************************************************************************)
LEMMA Appended ==
  ASSUME NEW S, NEW s \in Seq(S), NEW x \in S,
         NEW t, t = Append(s, x), NEW n, n = Len(s) + 1
  PROVE  /\ t \in Seq(S) /\ t[n] = x
         /\ n \in Nat \ {0} /\ n \notin DOMAIN s /\ DOMAIN t = DOMAIN s \cup {n}
         /\ \A i \in DOMAIN s : t[i] = s[i]
<1>1. /\ t \in Seq(S) /\ Len(t) = Len(s) + 1 /\ t[Len(s) + 1] = x
      /\ \A i \in 1 .. Len(s) : t[i] = s[i]
  BY AppendProperties
<1>2. Len(s) \in Nat /\ DOMAIN s = 1 .. Len(s) /\ DOMAIN t = 1 .. Len(t)
  BY <1>1, LenProperties
<1>3. n \notin 1 .. Len(s) /\ 1 .. n = (1 .. Len(s)) \cup {n}
  BY <1>2
<1>4. QED
  BY <1>1, <1>2, <1>3

LEMMA TailOf ==
  ASSUME NEW S, NEW s \in Seq(S), s # <<>>, NEW t, t = Tail(s)
  PROVE  /\ t \in Seq(S) /\ Len(s) \in Nat \ {0} /\ Len(t) = Len(s) - 1
         /\ DOMAIN s = 1 .. Len(s) /\ DOMAIN t = 1 .. Len(s) - 1
         /\ \A i \in 1 .. Len(s) - 1 : t[i] = s[i + 1]
         /\ Head(s) = s[1] /\ s[1] \in S
<1>1. Len(s) \in Nat \ {0} /\ DOMAIN s = 1 .. Len(s) /\ s[1] \in S
  BY EmptySeq, LenProperties, ElementOfSeq
<1>2. t \in Seq(S) /\ Len(t) = Len(s) - 1 /\ \A i \in 1 .. Len(t) : t[i] = s[i + 1]
  BY HeadTailProperties
<1>3. DOMAIN t = 1 .. Len(t)
  BY <1>2, LenProperties
<1>4. QED
  BY <1>1, <1>2, <1>3

LEMMA OneElement ==
  ASSUME NEW S, NEW x \in S, NEW s, s = <<x>>
  PROVE  s \in Seq(S) /\ Len(s) = 1 /\ DOMAIN s = {1} /\ s[1] = x
OBVIOUS

LEMMA NoElement ==
  Len(<<>>) = 0 /\ DOMAIN <<>> = {} /\ \A S : <<>> \in Seq(S)
BY EmptySeq, LenProperties

-----------------------------------------------------------------------------
(***************************************************************************)
(* The calls.                                                              *)
(***************************************************************************)
Todo == Nat \cup Strings \cup {"a group"}
Values == People \cup {NoUser} \cup Todo
FieldNames == Strings \cup {"name"}
NodeSet == [entry : Values, owned : UNION {[kept -> Values] : kept \in SUBSET FieldNames}]
Call ==
  [kind : Lists \cup {"none", "user", "winuser"}, phase : {"idle", "collect", "copy", "free"},
   todo : Seq(Todo), nodes : Seq(NodeSet), short : BOOLEAN,
   disturbed : BOOLEAN, got : Seq(NodeSet), who : People \cup {NoUser}]

(* A list that nobody disturbed: the nodes are the first entries in their order,
   what is still to do are the others, and only a lack of memory ends it early. *)
ListSound(c) ==
  /\ c.phase \in {"collect", "copy"} =>
       Len(c.nodes) <= Entries /\ \A i \in DOMAIN c.nodes : c.nodes[i].entry = i
  /\ c.phase = "collect" /\ c.kind # "groups" =>
       /\ Len(c.nodes) + Len(c.todo) = Entries
       /\ \A i \in DOMAIN c.todo : c.todo[i] = Len(c.nodes) + i
  /\ c.phase = "collect" /\ c.kind = "groups" => Len(c.todo) <= 1
  /\ c.phase = "copy" /\ ~ c.short => Len(c.nodes) = Entries
  /\ Len(c.got) <= Entries /\ \A i \in DOMAIN c.got : c.got[i].entry = i
  /\ c.phase \in {"free", "idle"} /\ ~ c.short => Len(c.got) = Entries

AsAsked(c, node) ==
  \A f \in DOMAIN node.owned :
    \/ node.owned[f] = c.who
    \/ c.kind = "winuser" /\ f # "username" /\ node.owned[f] \in {Me, NoUser}

(* A look-up has one node, whose strings are kept one after the other, and when
   nobody disturbed it they are those of the user asked for. *)
UserSound(c) ==
  /\ c.phase = "collect" => Len(c.nodes) = 1
  /\ c.phase = "collect" /\ c.kind = "user" =>
       /\ "username" \in DOMAIN c.nodes[1].owned => Len(c.todo) >= 1
       /\ "realname" \in DOMAIN c.nodes[1].owned => Len(c.todo) >= 2
       /\ "home_dir" \in DOMAIN c.nodes[1].owned => Len(c.todo) >= 3
       /\ "shell" \in DOMAIN c.nodes[1].owned => Len(c.todo) >= 4
  /\ c.phase = "collect" /\ c.kind = "winuser" => DOMAIN c.nodes[1].owned = {}
  /\ ~ c.disturbed =>
       /\ \A i \in DOMAIN c.nodes : AsAsked(c, c.nodes[i])
       /\ \A i \in DOMAIN c.got : AsAsked(c, c.got[i])

CallSound(c) ==
  /\ c \in Call
  /\ c.phase = "idle" => c.nodes = <<>>
  /\ c.kind \in Lists /\ ~ c.disturbed => ListSound(c)
  /\ c.kind \in {"user", "winuser"} => UserSound(c)

(* What an undisturbed call knows of the C library's cursor and records *)
GroupCursor(c, at, record) ==
  c.kind = "groups" /\ c.phase = "collect" /\ ~ c.disturbed =>
    at = Len(c.nodes) + Len(c.todo) /\ (c.todo # <<>> => record = at)
UserRecord(c, record) ==
  c.kind = "user" /\ c.phase = "collect" /\ ~ c.disturbed => record = c.who

CallsSound ==
  /\ doing \in [Callers -> Call]
  /\ \A t \in Callers :
       /\ CallSound(doing[t])
       /\ GroupCursor(doing[t], groupAt, group) /\ UserRecord(doing[t], person)
  /\ groupAt \in 0 .. Entries /\ group \in 0 .. Entries
  /\ person \in People \cup {NoUser}

-----------------------------------------------------------------------------
(***************************************************************************)
(* What an action does to the other calls: at most, it disturbs them.      *)
(***************************************************************************)
LEMMA DisturbedSound ==
  ASSUME NEW c, CallSound(c), NEW d \in BOOLEAN, c.disturbed => d,
         NEW e, e = [c EXCEPT !.disturbed = d]
  PROVE  /\ CallSound(e)
         /\ e.kind = c.kind /\ e.phase = c.phase /\ e.todo = c.todo /\ e.nodes = c.nodes
         /\ e.who = c.who /\ e.disturbed = d
<1>1. c \in Call
  BY DEF CallSound
<1>2. /\ e \in Call /\ e.kind = c.kind /\ e.phase = c.phase /\ e.todo = c.todo
      /\ e.nodes = c.nodes /\ e.got = c.got /\ e.short = c.short /\ e.who = c.who
      /\ e.disturbed = d
  BY <1>1 DEF Call
<1>3. ListSound(c) => ListSound(e)
  BY <1>2 DEF ListSound
<1>4. UserSound(c) => UserSound(e)
  BY <1>2 DEF UserSound, AsAsked
<1>5. QED
  BY <1>2, <1>3, <1>4 DEF CallSound

(* Only the call of t changes. *)
LEMMA Quiet ==
  ASSUME CallsSound, NEW t \in Callers, NEW c, Becomes(t, c), CallSound(c),
         GroupCursor(c, groupAt, group), UserRecord(c, person),
         UNCHANGED <<groupAt, group, person>>
  PROVE  CallsSound'
<1>1. c \in Call
  BY DEF CallSound
<1>2. /\ doing' \in [Callers -> Call] /\ doing'[t] = c
      /\ \A u \in Callers \ {t} : doing'[u] = doing[u]
  BY <1>1 DEF CallsSound, Becomes
<1>3. ASSUME NEW u \in Callers
      PROVE  /\ CallSound(doing'[u])
             /\ GroupCursor(doing'[u], groupAt', group') /\ UserRecord(doing'[u], person')
  <2>1. CASE u = t
    BY <1>2, <2>1
  <2>2. CASE u # t
    BY <1>2, <2>2 DEF CallsSound
  <2>3. QED
    BY <2>1, <2>2
<1>4. \A u \in Callers : CallSound(doing[u])' <=> CallSound(doing'[u])
  BY DEF CallSound, ListSound, UserSound, AsAsked
<1>5. QED
  BY <1>2, <1>3, <1>4 DEF CallsSound, GroupCursor, UserRecord

(* t uses the C library's cursor, or its record of a user. *)
LEMMA Loud ==
  ASSUME CallsSound, NEW t \in Callers, NEW kind \in {"groups", "user"}, ~ segv,
         NEW c, Disturbing(t, kind, c), CallSound(c),
         GroupCursor(c, groupAt', group'), UserRecord(c, person'),
         groupAt' \in 0 .. Entries, group' \in 0 .. Entries,
         person' \in People \cup {NoUser},
         kind = "groups" => person' = person,
         kind = "user" => UNCHANGED <<groupAt, group>>
  PROVE  CallsSound'
<1>1. c \in Call
  BY DEF CallSound
<1>2. doing'[t] = c
  BY DEF Disturbing
<1>3. ASSUME NEW u \in Callers \ {t}
      PROVE  /\ CallSound(doing'[u])
             /\ GroupCursor(doing'[u], groupAt', group') /\ UserRecord(doing'[u], person')
  <2>1. PICK d : d = (doing[u].disturbed \/ Collecting(u, kind))
    OBVIOUS
  <2>2. doing'[u] = [doing[u] EXCEPT !.disturbed = d]
    BY <2>1 DEF Disturbing
  <2>3. CallSound(doing[u]) /\ d \in BOOLEAN /\ (doing[u].disturbed => d)
    BY <2>1 DEF CallsSound
  <2>4. /\ CallSound(doing'[u])
        /\ doing'[u].kind = doing[u].kind /\ doing'[u].phase = doing[u].phase
        /\ doing'[u].todo = doing[u].todo /\ doing'[u].nodes = doing[u].nodes
        /\ doing'[u].who = doing[u].who /\ doing'[u].disturbed = d
    BY <2>2, <2>3, DisturbedSound
  <2>5. GroupCursor(doing[u], groupAt, group) /\ UserRecord(doing[u], person)
    BY DEF CallsSound
  <2>6. doing[u].phase = "collect" /\ doing[u].kind = kind => d
    BY <2>1 DEF Collecting
  <2>7. GroupCursor(doing'[u], groupAt', group')
    BY <2>3, <2>4, <2>5, <2>6 DEF GroupCursor
  <2>8. UserRecord(doing'[u], person')
    BY <2>3, <2>4, <2>5, <2>6 DEF UserRecord
  <2>9. QED
    BY <2>4, <2>7, <2>8
<1>4. doing' \in [Callers -> Call]
  <2>1. \A u \in Callers : doing'[u] \in Call
    BY <1>1, <1>2, <1>3 DEF CallSound
  <2>2. QED
    BY <2>1 DEF Disturbing
<1>5. \A u \in Callers : CallSound(doing[u])' <=> CallSound(doing'[u])
  BY DEF CallSound, ListSound, UserSound, AsAsked
<1>6. QED
  BY <1>2, <1>3, <1>4, <1>5 DEF CallsSound, GroupCursor, UserRecord

-----------------------------------------------------------------------------
(***************************************************************************)
(* The actions, one by one.                                                *)
(***************************************************************************)
LEMMA NoCallFields ==
  /\ NoCall \in Call /\ NoCall.kind = "none" /\ NoCall.phase = "idle" /\ NoCall.todo = <<>>
  /\ NoCall.nodes = <<>> /\ NoCall.got = <<>> /\ ~ NoCall.disturbed /\ NoCall.who = NoUser
BY NoElement DEF NoCall, Call

LEMMA AllEntries ==
  /\ All \in Seq(Todo) /\ Len(All) = Entries
  /\ DOMAIN All = 1 .. Entries /\ \A i \in 1 .. Entries : All[i] = i
<1>1. Entries \in Nat
  BY ListsAssumption
<1>2. \A i \in 1 .. Entries : i \in Todo
  <2>1. \A i \in 1 .. Entries : i \in Nat
    BY <1>1
  <2>2. Nat \subseteq Todo
    BY DEF Todo
  <2>3. QED
    BY <2>1, <2>2
<1>3. [i \in 1 .. Entries |-> i] \in Seq(Todo)
  BY <1>1, <1>2, IsASeq
<1>4. All \in Seq(Todo) /\ DOMAIN All = 1 .. Entries /\ \A i \in 1 .. Entries : All[i] = i
  BY <1>3 DEF All
<1>5. Len(All) \in Nat /\ DOMAIN All = 1 .. Len(All)
  BY <1>4, LenProperties
<1>6. Len(All) = Entries
  BY <1>1, <1>4, <1>5
<1>7. QED
  BY <1>4, <1>6

LEMMA ListSoundStep ==
  ASSUME CallsSound, NEW t \in Callers, NEW kind \in Lists \ {"groups"}, List(t, kind)
  PROVE  CallsSound'
<1>1. PICK phase \in {"collect", "idle"} :
        Becomes(t, [NoCall EXCEPT !.kind = kind, !.phase = phase, !.todo = All,
                                  !.short = (phase = "idle")])
  BY DEF List
<1> DEFINE c == [NoCall EXCEPT !.kind = kind, !.phase = phase, !.todo = All,
                               !.short = (phase = "idle")]
<1>2. NoUser = NoCall.who /\ NoUser \in People \cup {NoUser}
  BY DEF NoCall
<1>3. /\ c \in Call /\ c.kind = kind /\ c.phase = phase /\ c.todo = All
      /\ c.nodes = <<>> /\ c.got = <<>> /\ c.short = (phase = "idle") /\ ~ c.disturbed
  BY NoCallFields, AllEntries DEF Call, NoCall
<1>4. Becomes(t, c)
  BY <1>1
<1>5. kind \notin {"groups", "user", "winuser"} /\ kind \in Lists
  BY DEF Lists
<1> HIDE DEF c
<1>6. ListSound(c)
  <2>1. Entries \in Nat
    BY ListsAssumption
  <2>2. Len(c.nodes) = 0 /\ Len(c.got) = 0 /\ DOMAIN c.nodes = {} /\ DOMAIN c.got = {}
    BY <1>3, NoElement
  <2>3. Len(c.todo) = Entries /\ \A i \in DOMAIN c.todo : c.todo[i] = i /\ i \in Nat
    <3>1. \A i \in 1 .. Entries : i \in Nat
      BY <2>1
    <3>2. QED
      BY <1>3, <3>1, AllEntries
  <2>4. c.phase # "copy" /\ c.phase # "free" /\ (c.phase = "idle" => c.short)
    BY <1>3
  <2>5. QED
    BY <1>3, <1>5, <2>1, <2>2, <2>3, <2>4 DEF ListSound
<1>7. CallSound(c) /\ GroupCursor(c, groupAt, group) /\ UserRecord(c, person)
  BY <1>3, <1>5, <1>6 DEF CallSound, GroupCursor, UserRecord
<1>8. UNCHANGED <<groupAt, group, person>>
  BY DEF List
<1>9. QED
  BY <1>4, <1>7, <1>8, Quiet

LEMMA ListGroupsStep ==
  ASSUME CallsSound, NEW t \in Callers, ListGroups(t)
  PROVE  CallsSound'
<1> DEFINE c == [NoCall EXCEPT !.kind = "groups", !.phase = "collect"]
<1>1. /\ ~ segv /\ Disturbing(t, "groups", c) /\ groupAt' = 0 /\ UNCHANGED <<group, person>>
  BY DEF ListGroups, Begins
<1>2. /\ c \in Call /\ c.kind = "groups" /\ c.phase = "collect" /\ c.todo = <<>>
      /\ c.nodes = <<>> /\ c.got = <<>>
  BY NoCallFields DEF Call, NoCall, Lists
<1> HIDE DEF c
<1>3. ListSound(c)
  BY <1>2, NoElement, ListsAssumption DEF ListSound
<1>4. CallSound(c) /\ GroupCursor(c, groupAt', group') /\ UserRecord(c, person')
  BY <1>1, <1>2, <1>3, NoElement DEF CallSound, GroupCursor, UserRecord
<1>5. groupAt' \in 0 .. Entries /\ group' \in 0 .. Entries /\ person' \in People \cup {NoUser}
  BY <1>1, ListsAssumption DEF CallsSound
<1>6. QED
  BY <1>1, <1>4, <1>5, Loud

LEMMA NextGroupStep ==
  ASSUME CallsSound, NEW t \in Callers, NextGroup(t)
  PROVE  CallsSound'
<1> DEFINE c == [doing[t] EXCEPT !.todo = <<"a group">>]
<1>1. /\ Collecting(t, "groups") /\ doing[t].todo = <<>> /\ groupAt < Entries
      /\ Disturbing(t, "groups", c)
      /\ groupAt' = groupAt + 1 /\ group' = groupAt + 1 /\ UNCHANGED person
  BY DEF NextGroup
<1>2. doing[t] \in Call /\ CallSound(doing[t]) /\ GroupCursor(doing[t], groupAt, group)
  BY DEF CallsSound
<1>3. /\ ~ segv /\ doing[t].kind = "groups" /\ doing[t].phase = "collect"
  BY <1>1 DEF Collecting
<1>4. /\ c \in Call /\ c.kind = "groups" /\ c.phase = "collect" /\ Len(c.todo) = 1
      /\ c.nodes = doing[t].nodes /\ c.got = doing[t].got /\ c.short = doing[t].short
      /\ c.disturbed = doing[t].disturbed
  BY <1>2, <1>3, OneElement DEF Call, Todo
<1>5. Len(doing[t].nodes) \in Nat /\ Len(doing[t].todo) = 0
  BY <1>1, <1>2, LenProperties, NoElement DEF Call
<1> HIDE DEF c
<1>6. ~ c.disturbed => ListSound(c)
  BY <1>2, <1>3, <1>4 DEF ListSound, CallSound, Lists
<1>7. CallSound(c)
  BY <1>4, <1>6 DEF CallSound
<1>8. GroupCursor(c, groupAt', group')
  BY <1>1, <1>2, <1>3, <1>4, <1>5 DEF GroupCursor
<1>9. UserRecord(c, person')
  BY <1>4 DEF UserRecord
<1>10. groupAt' \in 0 .. Entries /\ group' \in 0 .. Entries /\ person' \in People \cup {NoUser}
  BY <1>1, ListsAssumption DEF CallsSound
<1>11. QED
  BY <1>1, <1>3, <1>7, <1>8, <1>9, <1>10, Loud

LEMMA NodeFields ==
  ASSUME NEW entry \in Values, NEW names \in SUBSET FieldNames,
         NEW owned \in Duplicates(names, entry), NEW node, node = Node(entry, owned)
  PROVE  /\ node \in NodeSet /\ node.entry = entry /\ DOMAIN node.owned \subseteq names
         /\ \A f \in DOMAIN node.owned : node.owned[f] = entry
<1>1. PICK m \in SUBSET names : owned = [n \in m |-> entry]
  BY DEF Duplicates
<1>2. owned \in [m -> Values] /\ m \in SUBSET FieldNames
  BY <1>1
<1>3. owned \in UNION {[kept -> Values] : kept \in SUBSET FieldNames}
  BY <1>2
<1>4. node \in NodeSet /\ node.entry = entry /\ node.owned = owned
  BY <1>3 DEF Node, NodeSet
<1>5. QED
  BY <1>1, <1>4

LEMMA AddNodeStep ==
  ASSUME CallsSound, NEW t \in Callers, NEW kind \in Lists, NEW entry \in Values,
         NEW names \in SUBSET FieldNames, AddNode(t, kind, entry, names),
         kind # "groups" => entry = Head(doing[t].todo),
         kind = "groups" => entry = group
  PROVE  CallsSound'
<1>1. PICK owned \in Duplicates(names, entry) :
        Becomes(t, [doing[t] EXCEPT !.nodes = Append(@, Node(entry, owned)), !.todo = Tail(@)])
  BY DEF AddNode
<1>2. PICK node : node = Node(entry, owned)
  OBVIOUS
<1>3. node \in NodeSet /\ node.entry = entry
  BY <1>2, NodeFields
<1>4. PICK b : b = doing[t]
  OBVIOUS
<1>5. PICK nodes, todo : nodes = Append(b.nodes, node) /\ todo = Tail(b.todo)
  OBVIOUS
<1>6. /\ b \in Call /\ CallSound(b) /\ GroupCursor(b, groupAt, group)
      /\ b.kind = kind /\ b.phase = "collect" /\ b.todo # <<>>
      /\ UNCHANGED <<groupAt, group, person>>
  BY <1>4 DEF CallsSound, AddNode, Collecting
<1>7. b.nodes \in Seq(NodeSet) /\ b.todo \in Seq(Todo)
  BY <1>6 DEF Call
<1>8. PICK k : k = Len(b.nodes) + 1
  OBVIOUS
<1>9. /\ nodes \in Seq(NodeSet) /\ nodes[k] = node /\ k \notin DOMAIN b.nodes
      /\ DOMAIN nodes = DOMAIN b.nodes \cup {k}
      /\ \A i \in DOMAIN b.nodes : nodes[i] = b.nodes[i]
  BY <1>3, <1>5, <1>7, <1>8, Appended
<1>10. /\ Len(b.nodes) \in Nat /\ Len(nodes) = k
  BY <1>3, <1>5, <1>7, <1>8, AppendProperties, LenProperties
<1>11. /\ todo \in Seq(Todo) /\ Len(b.todo) \in Nat \ {0} /\ Len(todo) = Len(b.todo) - 1
       /\ DOMAIN b.todo = 1 .. Len(b.todo) /\ DOMAIN todo = 1 .. Len(b.todo) - 1
       /\ \A i \in 1 .. Len(b.todo) - 1 : todo[i] = b.todo[i + 1]
       /\ Head(b.todo) = b.todo[1]
  BY <1>5, <1>6, <1>7, TailOf
<1>12. PICK c : c = [b EXCEPT !.nodes = nodes, !.todo = todo]
  OBVIOUS
<1>13. Becomes(t, c)
  BY <1>1, <1>2, <1>4, <1>5, <1>12
<1>14. /\ c \in Call /\ c.kind = kind /\ c.phase = "collect" /\ c.todo = todo
       /\ c.nodes = nodes /\ c.got = b.got /\ c.short = b.short
       /\ c.disturbed = b.disturbed
  BY <1>6, <1>9, <1>11, <1>12 DEF Call
<1>15. ASSUME ~ c.disturbed
       PROVE  ListSound(c) /\ GroupCursor(c, groupAt, group)
  <2>1. ListSound(b) /\ Entries \in Nat /\ groupAt \in 0 .. Entries
    BY <1>6, <1>14, <1>15, ListsAssumption DEF CallSound, CallsSound
  <2>2. CASE kind # "groups"
    <3>1. /\ Len(b.nodes) + Len(b.todo) = Entries
          /\ \A i \in DOMAIN b.todo : b.todo[i] = Len(b.nodes) + i
      BY <1>6, <2>1, <2>2 DEF ListSound
    <3>2. entry = k
      <4>1. entry = b.todo[1] /\ 1 \in DOMAIN b.todo
        BY <1>4, <1>11, <2>2
      <4>2. QED
        BY <1>8, <3>1, <4>1
    <3>3. \A i \in DOMAIN nodes : nodes[i].entry = i
      BY <1>3, <1>6, <1>9, <2>1, <3>2 DEF ListSound
    <3>4. k <= Entries /\ k + Len(todo) = Entries
      <4>1. Len(b.nodes) \in Nat /\ Len(b.todo) \in Nat \ {0} /\ Len(todo) = Len(b.todo) - 1
        BY <1>10, <1>11
      <4>2. \A m \in Nat, n \in Nat \ {0} :
              m + n = Entries => m + 1 <= Entries /\ (m + 1) + (n - 1) = Entries
        BY <2>1
      <4>3. Len(b.nodes) + Len(b.todo) = Entries
        BY <3>1
      <4>4. QED
        BY <1>8, <4>1, <4>2, <4>3
    <3>5. ASSUME NEW i \in DOMAIN todo PROVE todo[i] = k + i
      <4>1. i \in Nat /\ i + 1 \in DOMAIN b.todo /\ todo[i] = b.todo[i + 1]
        BY <1>11
      <4>2. todo[i] = Len(b.nodes) + (i + 1)
        BY <3>1, <4>1
      <4>3. QED
        BY <1>8, <1>10, <4>1, <4>2
    <3>6. QED
      BY <1>6, <1>10, <1>14, <2>1, <2>2, <3>3, <3>4, <3>5 DEF ListSound, GroupCursor
  <2>3. CASE kind = "groups"
    <3>1. Len(b.todo) = 1 /\ groupAt = Len(b.nodes) + Len(b.todo) /\ group = groupAt
      <4>1. Len(b.todo) <= 1 /\ Len(b.todo) \in Nat \ {0}
        BY <1>6, <1>11, <2>1, <2>3 DEF ListSound
      <4>2. groupAt = Len(b.nodes) + Len(b.todo) /\ group = groupAt
        BY <1>6, <1>14, <1>15, <2>3 DEF GroupCursor
      <4>3. \A n \in Nat \ {0} : n <= 1 => n = 1
        OBVIOUS
      <4>4. QED
        BY <4>1, <4>2, <4>3
    <3>2. entry = k /\ k <= Entries /\ k = groupAt /\ Len(todo) = 0
      BY <1>8, <1>11, <2>1, <2>3, <3>1
    <3>3. \A i \in DOMAIN nodes : nodes[i].entry = i
      BY <1>3, <1>6, <1>9, <2>1, <3>2 DEF ListSound
    <3>4. groupAt = k + Len(todo) /\ group = groupAt
      BY <1>8, <1>10, <3>1, <3>2
    <3>5. QED
      BY <1>6, <1>10, <1>14, <2>1, <2>3, <3>2, <3>3, <3>4 DEF ListSound, GroupCursor
  <2>4. QED
    BY <2>2, <2>3
<1>16. CallSound(c)
  BY <1>14, <1>15 DEF CallSound, Lists
<1>17. GroupCursor(c, groupAt, group) /\ UserRecord(c, person)
  BY <1>14, <1>15 DEF GroupCursor, UserRecord, Lists
<1>18. QED
  BY <1>6, <1>13, <1>16, <1>17, Quiet

LEMMA CollectedStep ==
  ASSUME CallsSound, NEW t \in Callers, NEW kind \in Lists, Collected(t, kind)
  PROVE  CallsSound'
<1>1. PICK b : b = doing[t]
  OBVIOUS
<1>2. PICK c : c = [b EXCEPT !.phase = "copy"]
  OBVIOUS
<1>3. /\ b \in Call /\ CallSound(b) /\ GroupCursor(b, groupAt, group)
      /\ b.kind = kind /\ b.phase = "collect" /\ b.todo = <<>> /\ ~ segv
      /\ UNCHANGED <<group, person>>
  BY <1>1 DEF CallsSound, Collected, Collecting
<1>4. /\ c \in Call /\ c.kind = kind /\ c.phase = "copy" /\ c.todo = <<>>
      /\ c.nodes = b.nodes /\ c.got = b.got /\ c.short = b.short
      /\ c.disturbed = b.disturbed
  BY <1>2, <1>3 DEF Call
<1>5. \/ kind = "groups" /\ groupAt = Entries /\ groupAt' = 0 /\ Disturbing(t, kind, c)
      \/ kind # "groups" /\ groupAt' = groupAt /\ Becomes(t, c)
  BY <1>1, <1>2 DEF Collected
<1>6. /\ Len(b.todo) = 0 /\ Len(b.nodes) \in Nat /\ Entries \in Nat
  BY <1>3, NoElement, LenProperties, ListsAssumption DEF Call
<1>7. ASSUME ~ c.disturbed PROVE ListSound(c)
  <2>1. ListSound(b)
    BY <1>3, <1>4, <1>7 DEF CallSound
  <2>2. Len(b.nodes) = Entries
    BY <1>3, <1>4, <1>5, <1>6, <1>7, <2>1 DEF ListSound, GroupCursor
  <2>3. QED
    BY <1>3, <1>4, <1>6, <2>1, <2>2 DEF ListSound
<1>8. CallSound(c)
  BY <1>4, <1>7 DEF CallSound, Lists
<1>9. GroupCursor(c, groupAt', group') /\ UserRecord(c, person')
  BY <1>4 DEF GroupCursor, UserRecord
<1>10. CASE kind = "groups"
  <2>1. groupAt' \in 0 .. Entries /\ group' \in 0 .. Entries /\ person' \in People \cup {NoUser}
    BY <1>3, <1>5, <1>6, <1>10 DEF CallsSound
  <2>2. QED
    BY <1>3, <1>5, <1>8, <1>9, <1>10, <2>1, Loud
<1>11. CASE kind # "groups"
  BY <1>3, <1>5, <1>8, <1>9, <1>11, Quiet
<1>12. QED
  BY <1>10, <1>11

(* No memory: the nodes are dropped, returned or freed. *)
LEMMA OutOfMemoryStep ==
  ASSUME CallsSound, NEW t \in Callers,
         \/ HostsOutOfMemory(t) \/ GroupsOutOfMemory(t)
         \/ \E kind \in {"interfaces", "processes"} : ListOutOfMemory(t, kind)
  PROVE  CallsSound'
<1>1. PICK b : b = doing[t]
  OBVIOUS
<1>2. /\ b \in Call /\ CallSound(b) /\ b.phase = "collect" /\ b.kind \in Lists /\ ~ segv
  BY <1>1
     DEF CallsSound, HostsOutOfMemory, GroupsOutOfMemory, ListOutOfMemory, Collecting, Lists
<1>3. CASE HostsOutOfMemory(t) \/ GroupsOutOfMemory(t)
  <2>1. PICK c : c = [b EXCEPT !.phase = "idle", !.nodes = <<>>, !.short = TRUE]
    OBVIOUS
  <2>2. /\ c \in Call /\ c.kind = b.kind /\ c.phase = "idle" /\ c.nodes = <<>> /\ c.got = b.got
        /\ c.short /\ c.disturbed = b.disturbed
    BY <1>2, <2>1, NoElement DEF Call
  <2>3. ~ c.disturbed => ListSound(c)
    BY <1>2, <2>2 DEF ListSound, CallSound
  <2>4. CallSound(c)
    BY <1>2, <2>2, <2>3 DEF CallSound, Lists
  <2>5. CASE HostsOutOfMemory(t)
    <3>1. Becomes(t, c) /\ UNCHANGED <<groupAt, group, person>>
      BY <1>1, <2>1, <2>5 DEF HostsOutOfMemory
    <3>2. GroupCursor(c, groupAt, group) /\ UserRecord(c, person)
      BY <2>2 DEF GroupCursor, UserRecord
    <3>3. QED
      BY <2>4, <3>1, <3>2, Quiet
  <2>6. CASE GroupsOutOfMemory(t)
    <3>1. Disturbing(t, "groups", c) /\ groupAt' = 0 /\ UNCHANGED <<group, person>>
      BY <1>1, <2>1, <2>6 DEF GroupsOutOfMemory
    <3>2. GroupCursor(c, groupAt', group') /\ UserRecord(c, person')
      BY <2>2 DEF GroupCursor, UserRecord
    <3>3. groupAt' \in 0 .. Entries /\ group' \in 0 .. Entries
          /\ person' \in People \cup {NoUser}
      BY <3>1, ListsAssumption DEF CallsSound
    <3>4. QED
      BY <1>2, <2>4, <3>1, <3>2, <3>3, Loud
  <2>7. QED
    BY <1>3, <2>5, <2>6
<1>4. CASE \E kind \in {"interfaces", "processes"} : ListOutOfMemory(t, kind)
  <2>1. PICK c : c = [b EXCEPT !.phase = "copy", !.short = TRUE]
    OBVIOUS
  <2>2. /\ c \in Call /\ c.kind = b.kind /\ c.phase = "copy" /\ c.nodes = b.nodes
        /\ c.got = b.got /\ c.short /\ c.disturbed = b.disturbed
    BY <1>2, <2>1 DEF Call
  <2>3. ~ c.disturbed => ListSound(c)
    BY <1>2, <2>2 DEF ListSound, CallSound
  <2>4. CallSound(c)
    BY <1>2, <2>2, <2>3 DEF CallSound, Lists
  <2>5. Becomes(t, c) /\ UNCHANGED <<groupAt, group, person>>
    BY <1>1, <1>4, <2>1 DEF ListOutOfMemory
  <2>6. GroupCursor(c, groupAt, group) /\ UserRecord(c, person)
    BY <2>2 DEF GroupCursor, UserRecord
  <2>7. QED
    BY <2>4, <2>5, <2>6, Quiet
<1>5. QED
  BY <1>3, <1>4

(* A record of user u, as LookUp makes it *)
LEMMA RecordOf ==
  ASSUME NEW u \in People, NEW node, node = Node(u, <<>>)
  PROVE  node \in NodeSet /\ DOMAIN node.owned = {} /\ node.owned = <<>>
<1>1. <<>> \in [{} -> Values]
  <2>1. <<>> \in Seq(Values) /\ Len(<<>>) = 0
    BY NoElement
  <2>2. <<>> \in [1 .. 0 -> Values]
    BY <2>1, LenProperties
  <2>3. 1 .. 0 = {}
    OBVIOUS
  <2>4. QED
    BY <2>2, <2>3
<1>2. <<>> \in UNION {[kept -> Values] : kept \in SUBSET FieldNames}
  BY <1>1
<1>3. QED
  BY <1>2, NoElement DEF Node, NodeSet, Values

LEMMA LookUpStep ==
  ASSUME CallsSound, NEW t \in Callers, LookUp(t)
  PROVE  CallsSound'
<1>1. PICK u, memory, c, d :
        /\ u \in People /\ memory \in BOOLEAN
        /\ c = [NoCall EXCEPT !.kind = IF windows THEN "winuser" ELSE "user",
                              !.who = u, !.short = ~memory]
        /\ d = IF memory
               THEN [c EXCEPT !.phase = "collect", !.nodes = <<Node(u, <<>>)>>]
               ELSE c
        /\ person' = IF windows THEN person ELSE u
        /\ Disturbing(t, "user", d)
  BY DEF LookUp
<1>2. PICK node : node = Node(u, <<>>)
  OBVIOUS
<1>3. /\ <<node>> \in Seq(NodeSet) /\ Len(<<node>>) = 1 /\ DOMAIN <<node>> = {1}
      /\ <<node>>[1] = node /\ DOMAIN node.owned = {}
  BY <1>1, <1>2, RecordOf, OneElement
<1>4. /\ c \in Call /\ c.kind = (IF windows THEN "winuser" ELSE "user") /\ c.phase = "idle"
      /\ c.nodes = <<>> /\ c.got = <<>> /\ c.who = u /\ ~ c.disturbed
  BY <1>1, NoCallFields DEF Call
<1>5. /\ d \in Call /\ d.kind = c.kind /\ d.got = <<>> /\ d.who = u /\ ~ d.disturbed
      /\ \/ d.phase = "idle" /\ d.nodes = <<>>
         \/ d.phase = "collect" /\ d.nodes = <<node>>
  <2>1. CASE memory
    <3>1. d = [c EXCEPT !.phase = "collect", !.nodes = <<node>>]
      BY <1>1, <1>2, <2>1
    <3>2. QED
      BY <1>3, <1>4, <3>1 DEF Call
  <2>2. CASE ~ memory
    <3>1. d = c
      BY <1>1, <2>2
    <3>2. QED
      BY <1>4, <3>1
  <2>3. QED
    BY <1>1, <2>1, <2>2
<1>6. UserSound(d)
  BY <1>3, <1>5, NoElement DEF UserSound, AsAsked
<1>7. d.kind \notin Lists
  BY <1>4, <1>5 DEF Lists
<1>8. CallSound(d)
  <2>1. d.phase = "idle" => d.nodes = <<>>
    BY <1>5
  <2>2. QED
    BY <1>5, <1>6, <1>7, <2>1 DEF CallSound
<1>9. GroupCursor(d, groupAt', group') /\ UserRecord(d, person')
  BY <1>1, <1>4, <1>5 DEF GroupCursor, UserRecord
<1>10. ~ segv /\ UNCHANGED <<groupAt, group>>
  BY DEF LookUp, Begins
<1>11. groupAt' \in 0 .. Entries /\ group' \in 0 .. Entries /\ person' \in People \cup {NoUser}
  BY <1>1, <1>10 DEF CallsSound
<1>12. QED
  BY <1>1, <1>8, <1>9, <1>10, <1>11, Loud

LEMMA StringsCounted == IsFiniteSet(Strings) /\ Cardinality(Strings) = 4
<1>1. IsFiniteSet({}) /\ Cardinality({}) = 0
  BY FS_EmptySet
<1>2. IsFiniteSet({"username"}) /\ Cardinality({"username"}) = 1
  BY FS_Singleton
<1>3. /\ IsFiniteSet({"username"} \cup {"realname"})
      /\ Cardinality({"username"} \cup {"realname"}) = 2
  BY <1>2, FS_AddElement
<1>4. /\ IsFiniteSet(({"username"} \cup {"realname"}) \cup {"home_dir"})
      /\ Cardinality(({"username"} \cup {"realname"}) \cup {"home_dir"}) = 3
  BY <1>3, FS_AddElement
<1>5. /\ IsFiniteSet((({"username"} \cup {"realname"}) \cup {"home_dir"}) \cup {"shell"})
      /\ Cardinality((({"username"} \cup {"realname"}) \cup {"home_dir"}) \cup {"shell"}) = 4
  BY <1>4, FS_AddElement
<1>6. Strings = (({"username"} \cup {"realname"}) \cup {"home_dir"}) \cup {"shell"}
  BY DEF Strings
<1>7. QED
  BY <1>5, <1>6

(* The node of a look-up, and the field that comes next *)
LEMMA OneNode ==
  ASSUME NEW b \in Call, Len(b.nodes) = 1
  PROVE  b.nodes[1] \in NodeSet /\ DOMAIN b.nodes = {1} /\ 1 \in DOMAIN b.nodes
<1>1. b.nodes \in Seq(NodeSet)
  BY DEF Call
<1>2. DOMAIN b.nodes = 1 .. 1 /\ b.nodes[1] \in NodeSet
  BY <1>1, LenProperties, ElementOfSeq
<1>3. QED
  BY <1>2

LEMMA NextField ==
  ASSUME NEW n \in Nat, n < 4, NEW field,
         field = <<"username", "realname", "home_dir", "shell">>[n + 1]
  PROVE  /\ field \in Strings
         /\ field = "username" => n = 0
         /\ field = "realname" => n = 1
         /\ field = "home_dir" => n = 2
         /\ field = "shell" => n = 3
<1>1. n = 0 \/ n = 1 \/ n = 2 \/ n = 3
  OBVIOUS
<1>2. QED
  BY <1>1 DEF Strings

(* The strings of a node that gets one more *)
LEMMA MoreOwned ==
  ASSUME NEW node \in NodeSet, NEW field \in Strings, NEW value \in Values,
         NEW entry, entry = node.entry,
         NEW more, more = [f \in DOMAIN node.owned \cup {field} |->
                             IF f = field THEN value ELSE node.owned[f]],
         NEW new, new = Node(entry, more)
  PROVE  /\ new \in NodeSet /\ new.owned = more
         /\ DOMAIN new.owned = DOMAIN node.owned \cup {field}
         /\ \A f \in DOMAIN new.owned :
              new.owned[f] = IF f = field THEN value ELSE node.owned[f]
<1>1. PICK kept \in SUBSET FieldNames : node.owned \in [kept -> Values]
  BY DEF NodeSet
<1>2. /\ DOMAIN node.owned = kept /\ node.entry \in Values
      /\ \A f \in kept : node.owned[f] \in Values
  BY <1>1 DEF NodeSet
<1>3. kept \cup {field} \in SUBSET FieldNames /\ more \in [kept \cup {field} -> Values]
  BY <1>1, <1>2 DEF FieldNames
<1>4. more \in UNION {[m -> Values] : m \in SUBSET FieldNames}
  BY <1>3
<1>5. new \in NodeSet /\ new.owned = more
  BY <1>2, <1>4 DEF Node, NodeSet
<1>6. QED
  BY <1>2, <1>5

LEMMA DuplicateStep ==
  ASSUME CallsSound, NEW t \in Callers, Duplicate(t)
  PROVE  CallsSound'
<1>1. PICK b : b = doing[t]
  OBVIOUS
<1>2. /\ b \in Call /\ CallSound(b) /\ UserRecord(b, person) /\ UserSound(b)
      /\ b.kind = "user" /\ b.phase = "collect" /\ Len(b.todo) < Cardinality(Strings)
      /\ UNCHANGED <<groupAt, group, person>> /\ person \in People \cup {NoUser}
  BY <1>1 DEF CallsSound, CallSound, Duplicate, Collecting
<1>3. PICK n, field : /\ n = Len(b.todo)
                      /\ field = <<"username", "realname", "home_dir", "shell">>[n + 1]
  OBVIOUS
<1>4. n \in Nat /\ n < 4 /\ b.todo \in Seq(Todo)
  BY <1>2, <1>3, StringsCounted, LenProperties DEF Call
<1>5. /\ field \in Strings /\ field \in Todo
      /\ field = "username" => n = 0
      /\ field = "realname" => n = 1
      /\ field = "home_dir" => n = 2
      /\ field = "shell" => n = 3
  BY <1>3, <1>4, NextField DEF Todo
<1>6. PICK todo : todo = Append(b.todo, field)
  OBVIOUS
<1>7. todo \in Seq(Todo) /\ Len(todo) = n + 1
  BY <1>3, <1>4, <1>5, <1>6, AppendProperties
<1>8. Len(b.nodes) = 1
  BY <1>2 DEF UserSound
<1>9. PICK node : node = b.nodes[1]
  OBVIOUS
<1>10. node \in NodeSet /\ DOMAIN b.nodes = {1} /\ 1 \in DOMAIN b.nodes
  BY <1>2, <1>8, <1>9, OneNode
<1>11. PICK more, new :
         /\ more = [f \in DOMAIN node.owned \cup {field} |->
                      IF f = field THEN person ELSE node.owned[f]]
         /\ new = Node(node.entry, more)
  OBVIOUS
<1>12. person \in Values
  BY <1>2 DEF Values
<1>13. /\ new \in NodeSet
       /\ DOMAIN new.owned = DOMAIN node.owned \cup {field}
       /\ \A f \in DOMAIN new.owned :
            new.owned[f] = IF f = field THEN person ELSE node.owned[f]
  BY <1>5, <1>10, <1>11, <1>12, MoreOwned
<1>14. /\ <<new>> \in Seq(NodeSet) /\ Len(<<new>>) = 1 /\ DOMAIN <<new>> = {1}
       /\ <<new>>[1] = new
  BY <1>13, OneElement
<1>15. PICK c, nodes : /\ Becomes(t, c) /\ c = [b EXCEPT !.todo = todo, !.nodes = nodes]
                       /\ nodes = <<new>> \/ nodes = b.nodes
  <2>1. PICK memory \in BOOLEAN :
          Becomes(t, [b EXCEPT !.todo = Append(@, field),
                               !.nodes = IF memory THEN <<Node(@[1].entry, more)>> ELSE @])
    BY <1>1, <1>3, <1>9, <1>11 DEF Duplicate
  <2>2. PICK nodes : nodes = IF memory THEN <<new>> ELSE b.nodes
    OBVIOUS
  <2>3. Becomes(t, [b EXCEPT !.todo = todo, !.nodes = nodes])
    BY <1>6, <1>9, <1>11, <2>1, <2>2
  <2>4. QED
    BY <2>2, <2>3
<1>16. /\ c \in Call /\ c.kind = "user" /\ c.phase = "collect" /\ c.todo = todo
       /\ c.nodes = nodes /\ c.got = b.got /\ c.who = b.who /\ c.disturbed = b.disturbed
  BY <1>2, <1>7, <1>14, <1>15 DEF Call
<1>17. CASE nodes = b.nodes
  <2>1. UserSound(c)
    BY <1>2, <1>3, <1>4, <1>7, <1>16, <1>17 DEF UserSound, AsAsked
  <2>2. CallSound(c) /\ GroupCursor(c, groupAt, group) /\ UserRecord(c, person)
    BY <1>2, <1>16, <2>1 DEF CallSound, GroupCursor, UserRecord, Lists
  <2>3. QED
    BY <1>2, <1>15, <2>2, Quiet
<1>18. CASE nodes = <<new>>
  <2>1. ~ c.disturbed => AsAsked(c, new)
    BY <1>2, <1>9, <1>10, <1>13, <1>16 DEF UserSound, UserRecord, AsAsked
  <2>2. /\ "username" \in DOMAIN new.owned => n + 1 >= 1
        /\ "realname" \in DOMAIN new.owned => n + 1 >= 2
        /\ "home_dir" \in DOMAIN new.owned => n + 1 >= 3
        /\ "shell" \in DOMAIN new.owned => n + 1 >= 4
    BY <1>2, <1>3, <1>4, <1>5, <1>9, <1>13 DEF UserSound
  <2>3. ~ c.disturbed => \A i \in DOMAIN c.got : AsAsked(c, c.got[i])
    BY <1>2, <1>16 DEF UserSound, AsAsked
  <2>4. UserSound(c)
    BY <1>7, <1>14, <1>16, <1>18, <2>1, <2>2, <2>3 DEF UserSound
  <2>5. CallSound(c) /\ GroupCursor(c, groupAt, group) /\ UserRecord(c, person)
    BY <1>2, <1>16, <2>4 DEF CallSound, GroupCursor, UserRecord, Lists
  <2>6. QED
    BY <1>2, <1>15, <2>5, Quiet
<1>19. QED
  BY <1>15, <1>17, <1>18

LEMMA FilledStep ==
  ASSUME CallsSound, NEW t \in Callers, Filled(t)
  PROVE  CallsSound'
<1>1. PICK b, c : b = doing[t] /\ c = [b EXCEPT !.phase = "copy"]
  OBVIOUS
<1>2. /\ b \in Call /\ UserSound(b) /\ b.kind = "user"
      /\ Becomes(t, c) /\ UNCHANGED <<groupAt, group, person>>
  BY <1>1 DEF CallsSound, CallSound, Filled, Collecting
<1>3. /\ c \in Call /\ c.kind = "user" /\ c.phase = "copy" /\ c.nodes = b.nodes
      /\ c.got = b.got /\ c.who = b.who /\ c.disturbed = b.disturbed
  BY <1>1, <1>2 DEF Call
<1>4. UserSound(c)
  BY <1>2, <1>3 DEF UserSound, AsAsked
<1>5. CallSound(c) /\ GroupCursor(c, groupAt, group) /\ UserRecord(c, person)
  BY <1>3, <1>4 DEF CallSound, GroupCursor, UserRecord, Lists
<1>6. QED
  BY <1>2, <1>5, Quiet

LEMMA FillWindowsUserStep ==
  ASSUME CallsSound, NEW t \in Callers, FillWindowsUser(t)
  PROVE  CallsSound'
<1>1. PICK b : b = doing[t]
  OBVIOUS
<1>2. /\ b \in Call /\ UserSound(b) /\ b.kind = "winuser" /\ b.phase = "collect"
      /\ UNCHANGED <<groupAt, group, person>>
  BY <1>1 DEF CallsSound, CallSound, FillWindowsUser, Collecting
<1>n. PICK kept \in SUBSET Strings, full \in {Me, NoUser}, home \in {Me, NoUser} :
        Becomes(t, [b EXCEPT !.phase = "copy",
                             !.nodes = <<Node(@[1].entry,
                                              [f \in kept |->
                                                 CASE f = "username" -> b.who
                                                   [] f = "realname" -> full
                                                   [] f = "home_dir" -> home
                                                   [] OTHER -> NoUser])>>])
  BY <1>1 DEF FillWindowsUser
<1>3. PICK owned, c :
        /\ owned = [f \in kept |-> CASE f = "username" -> b.who
                                     [] f = "realname" -> full
                                     [] f = "home_dir" -> home
                                     [] OTHER -> NoUser]
        /\ c = [b EXCEPT !.phase = "copy", !.nodes = <<Node(@[1].entry, owned)>>]
        /\ Becomes(t, c)
  BY <1>n
<1>4. b.who \in Values /\ Me \in Values /\ NoUser \in Values /\ kept \in SUBSET FieldNames
  BY <1>2, ListsAssumption DEF Call, Values, FieldNames
<1>5. /\ owned \in [kept -> Values]
      /\ \A f \in kept : \/ owned[f] = b.who
                         \/ f # "username" /\ owned[f] \in {Me, NoUser}
  <2>1. ASSUME NEW f \in kept
        PROVE  /\ owned[f] \in Values
               /\ \/ owned[f] = b.who
                  \/ f # "username" /\ owned[f] \in {Me, NoUser}
    <3>1. f \in {"username", "realname", "home_dir", "shell"}
      BY DEF Strings
    <3>2. owned[f] = CASE f = "username" -> b.who
                       [] f = "realname" -> full
                       [] f = "home_dir" -> home
                       [] OTHER -> NoUser
      BY <1>3
    <3>3. QED
      BY <1>3, <1>4, <3>1, <3>2
  <2>2. QED
    BY <1>3, <2>1
<1>6. owned \in UNION {[m -> Values] : m \in SUBSET FieldNames}
  BY <1>4, <1>5
<1>7. Len(b.nodes) = 1
  BY <1>2 DEF UserSound
<1>8. b.nodes[1].entry \in Values
  BY <1>2, <1>7, OneNode DEF NodeSet
<1>9. PICK new : new = Node(b.nodes[1].entry, owned)
  OBVIOUS
<1>10. new \in NodeSet /\ new.owned = owned /\ DOMAIN owned = kept
  BY <1>5, <1>6, <1>8, <1>9 DEF Node, NodeSet
<1>11. /\ <<new>> \in Seq(NodeSet) /\ DOMAIN <<new>> = {1} /\ <<new>>[1] = new
  BY <1>10, OneElement
<1>12. /\ c \in Call /\ c.kind = "winuser" /\ c.phase = "copy" /\ c.nodes = <<new>>
       /\ c.got = b.got /\ c.who = b.who /\ c.disturbed = b.disturbed
  BY <1>2, <1>3, <1>9, <1>11 DEF Call
<1>13. AsAsked(c, new)
  BY <1>5, <1>10, <1>12 DEF AsAsked
<1>14. ~ c.disturbed => \A i \in DOMAIN c.got : AsAsked(c, c.got[i])
  BY <1>2, <1>12 DEF UserSound, AsAsked
<1>15. UserSound(c)
  BY <1>11, <1>12, <1>13, <1>14 DEF UserSound
<1>16. CallSound(c) /\ GroupCursor(c, groupAt, group) /\ UserRecord(c, person)
  BY <1>12, <1>15 DEF CallSound, GroupCursor, UserRecord, Lists
<1>17. QED
  BY <1>2, <1>3, <1>16, Quiet

LEMMA CopyStep ==
  ASSUME CallsSound, NEW t \in Callers, Copy(t)
  PROVE  CallsSound'
<1>1. PICK b, c : b = doing[t] /\ c = [b EXCEPT !.phase = "free", !.got = b.nodes]
  OBVIOUS
<1>2. /\ b \in Call /\ CallSound(b) /\ b.phase = "copy"
      /\ Becomes(t, c) /\ UNCHANGED <<groupAt, group, person>>
  BY <1>1 DEF CallsSound, Copy
<1>3. /\ c \in Call /\ c.kind = b.kind /\ c.phase = "free" /\ c.nodes = b.nodes
      /\ c.got = b.nodes /\ c.short = b.short /\ c.who = b.who /\ c.disturbed = b.disturbed
  BY <1>1, <1>2 DEF Call
<1>4. ListSound(b) => ListSound(c)
  BY <1>2, <1>3 DEF ListSound
<1>5. UserSound(b) => UserSound(c)
  BY <1>2, <1>3 DEF UserSound, AsAsked
<1>6. CallSound(c) /\ GroupCursor(c, groupAt, group) /\ UserRecord(c, person)
  BY <1>2, <1>3, <1>4, <1>5 DEF CallSound, GroupCursor, UserRecord
<1>7. QED
  BY <1>2, <1>6, Quiet

LEMMA FreeStep ==
  ASSUME CallsSound, NEW t \in Callers, Free(t)
  PROVE  CallsSound'
<1>1. PICK b : b = doing[t]
  OBVIOUS
<1>2. /\ b \in Call /\ CallSound(b) /\ b.phase = "free" /\ b.nodes \in Seq(NodeSet)
      /\ UNCHANGED <<groupAt, group, person>>
  BY <1>1 DEF CallsSound, Free, Call
<1>3. PICK phase \in {"free", "idle"}, nodes \in Seq(NodeSet) :
        /\ Becomes(t, [b EXCEPT !.phase = phase, !.nodes = nodes])
        /\ phase = "idle" => nodes = <<>>
        /\ \A i \in DOMAIN nodes : \E j \in DOMAIN b.nodes : nodes[i] = b.nodes[j]
  <2>1. CASE b.nodes = <<>>
    <3>1. [b EXCEPT !.phase = "idle"] = [b EXCEPT !.phase = "idle", !.nodes = <<>>]
      BY <1>2, <2>1 DEF Call
    <3>2. Becomes(t, [b EXCEPT !.phase = "idle", !.nodes = <<>>])
      BY <1>1, <2>1, <3>1 DEF Free
    <3>3. <<>> \in Seq(NodeSet) /\ DOMAIN <<>> = {}
      BY NoElement
    <3>4. QED
      BY <3>2, <3>3
  <2>2. CASE b.nodes # <<>>
    <3>1. PICK nodes : nodes = Tail(b.nodes)
      OBVIOUS
    <3>2. /\ nodes \in Seq(NodeSet)
          /\ \A i \in DOMAIN nodes : \E j \in DOMAIN b.nodes : nodes[i] = b.nodes[j]
      <4>1. /\ nodes \in Seq(NodeSet) /\ Len(b.nodes) \in Nat \ {0}
            /\ DOMAIN b.nodes = 1 .. Len(b.nodes) /\ DOMAIN nodes = 1 .. Len(b.nodes) - 1
            /\ \A i \in 1 .. Len(b.nodes) - 1 : nodes[i] = b.nodes[i + 1]
        BY <1>2, <2>2, <3>1, TailOf
      <4>2. \A n \in Nat \ {0} : \A i \in 1 .. n - 1 : i + 1 \in 1 .. n
        OBVIOUS
      <4>3. QED
        BY <4>1, <4>2
    <3>3. [b EXCEPT !.nodes = nodes] = [b EXCEPT !.phase = "free", !.nodes = nodes]
      BY <1>2 DEF Call
    <3>4. Becomes(t, [b EXCEPT !.phase = "free", !.nodes = nodes])
      BY <1>1, <2>2, <3>1, <3>3 DEF Free
    <3>5. QED
      BY <3>2, <3>4
  <2>3. QED
    BY <2>1, <2>2
<1>4. PICK c : c = [b EXCEPT !.phase = phase, !.nodes = nodes]
  OBVIOUS
<1>5. /\ c \in Call /\ c.kind = b.kind /\ c.phase = phase /\ c.nodes = nodes
      /\ c.got = b.got /\ c.short = b.short /\ c.who = b.who /\ c.disturbed = b.disturbed
  BY <1>2, <1>3, <1>4 DEF Call
<1>6. ListSound(b) => ListSound(c)
  BY <1>2, <1>3, <1>5 DEF ListSound
<1>7. UserSound(b) => UserSound(c)
  BY <1>2, <1>3, <1>5 DEF UserSound, AsAsked
<1>8. CallSound(c) /\ GroupCursor(c, groupAt, group) /\ UserRecord(c, person)
  BY <1>2, <1>3, <1>5, <1>6, <1>7 DEF CallSound, GroupCursor, UserRecord
<1>9. QED
  BY <1>2, <1>3, <1>4, <1>8, Quiet

-----------------------------------------------------------------------------
(***************************************************************************)
(* The invariant, and what it says of lists and look-ups.                  *)
(***************************************************************************)
LEMMA CallsSoundInit == ListsInit => CallsSound
<1> SUFFICES ASSUME ListsInit PROVE CallsSound
  OBVIOUS
<1>1. doing = [t \in Callers |-> NoCall] /\ doing \in [Callers -> Call]
  BY NoCallFields DEF ListsInit
<1>2. NoCall.kind \notin Lists /\ NoCall.kind \notin {"groups", "user", "winuser"}
  BY NoCallFields DEF Lists
<1>3. CallSound(NoCall) /\ GroupCursor(NoCall, groupAt, group) /\ UserRecord(NoCall, person)
  BY <1>2, NoCallFields DEF CallSound, GroupCursor, UserRecord
<1>4. QED
  BY <1>1, <1>3, ListsAssumption DEF ListsInit, CallsSound

LEMMA PrivateStep ==
  ASSUME CallsSound, NEW t \in Callers, NEW kind \in Lists \ {"groups"}, Private(t, kind)
  PROVE  CallsSound'
<1>1. CASE List(t, kind)
  BY <1>1, ListSoundStep
<1>2. CASE Collected(t, kind)
  BY <1>2, CollectedStep
<1>3. CASE doing[t].todo # <<>> /\ AddNode(t, kind, Head(doing[t].todo), {})
  <2>1. doing[t].todo \in Seq(Todo)
    BY DEF CallsSound, Call
  <2>2. Head(doing[t].todo) \in Values
    BY <1>3, <2>1, TailOf DEF Values
  <2>3. {} \in SUBSET FieldNames /\ kind \in Lists /\ kind # "groups"
    OBVIOUS
  <2>4. QED
    BY <1>3, <2>2, <2>3, AddNodeStep
<1>4. QED
  BY <1>1, <1>2, <1>3 DEF Private

LEMMA CallsSoundStep == CallsSound /\ [ListsNext]_listsVars => CallsSound'
<1> SUFFICES ASSUME CallsSound, [ListsNext]_listsVars PROVE CallsSound'
  OBVIOUS
<1>1. CASE UNCHANGED listsVars
  <2>1. UNCHANGED <<doing, groupAt, group, person>>
    BY <1>1 DEF listsVars
  <2>2. \A u \in Callers : CallSound(doing[u])' <=> CallSound(doing'[u])
    BY DEF CallSound, ListSound, UserSound, AsAsked
  <2>3. \A u \in Callers : CallSound(doing[u])'
    BY <2>1, <2>2 DEF CallsSound
  <2>4. QED
    BY <2>1, <2>3 DEF CallsSound, GroupCursor, UserRecord
<1>2. ASSUME NEW t \in Callers, HostInfo(t) \/ Interfaces(t) \/ ProcessList(t)
      PROVE  CallsSound'
  <2>1. {"hosts", "interfaces", "processes"} \subseteq Lists \ {"groups"}
    BY DEF Lists
  <2>2. QED
    BY <1>2, <2>1, PrivateStep, OutOfMemoryStep DEF HostInfo, Interfaces, ProcessList
<1>3. ASSUME NEW t \in Callers, Groups(t) PROVE CallsSound'
  <2>1. group \in Values /\ {"name"} \in SUBSET FieldNames /\ "groups" \in Lists
    <3>1. group \in Nat
      BY ListsAssumption DEF CallsSound
    <3>2. QED
      BY <3>1 DEF Values, Todo, FieldNames, Lists
  <2>2. ASSUME AddNode(t, "groups", group, {"name"}) PROVE CallsSound'
    BY <2>1, <2>2, AddNodeStep
  <2>3. QED
    BY <1>3, <2>1, <2>2, ListGroupsStep, NextGroupStep, CollectedStep, OutOfMemoryStep
       DEF Groups
<1>4. ASSUME NEW t \in Callers, User(t) PROVE CallsSound'
  BY <1>4, LookUpStep, DuplicateStep, FilledStep, FillWindowsUserStep DEF User
<1>5. QED
  BY <1>1, <1>2, <1>3, <1>4, CopyStep, FreeStep DEF ListsNext

LEMMA CallsInvariant == ListsSpec => []CallsSound
BY CallsSoundInit, CallsSoundStep, PTL DEF ListsSpec

(* A look-up returns the strings of the user that was asked for, however many
   threads look users up and list groups, unless another one looked a user up
   between two uses of the C library's record. *)
THEOREM LookUpAnswers == ListsSpec => []UserAsAsked
<1>1. ASSUME CallsSound, NEW t \in Callers, doing[t].kind \in {"user", "winuser"},
             doing[t].got # <<>>, ~ doing[t].disturbed
      PROVE  AsAsked(doing[t], doing[t].got[1])
  <2>1. doing[t].got \in Seq(NodeSet)
    BY <1>1 DEF CallsSound, Call
  <2>2. 1 \in DOMAIN doing[t].got
    BY <1>1, <2>1, TailOf
  <2>3. QED
    BY <1>1, <2>2 DEF CallsSound, CallSound, UserSound
<1>2. CallsSound => UserAsAsked
  BY <1>1 DEF UserAsAsked, AsAsked
<1>3. QED
  BY <1>2, CallsInvariant, PTL

(* The first n entries, as TLA+ cuts them out *)
LEMMA FirstEntries ==
  ASSUME NEW n \in Nat, n <= Entries, NEW s, s = [i \in 1 .. n |-> i]
  PROVE  Len(s) = n /\ s = SubSeq(All, 1, n)
<1>1. Entries \in Nat /\ n \in 1 - 1 .. Len(All)
  BY ListsAssumption, AllEntries
<1>2. s \in Seq(Todo) /\ Len(s) = n
  <2>1. \A i \in 1 .. n : i \in Todo
    <3>1. \A i \in 1 .. n : i \in Nat
      OBVIOUS
    <3>2. QED
      BY <3>1 DEF Todo
  <2>2. s \in Seq(Todo) /\ DOMAIN s = 1 .. n
    BY <2>1, IsASeq
  <2>3. Len(s) \in Nat /\ DOMAIN s = 1 .. Len(s)
    BY <2>2, LenProperties
  <2>4. QED
    BY <2>2, <2>3
<1>3. /\ SubSeq(All, 1, n) \in Seq(Todo) /\ Len(SubSeq(All, 1, n)) = n
      /\ \A i \in 1 .. n : SubSeq(All, 1, n)[i] = i
  <2>1. /\ SubSeq(All, 1, n) \in Seq(Todo)
        /\ Len(SubSeq(All, 1, n)) = IF 1 <= n THEN n - 1 + 1 ELSE 0
        /\ \A i \in 1 .. n - 1 + 1 : SubSeq(All, 1, n)[i] = All[1 + i - 1]
    BY <1>1, AllEntries, SubSeqProperties
  <2>2. \A i \in 1 .. n : 1 + i - 1 = i /\ i \in 1 .. Entries
    BY <1>1
  <2>3. n - 1 + 1 = n
    OBVIOUS
  <2>4. QED
    BY <2>1, <2>2, <2>3, AllEntries
<1>4. QED
  BY <1>2, <1>3, SeqEqual

(* What a list call returns is a beginning of what the system has, in its order,
   and all of it unless memory ran out. *)
THEOREM ListsReturned == ListsSpec => []ListedInOrder
<1>1. ASSUME CallsSound, NEW t \in Callers, NEW c, c = doing[t], NEW got,
             got = [i \in DOMAIN c.got |-> c.got[i].entry],
             c.kind \in Lists, c.phase = "idle", ~ c.disturbed
      PROVE  /\ got = SubSeq(All, 1, Len(got))
             /\ ~ c.short => got = All
  <2>1. c \in Call /\ ListSound(c)
    BY <1>1 DEF CallsSound, CallSound
  <2>2. PICK n : n = Len(c.got)
    OBVIOUS
  <2>3. n \in Nat /\ DOMAIN c.got = 1 .. n
    BY <2>1, <2>2, LenProperties DEF Call
  <2>4. n <= Entries /\ \A i \in 1 .. n : c.got[i].entry = i
    BY <2>1, <2>2, <2>3 DEF ListSound
  <2>5. got = [i \in 1 .. n |-> i]
    BY <1>1, <2>3, <2>4
  <2>6. Len(got) = n /\ got = SubSeq(All, 1, n)
    BY <2>3, <2>4, <2>5, FirstEntries
  <2>7. ~ c.short => n = Entries
    BY <1>1, <2>1, <2>2 DEF ListSound
  <2>8. QED
    BY <2>5, <2>6, <2>7 DEF All
<1>2. CallsSound => ListedInOrder
  BY <1>1 DEF ListedInOrder
<1>3. QED
  BY <1>2, CallsInvariant, PTL

-----------------------------------------------------------------------------
(***************************************************************************)
(* Counting blocks.                                                        *)
(***************************************************************************)
LEMMA DisjointUnion ==
  ASSUME NEW A, IsFiniteSet(A), NEW B, IsFiniteSet(B), A \cap B = {}
  PROVE  /\ IsFiniteSet(A \cup B) /\ Cardinality(A) \in Nat /\ Cardinality(B) \in Nat
         /\ Cardinality(A \cup B) = Cardinality(A) + Cardinality(B)
<1>1. /\ IsFiniteSet(A \cup B)
      /\ Cardinality(A \cup B) = Cardinality(A) + Cardinality(B) - Cardinality(A \cap B)
  BY FS_Union
<1>2. Cardinality(A \cap B) = 0
  BY FS_EmptySet
<1>3. Cardinality(A) \in Nat /\ Cardinality(B) \in Nat
  BY FS_CardinalityType
<1>4. QED
  BY <1>1, <1>2, <1>3

(* As many pairs as there are in the set *)
LEMMA Tagged ==
  ASSUME NEW t, NEW S, IsFiniteSet(S)
  PROVE  IsFiniteSet({t} \X S) /\ Cardinality({t} \X S) = Cardinality(S)
<1>1. IsFiniteSet({t}) /\ Cardinality({t}) = 1
  BY FS_Singleton
<1>2. /\ IsFiniteSet({t} \X S)
      /\ Cardinality({t} \X S) = Cardinality({t}) * Cardinality(S)
  BY <1>1, FS_Product
<1>3. Cardinality(S) \in Nat
  BY FS_CardinalityType
<1>4. QED
  BY <1>1, <1>2, <1>3

(* What all threads hold, when each of them holds h *)
HeldBlocks(h) == UNION {{t} \X h[t] : t \in Callers}

(* One thread holds something else, and by that all of them together. *)
LEMMA HoldingChanges ==
  ASSUME NEW h, NEW g, NEW t \in Callers, \A u \in Callers \ {t} : g[u] = h[u],
         IsFiniteSet(HeldBlocks(h)), IsFiniteSet(h[t]), IsFiniteSet(g[t])
  PROVE  /\ IsFiniteSet(HeldBlocks(g))
         /\ Cardinality(HeldBlocks(h)) \in Nat /\ Cardinality(HeldBlocks(g)) \in Nat
         /\ Cardinality(h[t]) \in Nat /\ Cardinality(g[t]) \in Nat
         /\ Cardinality(HeldBlocks(g)) + Cardinality(h[t])
              = Cardinality(HeldBlocks(h)) + Cardinality(g[t])
<1> DEFINE rest == UNION {{u} \X h[u] : u \in Callers \ {t}}
           before == {t} \X h[t]
           after == {t} \X g[t]
<1>1. HeldBlocks(h) = rest \cup before /\ rest \cap before = {}
  BY DEF HeldBlocks
<1>2. HeldBlocks(g) = rest \cup after /\ rest \cap after = {}
  BY DEF HeldBlocks
<1>3. IsFiniteSet(before) /\ Cardinality(before) = Cardinality(h[t])
  BY Tagged
<1>4. IsFiniteSet(after) /\ Cardinality(after) = Cardinality(g[t])
  BY Tagged
<1> HIDE DEF rest, before, after
<1>5. IsFiniteSet(rest)
  <2>1. rest \in SUBSET HeldBlocks(h)
    BY <1>1
  <2>2. QED
    BY <2>1, FS_Subset
<1>6. /\ Cardinality(rest) \in Nat /\ Cardinality(before) \in Nat
      /\ Cardinality(HeldBlocks(h)) = Cardinality(rest) + Cardinality(before)
  BY <1>1, <1>3, <1>5, DisjointUnion
<1>7. /\ IsFiniteSet(HeldBlocks(g)) /\ Cardinality(after) \in Nat
      /\ Cardinality(HeldBlocks(g)) = Cardinality(rest) + Cardinality(after)
  BY <1>2, <1>4, <1>5, DisjointUnion
<1>8. /\ Cardinality(HeldBlocks(g)) + Cardinality(before)
           = Cardinality(HeldBlocks(h)) + Cardinality(after)
      /\ Cardinality(HeldBlocks(h)) \in Nat /\ Cardinality(HeldBlocks(g)) \in Nat
  BY <1>6, <1>7
<1>9. QED
  BY <1>3, <1>4, <1>6, <1>7, <1>8

-----------------------------------------------------------------------------
(* The blocks of a call that the counter was told of *)
AllCounted(c) == UNION {{i} \X CountedBlocks(c.kind, c.nodes[i]) : i \in DOMAIN c.nodes}

LEMMA CountedOrNot ==
  ASSUME NEW c
  PROVE  AllCounted(c) = IF Counts(c.kind) THEN AllBlocks(c) ELSE {}
BY DEF AllCounted, AllBlocks, CountedBlocks

LEMMA BlocksFinite ==
  ASSUME NEW node \in NodeSet, NEW kind
  PROVE  /\ IsFiniteSet(CountedBlocks(kind, node)) /\ CountedBlocks(kind, node) \subseteq FieldNames \cup {"node"}
         /\ IsFiniteSet(FieldNames \cup {"node"})
<1>1. IsFiniteSet(FieldNames \cup {"node"})
  BY StringsCounted, FS_AddElement DEF FieldNames
<1>2. DOMAIN node.owned \in SUBSET FieldNames
  BY DEF NodeSet
<1>3. CountedBlocks(kind, node) \in SUBSET (FieldNames \cup {"node"})
  BY <1>2 DEF CountedBlocks, Counts, Blocks
<1>4. QED
  BY <1>1, <1>3, FS_Subset

LEMMA AllCountedFinite ==
  ASSUME NEW c \in Call
  PROVE  IsFiniteSet(AllCounted(c))
<1>1. c.nodes \in Seq(NodeSet) /\ Len(c.nodes) \in Nat /\ DOMAIN c.nodes = 1 .. Len(c.nodes)
  BY LenProperties DEF Call
<1>2. \A i \in 1 .. Len(c.nodes) : c.nodes[i] \in NodeSet
  BY <1>1, ElementOfSeq
<1> DEFINE names == FieldNames \cup {"node"}
           numbers == 1 .. Len(c.nodes)
<1>3. IsFiniteSet(names)
  BY StringsCounted, FS_AddElement DEF FieldNames
<1>4. IsFiniteSet(numbers)
  BY <1>1, FS_Interval
<1>5. \A i \in numbers : CountedBlocks(c.kind, c.nodes[i]) \subseteq names
  BY <1>2, BlocksFinite
<1>6. AllCounted(c) \in SUBSET (numbers \X names)
  BY <1>1, <1>5 DEF AllCounted
<1> HIDE DEF names, numbers
<1>7. IsFiniteSet(numbers \X names)
  BY <1>3, <1>4, FS_Product
<1>8. QED
  BY <1>6, <1>7, FS_Subset

(* The blocks of a call with one node, with none, with one more at the end *)
LEMMA BlocksOfOne ==
  ASSUME NEW c, NEW node \in NodeSet, DOMAIN c.nodes = {1}, c.nodes[1] = node
  PROVE  Cardinality(AllCounted(c)) = Cardinality(CountedBlocks(c.kind, node))
<1>1. AllCounted(c) = {1} \X CountedBlocks(c.kind, node)
  BY DEF AllCounted
<1>2. IsFiniteSet(CountedBlocks(c.kind, node))
  BY BlocksFinite
<1>3. QED
  BY <1>1, <1>2, Tagged

LEMMA BlocksOfNone ==
  ASSUME NEW c, c.nodes = <<>>
  PROVE  AllCounted(c) = {} /\ Cardinality(AllCounted(c)) = 0
<1>1. AllCounted(c) = {}
  BY NoElement DEF AllCounted
<1>2. QED
  BY <1>1, FS_EmptySet

LEMMA BlocksOfMore ==
  ASSUME NEW b \in Call, NEW c, NEW node \in NodeSet, NEW k, k \notin DOMAIN b.nodes,
         DOMAIN c.nodes = DOMAIN b.nodes \cup {k}, c.nodes[k] = node, c.kind = b.kind,
         \A i \in DOMAIN b.nodes : c.nodes[i] = b.nodes[i]
  PROVE  /\ Cardinality(AllCounted(b)) \in Nat /\ Cardinality(CountedBlocks(b.kind, node)) \in Nat
         /\ Cardinality(AllCounted(c))
              = Cardinality(AllCounted(b)) + Cardinality(CountedBlocks(b.kind, node))
<1> DEFINE added == {k} \X CountedBlocks(b.kind, node)
<1>1. AllCounted(c) = AllCounted(b) \cup added
  BY DEF AllCounted
<1>2. AllCounted(b) \cap added = {}
  BY DEF AllCounted
<1>3. IsFiniteSet(added) /\ Cardinality(added) = Cardinality(CountedBlocks(b.kind, node))
  BY BlocksFinite, Tagged
<1> HIDE DEF added
<1>4. /\ Cardinality(AllCounted(b)) \in Nat /\ Cardinality(added) \in Nat
      /\ Cardinality(AllCounted(b) \cup added) = Cardinality(AllCounted(b)) + Cardinality(added)
  BY <1>2, <1>3, AllCountedFinite, DisjointUnion
<1>5. QED
  BY <1>1, <1>3, <1>4

(* The first node is freed, and the others move up. *)
LEMMA BlocksOfTail ==
  ASSUME NEW b \in Call, b.nodes # <<>>, NEW c \in Call, c.nodes = Tail(b.nodes),
         c.kind = b.kind, NEW node, node = Head(b.nodes)
  PROVE  /\ Cardinality(AllCounted(c)) \in Nat /\ Cardinality(CountedBlocks(b.kind, node)) \in Nat
         /\ Cardinality(AllCounted(b))
              = Cardinality(AllCounted(c)) + Cardinality(CountedBlocks(b.kind, node))
<1>1. b.nodes \in Seq(NodeSet)
  BY DEF Call
<1>2. PICK n : n = Len(b.nodes)
  OBVIOUS
<1>3. /\ n \in Nat \ {0} /\ DOMAIN b.nodes = 1 .. n /\ DOMAIN c.nodes = 1 .. n - 1
      /\ \A i \in 1 .. n - 1 : c.nodes[i] = b.nodes[i + 1]
      /\ node = b.nodes[1] /\ node \in NodeSet
  BY <1>1, <1>2, TailOf
<1> DEFINE first == {1} \X CountedBlocks(b.kind, node)
           others == UNION {{i} \X CountedBlocks(b.kind, b.nodes[i]) : i \in 2 .. n}
<1>4. AllCounted(b) = others \cup first /\ others \cap first = {}
  <2>1. 1 .. n = {1} \cup (2 .. n) /\ 1 \notin 2 .. n
    BY <1>3
  <2>2. AllCounted(b) = UNION {{i} \X CountedBlocks(b.kind, b.nodes[i]) : i \in {1} \cup (2 .. n)}
    BY <1>3, <2>1 DEF AllCounted
  <2>3. QED
    BY <1>3, <2>1, <2>2
<1>5. IsFiniteSet(first) /\ Cardinality(first) = Cardinality(CountedBlocks(b.kind, node))
  BY <1>3, BlocksFinite, Tagged
<1>6. IsFiniteSet(others)
  <2>1. others \in SUBSET AllCounted(b)
    BY <1>4
  <2>2. IsFiniteSet(AllCounted(b))
    BY AllCountedFinite
  <2> HIDE DEF others
  <2>3. QED
    BY <2>1, <2>2, FS_Subset
<1>7. Cardinality(AllCounted(c)) = Cardinality(others)
  <2> DEFINE up == [p \in others |-> <<p[1] - 1, p[2]>>]
  <2>1. \A p : p \in others <=> \E i \in 2 .. n : \E x \in CountedBlocks(b.kind, b.nodes[i]) :
                                  p = <<i, x>>
    OBVIOUS
  <2>2. \A p : p \in AllCounted(c) <=>
                 \E i \in 1 .. n - 1 : \E x \in CountedBlocks(b.kind, b.nodes[i + 1]) : p = <<i, x>>
    BY <1>3 DEF AllCounted
  <2>3. up \in [others -> AllCounted(c)]
    <3>1. ASSUME NEW p \in others PROVE up[p] \in AllCounted(c)
      <4>1. PICK i \in 2 .. n : \E x \in CountedBlocks(b.kind, b.nodes[i]) : p = <<i, x>>
        BY <2>1
      <4>2. PICK x \in CountedBlocks(b.kind, b.nodes[i]) : p = <<i, x>>
        BY <4>1
      <4>3. up[p] = <<i - 1, x>> /\ i - 1 \in 1 .. n - 1 /\ (i - 1) + 1 = i
        BY <1>3, <4>2
      <4>4. QED
        BY <2>2, <4>2, <4>3
    <3>2. QED
      BY <3>1
  <2>4. \A p, q \in others : up[p] = up[q] => p = q
    <3>1. ASSUME NEW p \in others, NEW q \in others, up[p] = up[q] PROVE p = q
      <4>1. PICK i \in 2 .. n : \E x \in CountedBlocks(b.kind, b.nodes[i]) : p = <<i, x>>
        BY <2>1
      <4>2. PICK x \in CountedBlocks(b.kind, b.nodes[i]) : p = <<i, x>>
        BY <4>1
      <4>3. PICK j \in 2 .. n : \E y \in CountedBlocks(b.kind, b.nodes[j]) : q = <<j, y>>
        BY <2>1
      <4>4. PICK y \in CountedBlocks(b.kind, b.nodes[j]) : q = <<j, y>>
        BY <4>3
      <4>5. <<i - 1, x>> = <<j - 1, y>>
        BY <3>1, <4>2, <4>4
      <4>6. i = j
        BY <4>5
      <4>7. QED
        BY <4>2, <4>4, <4>5, <4>6
    <3>2. QED
      BY <3>1
  <2>5. ASSUME NEW q \in AllCounted(c) PROVE \E p \in others : up[p] = q
    <3>1. PICK i \in 1 .. n - 1 : \E x \in CountedBlocks(b.kind, b.nodes[i + 1]) : q = <<i, x>>
      BY <2>2
    <3>2. PICK x \in CountedBlocks(b.kind, b.nodes[i + 1]) : q = <<i, x>>
      BY <3>1
    <3>3. i + 1 \in 2 .. n /\ (i + 1) - 1 = i
      BY <1>3
    <3>4. <<i + 1, x>> \in others
      BY <2>1, <3>2, <3>3
    <3>5. up[<<i + 1, x>>] = <<(i + 1) - 1, x>>
      BY <3>4
    <3>6. QED
      BY <3>2, <3>3, <3>4, <3>5
  <2> HIDE DEF up, others
  <2>6. up \in Injection(others, AllCounted(c)) /\ up \in Surjection(others, AllCounted(c))
    BY <2>3, <2>4, <2>5, Fun_IsInj, Fun_IsSurj
  <2>7. QED
    BY <1>6, <2>6, FS_Surjection
<1> HIDE DEF first, others
<1>8. /\ Cardinality(others) \in Nat /\ Cardinality(first) \in Nat
      /\ Cardinality(AllCounted(b)) = Cardinality(others) + Cardinality(first)
  BY <1>4, <1>5, <1>6, DisjointUnion
<1>9. QED
  BY <1>5, <1>7, <1>8

-----------------------------------------------------------------------------
(***************************************************************************)
(* The counter of allocations.                                             *)
(***************************************************************************)
BlocksHeld == HeldBlocks([t \in Callers |-> AllCounted(doing[t])])
CountSound ==
  /\ IsFiniteSet(BlocksHeld) /\ lostHosts \in Nat
  /\ counted = lostHosts + Cardinality(BlocksHeld)

(* The calls of the others keep their nodes. *)
LEMMA OthersKept ==
  ASSUME CallsSound, NEW t \in Callers, NEW c,
         Becomes(t, c) \/ \E kind : Disturbing(t, kind, c)
  PROVE  /\ doing'[t] = c
         /\ \A u \in Callers \ {t} : doing'[u].kind = doing[u].kind
                                       /\ doing'[u].nodes = doing[u].nodes
<1>1. \A u \in Callers : doing[u] \in Call
  BY DEF CallsSound
<1>2. CASE Becomes(t, c)
  BY <1>2 DEF Becomes, CallsSound
<1>3. ASSUME NEW kind, Disturbing(t, kind, c)
      PROVE  /\ doing'[t] = c
             /\ \A u \in Callers \ {t} : doing'[u].kind = doing[u].kind
                                           /\ doing'[u].nodes = doing[u].nodes
  <2>1. doing'[t] = c
    BY <1>3 DEF Disturbing
  <2>2. ASSUME NEW u \in Callers \ {t}
        PROVE  doing'[u].kind = doing[u].kind /\ doing'[u].nodes = doing[u].nodes
    <3>1. PICK d : d = (doing[u].disturbed \/ Collecting(u, kind))
      OBVIOUS
    <3>2. doing'[u] = [doing[u] EXCEPT !.disturbed = d]
      BY <1>3, <3>1 DEF Disturbing
    <3>3. QED
      BY <1>1, <3>2 DEF Call
  <2>3. QED
    BY <2>1, <2>2
<1>4. QED
  BY <1>2, <1>3

(* One call gets or gives up nodes, and is counted by as many blocks more or
   fewer, or drops them. *)
LEMMA Recounted ==
  ASSUME CallsSound, CountSound, CallsSound', NEW t \in Callers,
         \A u \in Callers \ {t} : doing'[u].kind = doing[u].kind
                                    /\ doing'[u].nodes = doing[u].nodes,
         lostHosts' \in Nat, counted' \in Int,
         counted' + lostHosts + Cardinality(AllCounted(doing[t]))
           = counted + lostHosts' + Cardinality(AllCounted(doing'[t]))
  PROVE  CountSound'
<1>1. PICK h, g : /\ h = [u \in Callers |-> AllCounted(doing[u])]
                  /\ g = [u \in Callers |-> AllCounted(doing'[u])]
  OBVIOUS
<1>2. \A u \in Callers \ {t} : g[u] = h[u]
  BY <1>1 DEF AllCounted
<1>3. h[t] = AllCounted(doing[t]) /\ g[t] = AllCounted(doing'[t])
  BY <1>1
<1>4. IsFiniteSet(h[t]) /\ IsFiniteSet(g[t])
  <2>1. doing[t] \in Call /\ doing'[t] \in Call
    BY DEF CallsSound
  <2>2. QED
    BY <1>3, <2>1, AllCountedFinite
<1>5. BlocksHeld = HeldBlocks(h)
  BY <1>1 DEF BlocksHeld
<1>6. BlocksHeld' = HeldBlocks(g)
  BY <1>1 DEF BlocksHeld, HeldBlocks, AllCounted, CountedBlocks, Counts, Blocks
<1>7. /\ IsFiniteSet(HeldBlocks(g))
      /\ Cardinality(HeldBlocks(h)) \in Nat /\ Cardinality(HeldBlocks(g)) \in Nat
      /\ Cardinality(h[t]) \in Nat /\ Cardinality(g[t]) \in Nat
      /\ Cardinality(HeldBlocks(g)) + Cardinality(h[t])
           = Cardinality(HeldBlocks(h)) + Cardinality(g[t])
  <2>1. IsFiniteSet(HeldBlocks(h))
    BY <1>5 DEF CountSound
  <2>2. QED
    BY <1>2, <1>4, <2>1, HoldingChanges
<1>8. counted = lostHosts + Cardinality(HeldBlocks(h)) /\ lostHosts \in Nat
  BY <1>5 DEF CountSound
<1>9. counted' = lostHosts' + Cardinality(HeldBlocks(g))
  BY <1>3, <1>7, <1>8
<1>10. QED
  BY <1>6, <1>7, <1>9 DEF CountSound

(* ... or none of this. *)
LEMMA SameNodes ==
  ASSUME CallsSound, CountSound, CallsSound', NEW t \in Callers, NEW c,
         Becomes(t, c) \/ \E kind : Disturbing(t, kind, c),
         \/ c.kind = doing[t].kind /\ c.nodes = doing[t].nodes
         \/ c.nodes = <<>> /\ doing[t].nodes = <<>>,
         UNCHANGED <<counted, lostHosts>>
  PROVE  CountSound'
<1>1. /\ doing'[t] = c
      /\ \A u \in Callers \ {t} : doing'[u].kind = doing[u].kind
                                    /\ doing'[u].nodes = doing[u].nodes
  BY OthersKept
<1>2. AllCounted(doing[t]) = AllCounted(doing'[t])
  <2>1. CASE c.kind = doing[t].kind /\ c.nodes = doing[t].nodes
    BY <1>1, <2>1 DEF AllCounted
  <2>2. CASE c.nodes = <<>> /\ doing[t].nodes = <<>>
    BY <1>1, <2>2, BlocksOfNone
  <2>3. QED
    BY <2>1, <2>2
<1>3. counted \in Int /\ lostHosts \in Nat
  <2>1. Cardinality(BlocksHeld) \in Nat
    BY FS_CardinalityType DEF CountSound
  <2>2. QED
    BY <2>1 DEF CountSound
<1>4. QED
  <2>1. PICK n : n = Cardinality(AllCounted(doing[t]))
    OBVIOUS
  <2>2. doing[t] \in Call
    BY DEF CallsSound
  <2>3. n \in Nat
    BY <2>1, <2>2, AllCountedFinite, FS_CardinalityType
  <2>4. counted' + lostHosts + n = counted + lostHosts' + n
    BY <1>3, <2>3
  <2>5. QED
    BY <1>1, <1>2, <1>3, <2>1, <2>4, Recounted

LEMMA Counters ==
  ASSUME CallsSound, CountSound, NEW t \in Callers
  PROVE  /\ counted \in Int /\ lostHosts \in Nat /\ doing[t] \in Call
         /\ Cardinality(AllCounted(doing[t])) \in Nat
         /\ doing[t].phase = "idle" => Cardinality(AllCounted(doing[t])) = 0
<1>1. Cardinality(BlocksHeld) \in Nat
  BY FS_CardinalityType DEF CountSound
<1>2. doing[t] \in Call /\ (doing[t].phase = "idle" => doing[t].nodes = <<>>)
  BY DEF CallsSound, CallSound
<1>3. Cardinality(AllCounted(doing[t])) \in Nat
  BY <1>2, AllCountedFinite, FS_CardinalityType
<1>4. QED
  BY <1>1, <1>2, <1>3, BlocksOfNone DEF CountSound

(* A node is added to a list. *)
LEMMA AddNodeCounted ==
  ASSUME CallsSound, CountSound, CallsSound', NEW t \in Callers, NEW kind \in Lists,
         NEW entry \in Values, NEW names \in SUBSET FieldNames,
         AddNode(t, kind, entry, names)
  PROVE  CountSound'
<1>1. PICK owned, node, b, c :
        /\ owned \in Duplicates(names, entry)
        /\ node = Node(entry, owned) /\ b = doing[t]
        /\ c = [b EXCEPT !.nodes = Append(@, node), !.todo = Tail(@)]
        /\ Becomes(t, c) /\ counted' = counted + Cardinality(CountedBlocks(kind, node))
  BY DEF AddNode
<1>2. node \in NodeSet
  BY <1>1, NodeFields
<1>3. b \in Call /\ b.kind = kind /\ lostHosts' = lostHosts
  BY <1>1 DEF CallsSound, AddNode, Collecting
<1>4. c.kind = b.kind /\ c.nodes = Append(b.nodes, node) /\ b.nodes \in Seq(NodeSet)
  BY <1>1, <1>3 DEF Call
<1>5. PICK k : k = Len(b.nodes) + 1
  OBVIOUS
<1>6. /\ c.nodes[k] = node /\ k \notin DOMAIN b.nodes
      /\ DOMAIN c.nodes = DOMAIN b.nodes \cup {k}
      /\ \A i \in DOMAIN b.nodes : c.nodes[i] = b.nodes[i]
  BY <1>2, <1>4, <1>5, Appended
<1>7. /\ Cardinality(AllCounted(b)) \in Nat /\ Cardinality(CountedBlocks(b.kind, node)) \in Nat
      /\ Cardinality(AllCounted(c))
           = Cardinality(AllCounted(b)) + Cardinality(CountedBlocks(b.kind, node))
  BY <1>2, <1>3, <1>4, <1>6, BlocksOfMore
<1>8. /\ doing'[t] = c
      /\ \A u \in Callers \ {t} : doing'[u].kind = doing[u].kind
                                    /\ doing'[u].nodes = doing[u].nodes
  BY <1>1, OthersKept
<1>9. counted \in Int /\ lostHosts \in Nat
  BY Counters
<1>10. counted' + lostHosts + Cardinality(AllCounted(doing[t]))
         = counted + lostHosts' + Cardinality(AllCounted(doing'[t]))
  BY <1>1, <1>3, <1>7, <1>8, <1>9
<1>11. counted' \in Int /\ lostHosts' \in Nat
  BY <1>1, <1>3, <1>7, <1>9
<1>12. QED
  BY <1>8, <1>10, <1>11, Recounted

(* All nodes are given up: freed, or dropped and counted as lost. *)
LEMMA OutOfMemoryCounted ==
  ASSUME CallsSound, CountSound, CallsSound', NEW t \in Callers,
         HostsOutOfMemory(t) \/ GroupsOutOfMemory(t)
  PROVE  CountSound'
<1>1. PICK b, c, n : /\ b = doing[t] /\ n = Cardinality(AllCounted(b))
                     /\ c = [b EXCEPT !.phase = "idle", !.nodes = <<>>, !.short = TRUE]
  OBVIOUS
<1>2. counted \in Int /\ lostHosts \in Nat /\ n \in Nat /\ b \in Call
  BY <1>1, Counters
<1>3. c.nodes = <<>>
  BY <1>1, <1>2 DEF Call
<1>4. Cardinality(AllCounted(c)) = 0
  BY <1>3, BlocksOfNone
<1>5. /\ Becomes(t, c) \/ Disturbing(t, "groups", c)
      /\ \/ counted' = counted /\ lostHosts' = lostHosts + n
         \/ counted' = counted - n /\ lostHosts' = lostHosts
  <2>1. AllCounted(b) = AllBlocks(b)
    BY <1>1, CountedOrNot DEF HostsOutOfMemory, GroupsOutOfMemory, Collecting, Counts
  <2>2. QED
    BY <1>1, <2>1 DEF HostsOutOfMemory, GroupsOutOfMemory
<1>6. /\ doing'[t] = c
      /\ \A u \in Callers \ {t} : doing'[u].kind = doing[u].kind
                                    /\ doing'[u].nodes = doing[u].nodes
  BY <1>5, OthersKept
<1>7. /\ counted' \in Int /\ lostHosts' \in Nat
      /\ counted' + lostHosts + Cardinality(AllCounted(doing[t]))
           = counted + lostHosts' + Cardinality(AllCounted(doing'[t]))
  BY <1>1, <1>2, <1>4, <1>5, <1>6
<1>8. QED
  BY <1>6, <1>7, Recounted

LEMMA LookUpCounted ==
  ASSUME CallsSound, CountSound, CallsSound', NEW t \in Callers, LookUp(t)
  PROVE  CountSound'
<1>1. PICK u, memory, c, d, node :
        /\ u \in People /\ memory \in BOOLEAN
        /\ node = Node(u, <<>>)
        /\ c = [NoCall EXCEPT !.kind = IF windows THEN "winuser" ELSE "user",
                              !.who = u, !.short = ~memory]
        /\ d = IF memory THEN [c EXCEPT !.phase = "collect", !.nodes = <<node>>] ELSE c
        /\ Disturbing(t, "user", d)
        /\ counted' = IF memory THEN counted + 1 ELSE counted
  BY DEF LookUp
<1>2. doing[t].phase = "idle" /\ lostHosts' = lostHosts
  BY DEF LookUp, Begins
<1>3. counted \in Int /\ lostHosts \in Nat /\ Cardinality(AllCounted(doing[t])) = 0
  BY <1>2, Counters
<1>4. node \in NodeSet /\ DOMAIN node.owned = {}
  BY <1>1, RecordOf
<1>5. /\ doing'[t] = d
      /\ \A v \in Callers \ {t} : doing'[v].kind = doing[v].kind
                                    /\ doing'[v].nodes = doing[v].nodes
  BY <1>1, OthersKept
<1>6. c \in Call /\ c.nodes = <<>> /\ c.kind \in {"user", "winuser"}
  BY <1>1, NoCallFields DEF Call
<1>7. CASE memory
  <2>1. d.nodes = <<node>> /\ d.kind = c.kind
    BY <1>1, <1>6, <1>7 DEF Call
  <2>2. DOMAIN d.nodes = {1} /\ d.nodes[1] = node
    BY <1>4, <2>1, OneElement
  <2>3. CountedBlocks(d.kind, node) = {"node"}
    BY <1>4, <1>6, <2>1 DEF CountedBlocks, Counts, Blocks
  <2>4. Cardinality(AllCounted(d)) = 1
    <3>1. Cardinality(AllCounted(d)) = Cardinality(CountedBlocks(d.kind, node))
      BY <1>4, <2>2, BlocksOfOne
    <3>2. Cardinality({"node"}) = 1
      BY FS_Singleton
    <3>3. QED
      BY <2>3, <3>1, <3>2
  <2>5. /\ counted' \in Int /\ lostHosts' \in Nat
        /\ counted' + lostHosts + Cardinality(AllCounted(doing[t]))
             = counted + lostHosts' + Cardinality(AllCounted(doing'[t]))
    BY <1>1, <1>2, <1>3, <1>5, <1>7, <2>4
  <2>6. QED
    BY <1>5, <2>5, Recounted
<1>8. CASE ~ memory
  <2>1. d.nodes = <<>>
    BY <1>1, <1>6, <1>8
  <2>2. doing[t].nodes = <<>> /\ counted' = counted
    BY <1>1, <1>2, <1>8 DEF CallsSound, CallSound
  <2>3. QED
    BY <1>1, <1>2, <2>1, <2>2, SameNodes
<1>9. QED
  BY <1>7, <1>8

(* The blocks of a record with one more string *)
LEMMA OneMoreString ==
  ASSUME NEW node \in NodeSet, NEW new \in NodeSet, NEW field \in Strings,
         field \notin DOMAIN node.owned, DOMAIN new.owned = DOMAIN node.owned \cup {field}
  PROVE  Cardinality(CountedBlocks("user", new)) = Cardinality(CountedBlocks("user", node)) + 1
<1>1. CountedBlocks("user", new) = CountedBlocks("user", node) \cup {field}
  BY DEF CountedBlocks, Counts, Blocks
<1>2. field \notin CountedBlocks("user", node)
  BY DEF CountedBlocks, Counts, Blocks, Strings
<1>3. IsFiniteSet(CountedBlocks("user", node))
  BY BlocksFinite
<1>4. QED
  BY <1>1, <1>2, <1>3, FS_AddElement

LEMMA DuplicateCounted ==
  ASSUME CallsSound, CountSound, CallsSound', NEW t \in Callers, Duplicate(t)
  PROVE  CountSound'
<1>1. PICK b : b = doing[t]
  OBVIOUS
<1>2. /\ b \in Call /\ UserSound(b) /\ b.kind = "user" /\ b.phase = "collect"
      /\ Len(b.todo) < Cardinality(Strings)
      /\ lostHosts' = lostHosts /\ person \in People \cup {NoUser}
  BY <1>1 DEF CallsSound, CallSound, Duplicate, Collecting
<1>3. PICK n, field : /\ n = Len(b.todo)
                      /\ field = <<"username", "realname", "home_dir", "shell">>[n + 1]
  OBVIOUS
<1>4. n \in Nat /\ n < 4 /\ b.todo \in Seq(Todo)
  BY <1>2, <1>3, StringsCounted, LenProperties DEF Call
<1>5. /\ field \in Strings
      /\ field = "username" => n = 0
      /\ field = "realname" => n = 1
      /\ field = "home_dir" => n = 2
      /\ field = "shell" => n = 3
  BY <1>3, <1>4, NextField
<1>6. Len(b.nodes) = 1
  BY <1>2 DEF UserSound
<1>7. PICK node : node = b.nodes[1]
  OBVIOUS
<1>8. node \in NodeSet /\ DOMAIN b.nodes = {1}
  BY <1>2, <1>6, <1>7, OneNode
<1>9. field \notin DOMAIN node.owned
  BY <1>2, <1>3, <1>4, <1>5, <1>7 DEF UserSound, Strings
<1>10. PICK more, new :
         /\ more = [f \in DOMAIN node.owned \cup {field} |->
                      IF f = field THEN person ELSE node.owned[f]]
         /\ new = Node(node.entry, more)
  OBVIOUS
<1>11. person \in Values
  BY <1>2 DEF Values
<1>12. new \in NodeSet /\ DOMAIN new.owned = DOMAIN node.owned \cup {field}
  BY <1>5, <1>8, <1>10, <1>11, MoreOwned
<1>m. PICK memory \in BOOLEAN :
         \E c : /\ c = [b EXCEPT !.todo = Append(@, field),
                                 !.nodes = IF memory THEN <<new>> ELSE @]
                /\ Becomes(t, c)
                /\ counted' = counted + (IF memory THEN 1 ELSE 0)
  <2>1. PICK memory \in BOOLEAN :
          /\ Becomes(t, [b EXCEPT !.todo = Append(@, field),
                                  !.nodes = IF memory THEN <<Node(@[1].entry, more)>> ELSE @])
          /\ counted' = counted + (IF memory THEN 1 ELSE 0)
    BY <1>1, <1>3, <1>7, <1>10 DEF Duplicate
  <2>2. PICK c : c = [b EXCEPT !.todo = Append(@, field),
                               !.nodes = IF memory THEN <<new>> ELSE @]
    OBVIOUS
  <2>3. Becomes(t, c)
    BY <1>7, <1>10, <2>1, <2>2
  <2>4. QED
    BY <2>1, <2>2, <2>3
<1>13. PICK c :
         /\ c = [b EXCEPT !.todo = Append(@, field),
                          !.nodes = IF memory THEN <<new>> ELSE @]
         /\ Becomes(t, c)
         /\ counted' = counted + (IF memory THEN 1 ELSE 0)
  BY <1>m
<1>14. counted \in Int /\ lostHosts \in Nat /\ Cardinality(AllCounted(b)) \in Nat
  BY <1>1, Counters
<1>15. /\ doing'[t] = c
       /\ \A u \in Callers \ {t} : doing'[u].kind = doing[u].kind
                                     /\ doing'[u].nodes = doing[u].nodes
  BY <1>13, OthersKept
<1>16. CASE memory
  <2>1. c.nodes = <<new>> /\ c.kind = b.kind
    BY <1>2, <1>13, <1>16 DEF Call
  <2>2. DOMAIN c.nodes = {1} /\ c.nodes[1] = new
    BY <1>12, <2>1, OneElement
  <2>3. /\ Cardinality(AllCounted(b)) = Cardinality(CountedBlocks("user", node))
        /\ Cardinality(AllCounted(c)) = Cardinality(CountedBlocks("user", new))
    BY <1>2, <1>7, <1>8, <1>12, <2>1, <2>2, BlocksOfOne
  <2>4. Cardinality(AllCounted(c)) = Cardinality(AllCounted(b)) + 1
    BY <1>5, <1>8, <1>9, <1>12, <2>3, OneMoreString
  <2>5. /\ counted' \in Int /\ lostHosts' \in Nat
        /\ counted' + lostHosts + Cardinality(AllCounted(doing[t]))
             = counted + lostHosts' + Cardinality(AllCounted(doing'[t]))
    <3>1. counted' = counted + 1 /\ lostHosts' = lostHosts
      BY <1>2, <1>13, <1>16
    <3>2. doing[t] = b /\ doing'[t] = c
      BY <1>1, <1>15
    <3>3. QED
      BY <1>14, <2>4, <3>1, <3>2
  <2>6. QED
    BY <1>15, <2>5, Recounted
<1>17. CASE ~ memory
  <2>1. c.nodes = b.nodes /\ c.kind = b.kind
    BY <1>2, <1>13, <1>17 DEF Call
  <2>2. counted' = counted
    BY <1>13, <1>14, <1>17
  <2>3. QED
    BY <1>1, <1>2, <1>13, <2>1, <2>2, SameNodes
<1>18. QED
  BY <1>16, <1>17

LEMMA FillWindowsUserCounted ==
  ASSUME CallsSound, CountSound, CallsSound', NEW t \in Callers, FillWindowsUser(t)
  PROVE  CountSound'
<1>1. PICK b : b = doing[t]
  OBVIOUS
<1>2. /\ b \in Call /\ UserSound(b) /\ b.kind = "winuser" /\ b.phase = "collect"
      /\ lostHosts' = lostHosts
  BY <1>1 DEF CallsSound, CallSound, FillWindowsUser, Collecting
<1>3. PICK kept, full, home, owned, c :
        /\ kept \in SUBSET Strings /\ full \in {Me, NoUser} /\ home \in {Me, NoUser}
        /\ owned = [f \in kept |-> CASE f = "username" -> b.who
                                     [] f = "realname" -> full
                                     [] f = "home_dir" -> home
                                     [] OTHER -> NoUser]
        /\ c = [b EXCEPT !.phase = "copy", !.nodes = <<Node(@[1].entry, owned)>>]
        /\ Becomes(t, c) /\ counted' = counted + Cardinality(kept)
  BY <1>1 DEF FillWindowsUser
<1>4. /\ Len(b.nodes) = 1 /\ DOMAIN b.nodes[1].owned = {}
  BY <1>2 DEF UserSound
<1>5. b.nodes[1] \in NodeSet /\ DOMAIN b.nodes = {1}
  BY <1>2, <1>4, OneNode
<1>6. PICK new : new = Node(b.nodes[1].entry, owned)
  OBVIOUS
<1>7. DOMAIN new.owned = kept
  BY <1>3, <1>6 DEF Node
<1>8. /\ doing'[t] = c
      /\ \A u \in Callers \ {t} : doing'[u].kind = doing[u].kind
                                    /\ doing'[u].nodes = doing[u].nodes
  BY <1>3, OthersKept
<1>9. c \in Call /\ c.kind = "winuser" /\ c.nodes = <<new>>
  <2>1. c \in Call
    BY <1>8 DEF CallsSound
  <2>2. QED
    BY <1>2, <1>3, <1>6, <2>1 DEF Call
<1>10. c.nodes[1] = new /\ DOMAIN c.nodes = {1} /\ new \in NodeSet
  <2>1. Len(c.nodes) = 1 /\ c.nodes[1] = new
    BY <1>9
  <2>2. QED
    BY <1>9, <2>1, OneNode
<1>11. CountedBlocks("winuser", b.nodes[1]) = {"node"} /\ CountedBlocks("winuser", new) = {"node"} \cup kept
  BY <1>4, <1>7 DEF CountedBlocks, Counts, Blocks
<1>12. /\ IsFiniteSet(kept) /\ Cardinality({"node"}) = 1 /\ IsFiniteSet({"node"})
       /\ {"node"} \cap kept = {}
  BY <1>3, StringsCounted, FS_Subset, FS_Singleton DEF Strings
<1>13. /\ Cardinality(kept) \in Nat
       /\ Cardinality({"node"} \cup kept) = 1 + Cardinality(kept)
  BY <1>12, DisjointUnion
<1>14. /\ Cardinality(AllCounted(b)) = Cardinality(CountedBlocks("winuser", b.nodes[1]))
       /\ Cardinality(AllCounted(c)) = Cardinality(CountedBlocks("winuser", new))
  BY <1>2, <1>5, <1>9, <1>10, BlocksOfOne
<1>15. counted \in Int /\ lostHosts \in Nat
  BY Counters
<1>16. /\ counted' \in Int /\ lostHosts' \in Nat
       /\ counted' + lostHosts + Cardinality(AllCounted(doing[t]))
            = counted + lostHosts' + Cardinality(AllCounted(doing'[t]))
  <2>1. /\ Cardinality(AllCounted(doing[t])) = 1
        /\ Cardinality(AllCounted(doing'[t])) = 1 + Cardinality(kept)
    BY <1>1, <1>8, <1>11, <1>12, <1>13, <1>14
  <2>2. counted' = counted + Cardinality(kept)
    BY <1>3
  <2>3. QED
    BY <1>2, <1>13, <1>15, <2>1, <2>2
<1>17. QED
  BY <1>8, <1>16, Recounted

LEMMA FreeCounted ==
  ASSUME CallsSound, CountSound, CallsSound', NEW t \in Callers, Free(t)
  PROVE  CountSound'
<1>1. PICK b : b = doing[t]
  OBVIOUS
<1>2. b \in Call /\ b.nodes \in Seq(NodeSet) /\ lostHosts' = lostHosts
  BY <1>1 DEF CallsSound, Free, Call
<1>3. CASE b.nodes = <<>>
  <2>1. PICK c : c = [b EXCEPT !.phase = "idle"]
    OBVIOUS
  <2>2. Becomes(t, c) /\ counted' = counted /\ c.nodes = <<>>
    BY <1>1, <1>2, <1>3, <2>1 DEF Free, Call
  <2>3. QED
    BY <1>1, <1>2, <1>3, <2>2, SameNodes
<1>4. CASE b.nodes # <<>>
  <2>1. PICK c, node : c = [b EXCEPT !.nodes = Tail(@)] /\ node = Head(b.nodes)
    OBVIOUS
  <2>2. Becomes(t, c) /\ counted' = counted - Cardinality(CountedBlocks(b.kind, node))
    BY <1>1, <1>4, <2>1 DEF Free
  <2>3. /\ doing'[t] = c
        /\ \A u \in Callers \ {t} : doing'[u].kind = doing[u].kind
                                      /\ doing'[u].nodes = doing[u].nodes
    BY <2>2, OthersKept
  <2>4. c \in Call /\ c.kind = b.kind /\ c.nodes = Tail(b.nodes)
    <3>1. c \in Call
      BY <2>3 DEF CallsSound
    <3>2. QED
      BY <1>2, <2>1, <3>1 DEF Call
  <2>5. /\ Cardinality(AllCounted(c)) \in Nat /\ Cardinality(CountedBlocks(b.kind, node)) \in Nat
        /\ Cardinality(AllCounted(b))
             = Cardinality(AllCounted(c)) + Cardinality(CountedBlocks(b.kind, node))
    BY <1>2, <1>4, <2>1, <2>4, BlocksOfTail
  <2>6. counted \in Int /\ lostHosts \in Nat
    BY Counters
  <2>7. /\ counted' \in Int /\ lostHosts' \in Nat
        /\ counted' + lostHosts + Cardinality(AllCounted(doing[t]))
             = counted + lostHosts' + Cardinality(AllCounted(doing'[t]))
    BY <1>1, <1>2, <2>2, <2>3, <2>5, <2>6
  <2>8. QED
    BY <2>3, <2>7, Recounted
<1>5. QED
  BY <1>3, <1>4

(* The other steps count nothing. *)
LEMMA NothingCounted ==
  ASSUME CallsSound, CountSound, CallsSound', NEW t \in Callers,
         \/ ListGroups(t) \/ NextGroup(t) \/ Filled(t) \/ Copy(t)
         \/ \E kind \in Lists : List(t, kind) \/ Collected(t, kind) \/ ListOutOfMemory(t, kind)
  PROVE  CountSound'
<1>1. PICK b : b = doing[t]
  OBVIOUS
<1>2. b \in Call /\ (b.phase = "idle" => b.nodes = <<>>)
  BY <1>1 DEF CallsSound, CallSound
<1>3. CASE ListGroups(t) \/ \E kind \in Lists : List(t, kind)
  <2>1. PICK c : /\ Becomes(t, c) \/ \E kind : Disturbing(t, kind, c)
                 /\ c.nodes = <<>>
    <3>1. CASE ListGroups(t)
      <4>1. PICK c : /\ c = [NoCall EXCEPT !.kind = "groups", !.phase = "collect"]
                     /\ Disturbing(t, "groups", c)
        BY <3>1 DEF ListGroups
      <4>2. c.nodes = <<>>
        BY <4>1 DEF NoCall
      <4>3. \E kind : Disturbing(t, kind, c)
        BY <4>1
      <4>4. QED
        BY <4>2, <4>3
    <3>2. CASE \E kind \in Lists : List(t, kind)
      <4>1. PICK kind, phase, c :
              /\ kind \in Lists
              /\ c = [NoCall EXCEPT !.kind = kind, !.phase = phase, !.todo = All,
                                    !.short = (phase = "idle")]
              /\ Becomes(t, c)
        BY <3>2 DEF List
      <4>2. c.nodes = <<>>
        BY <4>1 DEF NoCall
      <4>3. QED
        BY <4>1, <4>2
    <3>3. QED
      BY <1>3, <3>1, <3>2
  <2>3. b.phase = "idle" /\ UNCHANGED <<counted, lostHosts>>
    BY <1>1, <1>3 DEF List, ListGroups, Begins
  <2>4. QED
    BY <1>1, <1>2, <2>1, <2>3, SameNodes
<1>4. CASE \/ NextGroup(t) \/ Filled(t) \/ Copy(t)
           \/ \E kind \in Lists : Collected(t, kind) \/ ListOutOfMemory(t, kind)
  <2>1. UNCHANGED <<counted, lostHosts>>
    BY <1>4 DEF NextGroup, Filled, Copy, Collected, ListOutOfMemory
  <2>2. PICK c : /\ Becomes(t, c) \/ \E kind : Disturbing(t, kind, c)
                 /\ \/ c = [b EXCEPT !.todo = <<"a group">>]
                    \/ c = [b EXCEPT !.phase = "copy"]
                    \/ c = [b EXCEPT !.phase = "free", !.got = b.nodes]
                    \/ c = [b EXCEPT !.phase = "copy", !.short = TRUE]
    BY <1>1, <1>4 DEF NextGroup, Filled, Copy, Collected, ListOutOfMemory
  <2>3. c.kind = b.kind /\ c.nodes = b.nodes
    BY <1>2, <2>2 DEF Call
  <2>4. QED
    BY <1>1, <2>1, <2>2, <2>3, SameNodes
<1>5. QED
  BY <1>3, <1>4

LEMMA CountSoundInit == ListsInit => CountSound
<1> SUFFICES ASSUME ListsInit PROVE CountSound
  OBVIOUS
<1>1. \A t \in Callers : AllCounted(doing[t]) = {}
  BY NoCallFields, BlocksOfNone DEF ListsInit
<1>2. BlocksHeld = {}
  BY <1>1 DEF BlocksHeld, HeldBlocks
<1>3. QED
  BY <1>2, FS_EmptySet DEF ListsInit, CountSound

LEMMA CountSoundStep ==
  CallsSound /\ CountSound /\ CallsSound' /\ [ListsNext]_listsVars => CountSound'
<1> SUFFICES ASSUME CallsSound, CountSound, CallsSound', [ListsNext]_listsVars
             PROVE  CountSound'
  OBVIOUS
<1>1. CASE UNCHANGED listsVars
  BY <1>1 DEF listsVars, CountSound, BlocksHeld, HeldBlocks, AllCounted, CountedBlocks, Counts, Blocks
<1>2. ASSUME NEW t \in Callers, NEW kind \in Lists, Private(t, kind) PROVE CountSound'
  <2>1. CASE List(t, kind) \/ Collected(t, kind)
    BY <2>1, NothingCounted
  <2>2. CASE doing[t].todo # <<>> /\ AddNode(t, kind, Head(doing[t].todo), {})
    <3>1. doing[t].todo \in Seq(Todo)
      BY DEF CallsSound, Call
    <3>2. Head(doing[t].todo) \in Values
      BY <2>2, <3>1, TailOf DEF Values
    <3>3. {} \in SUBSET FieldNames
      OBVIOUS
    <3>4. QED
      BY <2>2, <3>2, <3>3, AddNodeCounted
  <2>3. QED
    BY <1>2, <2>1, <2>2 DEF Private
<1>3. \A t \in Callers : HostInfo(t) => CountSound'
  BY <1>2, OutOfMemoryCounted DEF HostInfo, Lists
<1>4. \A t \in Callers : Interfaces(t) \/ ProcessList(t) => CountSound'
  BY <1>2, NothingCounted DEF Interfaces, ProcessList, Lists
<1>5. ASSUME NEW t \in Callers, Groups(t) PROVE CountSound'
  <2>1. "groups" \in Lists /\ {"name"} \in SUBSET FieldNames
    BY DEF Lists, FieldNames
  <2>2. group \in Values
    <3>1. group \in Nat
      BY ListsAssumption DEF CallsSound
    <3>2. QED
      BY <3>1 DEF Values, Todo
  <2>3. AddNode(t, "groups", group, {"name"}) => CountSound'
    BY <2>1, <2>2, AddNodeCounted
  <2>4. QED
    BY <1>5, <2>1, <2>3, OutOfMemoryCounted, NothingCounted DEF Groups
<1>6. \A t \in Callers : User(t) => CountSound'
  BY LookUpCounted, DuplicateCounted, FillWindowsUserCounted, NothingCounted DEF User
<1>7. \A t \in Callers : Copy(t) \/ Free(t) => CountSound'
  BY FreeCounted, NothingCounted
<1>8. QED
  BY <1>1, <1>3, <1>4, <1>5, <1>6, <1>7 DEF ListsNext

(* getActiveAllocations() is what the calls under way hold, those that list
   processes left aside, and what a getHostInfo without memory has dropped. *)
THEOREM ListAllocationsCounted == ListsSpec => []ListsCounted
<1>1. CountSound => ListsCounted
  <2> DEFINE tracked == {t \in Callers : Counts(doing[t].kind)}
             blocks == UNION {{t} \X AllBlocks(doing[t]) : t \in tracked}
  <2>1. BlocksHeld = UNION {{t} \X AllCounted(doing[t]) : t \in Callers}
    BY DEF BlocksHeld, HeldBlocks
  <2>2. \A t \in Callers : AllCounted(doing[t]) =
                           IF t \in tracked THEN AllBlocks(doing[t]) ELSE {}
    BY CountedOrNot
  <2> HIDE DEF tracked
  <2>3. tracked \subseteq Callers
    BY DEF tracked
  <2>4. BlocksHeld = blocks
    BY <2>1, <2>2, <2>3
  <2>5. QED
    BY <2>4 DEF CountSound, ListsCounted, tracked
<1>2. CallsSound /\ CountSound /\ [ListsNext]_listsVars => CallsSound' /\ CountSound'
  BY CallsSoundStep, CountSoundStep
<1>3. QED
  BY <1>1, <1>2, CallsSoundInit, CountSoundInit, PTL DEF ListsSpec

=============================================================================
