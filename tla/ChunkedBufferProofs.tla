------------------------- MODULE ChunkedBufferProofs --------------------------
(***************************************************************************)
(* For any chunk size, any number of chunks, any inputs and lengths: the   *)
(* list is never torn, and it is a byte queue.  What the code finds by     *)
(* walking the links is shown to exist and to be what is listed by         *)
(* induction along the links; the steps are then shown for lists that are  *)
(* given as sequences.                                                     *)
(***************************************************************************)
EXTENDS ChunkedBuffer, FiniteSetTheorems, SequenceTheorems,
        WellFoundedInduction, TLAPS

-----------------------------------------------------------------------------
(***************************************************************************)
(* What is defined by recursion along the list.                            *)
(***************************************************************************)
NatLess == {p \in Nat \X Nat : p[1] < p[2]}

LEMMA NatLessWellFounded == IsWellFoundedOn(NatLess, Nat)
BY NatLessThanWellFounded DEF OpToRel, NatLess

(* Induction, over a set of numbers *)
LEMMA SetInduction ==
  ASSUME NEW S, 0 \in S, \A n \in Nat : n \in S => n + 1 \in S
  PROVE  Nat \subseteq S
<1>1. SUFFICES ASSUME Nat \ S # {} PROVE FALSE
  OBVIOUS
<1>2. PICK x \in Nat \ S : \A y \in Nat \ S : <<y, x>> \notin NatLess
  <2>. HIDE DEF NatLess
  <2>1. QED
    BY <1>1, NatLessWellFounded, WFMin
<1>3. x # 0 /\ x - 1 \in Nat /\ (x - 1) + 1 = x
  OBVIOUS
<1>4. <<x - 1, x>> \in NatLess
  BY <1>3 DEF NatLess
<1>5. QED
  BY <1>2, <1>3, <1>4

(* A step can be taken n times, for every n. *)
Beginnings(F, z, step, n) ==
  {g \in [0 .. n -> F] : g[0] = z /\ \A i \in 0 .. n - 1 : g[i + 1] = step[g[i]]}

Iterated(F, z, step) ==
  \E it \in [Nat -> F] : it[0] = z /\ \A n \in Nat : it[n + 1] = step[it[n]]

LEMMA Iteration ==
  ASSUME NEW F, NEW z \in F, NEW step \in [F -> F]
  PROVE  Iterated(F, z, step)
<1> DEFINE G(n) == Beginnings(F, z, step, n)
<1>1. \A n \in Nat : G(n) # {}
  <2> DEFINE S == {n \in Nat : G(n) # {}}
  <2>1. 0 \in S
    <3>1. [i \in 0 .. 0 |-> z] \in G(0)
      BY DEF Beginnings
    <3>2. QED
      BY <3>1
  <2>2. ASSUME NEW n \in Nat, n \in S PROVE n + 1 \in S
    <3>1. PICK g \in [0 .. n -> F] : g[0] = z /\ \A i \in 0 .. n - 1 : g[i + 1] = step[g[i]]
      BY <2>2 DEF Beginnings
    <3>2. PICK h : h = [i \in 0 .. n + 1 |-> IF i = n + 1 THEN step[g[n]] ELSE g[i]]
      OBVIOUS
    <3>3. h \in [0 .. n + 1 -> F] /\ h[0] = z
      BY <3>1, <3>2
    <3>4. ASSUME NEW i \in 0 .. (n + 1) - 1 PROVE h[i + 1] = step[h[i]]
      <4>1. CASE i = n
        BY <3>2, <4>1
      <4>2. CASE i # n
        <5>1. i \in 0 .. n - 1 /\ i + 1 \in 0 .. n
          BY <4>2
        <5>2. QED
          BY <3>1, <3>2, <5>1
      <4>3. QED
        BY <4>1, <4>2
    <3>5. h \in G(n + 1)
      BY <3>3, <3>4 DEF Beginnings
    <3>6. QED
      BY <3>5
  <2> HIDE DEF S
  <2>3. Nat \subseteq S
    BY <2>1, <2>2, SetInduction
  <2>4. QED
    BY <2>3 DEF S
<1>2. ASSUME NEW i \in Nat, NEW m \in Nat, NEW n \in Nat, i <= m, i <= n,
             NEW g \in G(m), NEW h \in G(n)
      PROVE  g[i] = h[i]
  <2> DEFINE S == {j \in Nat : j <= m /\ j <= n => g[j] = h[j]}
  <2>1. /\ g[0] = z /\ \A j \in 0 .. m - 1 : g[j + 1] = step[g[j]]
        /\ h[0] = z /\ \A j \in 0 .. n - 1 : h[j + 1] = step[h[j]]
    BY DEF Beginnings
  <2>2. 0 \in S
    BY <2>1
  <2>3. ASSUME NEW j \in Nat, j \in S PROVE j + 1 \in S
    <3>1. SUFFICES ASSUME j + 1 <= m, j + 1 <= n PROVE g[j + 1] = h[j + 1]
      OBVIOUS
    <3>2. j <= m /\ j <= n /\ j \in 0 .. m - 1 /\ j \in 0 .. n - 1
      BY <3>1
    <3>3. QED
      BY <2>1, <2>3, <3>2
  <2> HIDE DEF S
  <2>4. Nat \subseteq S
    BY <2>2, <2>3, SetInduction
  <2>5. QED
    BY <1>2, <2>4 DEF S
<1>3. PICK it : it = [n \in Nat |-> (CHOOSE g \in G(n) : TRUE)[n]]
  OBVIOUS
<1>4. \A n \in Nat : \E g \in G(n) : it[n] = g[n]
  BY <1>1, <1>3
<1>5. it \in [Nat -> F] /\ it[0] = z
  <2>1. \A n \in Nat : it[n] \in F
    BY <1>4 DEF Beginnings
  <2>2. it[0] = z
    BY <1>4 DEF Beginnings
  <2>3. QED
    BY <1>3, <2>1, <2>2
<1>6. ASSUME NEW n \in Nat PROVE it[n + 1] = step[it[n]]
  <2>1. PICK g \in G(n), h \in G(n + 1) : it[n] = g[n] /\ it[n + 1] = h[n + 1]
    BY <1>4
  <2>2. g[n] = h[n]
    <3>1. n <= n /\ n <= n + 1 /\ n + 1 \in Nat
      OBVIOUS
    <3>2. QED
      BY <1>2, <3>1
  <2>3. h[n + 1] = step[h[n]]
    <3>1. n \in 0 .. (n + 1) - 1
      OBVIOUS
    <3>2. QED
      BY <3>1 DEF Beginnings
  <2>4. QED
    BY <2>1, <2>2, <2>3
<1>7. QED
  BY <1>5, <1>6 DEF Iterated

(* What Chunks and Payload put together along the links exists. *)
Walk(n, v, nxt, f) ==
  [a \in Addrs \cup {Null} |->
     IF n = 0 \/ a = Null THEN <<>> ELSE v[a] \o f[n - 1][nxt[a]]]

LEMMA WalkExists ==
  ASSUME NEW S, NEW v \in [Addrs -> Seq(S)], NEW nxt \in [Addrs -> Addrs \cup {Null}]
  PROVE  \E f : f = [n \in Nat |-> Walk(n, v, nxt, f)]
<1> DEFINE A == Addrs \cup {Null}
           F == [A -> Seq(S)]
<1>1. PICK z : z = [a \in A |-> <<>>]
  OBVIOUS
<1>2. PICK step : step = [g \in F |-> [a \in A |-> IF a = Null THEN <<>>
                                                  ELSE v[a] \o g[nxt[a]]]]
  OBVIOUS
<1>3. z \in F
  BY <1>1, EmptySeq
<1>4. step \in [F -> F]
  <2>1. ASSUME NEW g \in F, NEW a \in A
        PROVE  (IF a = Null THEN <<>> ELSE v[a] \o g[nxt[a]]) \in Seq(S)
    <3>1. CASE a = Null
      BY <3>1, EmptySeq
    <3>2. CASE a # Null
      <4>1. v[a] \in Seq(S) /\ g[nxt[a]] \in Seq(S)
        BY <3>2
      <4>2. QED
        BY <3>2, <4>1, ConcatProperties
    <3>3. QED
      BY <3>1, <3>2
  <2>2. QED
    BY <1>2, <2>1
<1>5. PICK it \in [Nat -> F] : it[0] = z /\ \A n \in Nat : it[n + 1] = step[it[n]]
  <2>1. PICK G : G = F
    OBVIOUS
  <2>2. z \in G /\ step \in [G -> G]
    BY <1>3, <1>4, <2>1, Zenon
  <2>3. Iterated(G, z, step)
    BY <2>2, Iteration
  <2>4. QED
    BY <2>1, <2>3, Zenon DEF Iterated
<1>6. ASSUME NEW n \in Nat PROVE it[n] = Walk(n, v, nxt, it)
  <2>1. CASE n = 0
    BY <1>1, <1>5, <2>1 DEF Walk
  <2>2. CASE n # 0
    <3>1. n - 1 \in Nat /\ (n - 1) + 1 = n
      BY <2>2
    <3>2. it[n] = step[it[n - 1]] /\ it[n - 1] \in F
      BY <1>5, <3>1
    <3>3. it[n] = [a \in A |-> IF a = Null THEN <<>> ELSE v[a] \o it[n - 1][nxt[a]]]
      BY <1>2, <3>2
    <3>4. QED
      BY <2>2, <3>3 DEF Walk
  <2>3. QED
    BY <2>1, <2>2
<1>7. it = [n \in Nat |-> Walk(n, v, nxt, it)]
  <2> HIDE DEF F
  <2>1. QED
    BY <1>5, <1>6
<1>8. QED
  BY <1>7

(* Both are what their definitions say. *)
LEMMA ChunksAre ==
  ASSUME next \in [Addrs -> Addrs \cup {Null}]
  PROVE  \A n \in Nat, a \in Addrs \cup {Null} :
           Chunks[n][a] = IF n = 0 \/ a = Null THEN <<>> ELSE <<a>> \o Chunks[n - 1][next[a]]
<1>1. PICK v : v = [a \in Addrs |-> <<a>>]
  OBVIOUS
<1>2. v \in [Addrs -> Seq(Addrs)]
  BY <1>1
<1>3. PICK f : f = [n \in Nat |-> Walk(n, v, next, f)]
  BY <1>2, WalkExists
<1>4. f = [n \in Nat |-> [a \in Addrs \cup {Null} |->
            IF n = 0 \/ a = Null THEN <<>> ELSE <<a>> \o f[n - 1][next[a]]]]
  <2>1. \A a \in Addrs \cup {Null} : a # Null => v[a] = <<a>>
    BY <1>1
  <2>2. \A n : Walk(n, v, next, f) =
          [a \in Addrs \cup {Null} |->
            IF n = 0 \/ a = Null THEN <<>> ELSE <<a>> \o f[n - 1][next[a]]]
    BY <2>1 DEF Walk
  <2>3. QED
    BY <1>3, <2>2, Zenon
<1>5. Chunks = [n \in Nat |-> [a \in Addrs \cup {Null} |->
                 IF n = 0 \/ a = Null THEN <<>> ELSE <<a>> \o Chunks[n - 1][next[a]]]]
  BY <1>4, Zenon DEF Chunks
<1>6. \A n \in Nat : Chunks[n] = [a \in Addrs \cup {Null} |->
        IF n = 0 \/ a = Null THEN <<>> ELSE <<a>> \o Chunks[n - 1][next[a]]]
  BY <1>5, Zenon
<1>7. QED
  BY <1>6

LEMMA PayloadIs ==
  ASSUME next \in [Addrs -> Addrs \cup {Null}], bytes \in [Addrs -> Seq(Bytes)]
  PROVE  \A n \in Nat, a \in Addrs \cup {Null} :
           Payload[n][a] = IF n = 0 \/ a = Null THEN <<>>
                           ELSE bytes[a] \o Payload[n - 1][next[a]]
<1>1. \E f : f = [n \in Nat |-> Walk(n, bytes, next, f)]
  BY WalkExists
<1>2. Payload = [n \in Nat |-> [a \in Addrs \cup {Null} |->
                  IF n = 0 \/ a = Null THEN <<>> ELSE bytes[a] \o Payload[n - 1][next[a]]]]
  BY <1>1, Zenon DEF Payload, Walk
<1>3. \A n \in Nat : Payload[n] = [a \in Addrs \cup {Null} |->
        IF n = 0 \/ a = Null THEN <<>> ELSE bytes[a] \o Payload[n - 1][next[a]]]
  BY <1>2, Zenon
<1>4. QED
  BY <1>3

-----------------------------------------------------------------------------
(***************************************************************************)
(* The list and what is in it.                                             *)
(***************************************************************************)

(* The link that leads to the i-th chunk of c *)
LinkTo(c, i) == IF i > Len(c) THEN Null ELSE c[i]

Types ==
  /\ bytes \in [Addrs -> Seq(Bytes)] /\ \A a \in Addrs : Len(bytes[a]) <= ChunkSize
  /\ next \in [Addrs -> Addrs \cup {Null}]

(* The chunks are those of c, in this order; w[i] are the bytes from the i-th
   on. *)
Listed(c, w) ==
  /\ c \in Seq(Addrs) /\ \A i, j \in 1 .. Len(c) : c[i] = c[j] => i = j
  /\ allocated = Range(c)
  /\ head_chunk = LinkTo(c, 1) /\ \A i \in 1 .. Len(c) : next[c[i]] = LinkTo(c, i + 1)
  /\ tail_chunk = IF Len(c) = 0 THEN Null ELSE c[Len(c)]
  /\ w \in [1 .. Len(c) + 1 -> Seq(Bytes)] /\ w[Len(c) + 1] = <<>>
  /\ \A i \in 1 .. Len(c) :
       /\ w[i] = bytes[c[i]] \o w[i + 1] /\ bytes[c[i]] # <<>>
       /\ i \notin {1, Len(c)} => Len(bytes[c[i]]) = ChunkSize
  /\ total_available = Len(w[1])

(* With enough steps the walk from the i-th chunk finds the rest. *)
Walked(c, w, i, n) ==
  /\ Chunks[n][LinkTo(c, i)] = SubSeq(c, i, Len(c))
  /\ Payload[n][LinkTo(c, i)] = w[i]

(* A link leads to a chunk or nowhere. *)
LEMMA LinkTyped ==
  ASSUME NEW c \in Seq(Addrs), NEW i \in Nat \ {0}
  PROVE  /\ LinkTo(c, i) \in Addrs \cup {Null}
         /\ LinkTo(c, i) = Null <=> i > Len(c)
         /\ i <= Len(c) => LinkTo(c, i) = c[i] /\ c[i] \in Addrs
<1>1. Len(c) \in Nat
  BY LenProperties
<1>2. i <= Len(c) => c[i] \in Addrs
  BY <1>1, ElementOfSeq
<1>3. QED
  BY <1>1, <1>2, ChunkedBufferAssumption DEF LinkTo

LEMMA WalkAlong ==
  ASSUME NEW c, NEW w, Types, Listed(c, w), NEW i \in 1 .. Len(c) + 1, NEW n \in Nat,
         i + n > Len(c)
  PROVE  Walked(c, w, i, n)
<1> DEFINE m == Len(c)
           S == {k \in Nat : \A j \in 1 .. m + 1, p \in Nat :
                   j + k = m + 1 /\ p >= k => Walked(c, w, j, p)}
<1>1. m \in Nat /\ c \in Seq(Addrs)
  BY LenProperties DEF Listed
<1>2. 0 \in S
  <2>1. ASSUME NEW p \in Nat PROVE Walked(c, w, m + 1, p)
    <3>1. LinkTo(c, m + 1) = Null /\ Null \in Addrs \cup {Null}
      BY <1>1 DEF LinkTo
    <3>2. Chunks[p][Null] = <<>> /\ Payload[p][Null] = <<>>
      BY ChunksAre, PayloadIs DEF Types
    <3>3. SubSeq(c, m + 1, m) = <<>>
      <4>1. m + 1 \in Int /\ m \in Int /\ m < m + 1
        BY <1>1
      <4>2. QED
        BY <4>1, SubSeqEmpty
    <3>4. w[m + 1] = <<>>
      BY DEF Listed
    <3>5. QED
      BY <3>1, <3>2, <3>3, <3>4 DEF Walked
  <2>2. \A j \in 1 .. m + 1 : j + 0 = m + 1 => j = m + 1
    OBVIOUS
  <2>3. QED
    BY <2>1, <2>2
<1>3. ASSUME NEW k \in Nat, k \in S PROVE k + 1 \in S
  <2>1. SUFFICES ASSUME NEW j \in 1 .. m + 1, NEW p \in Nat,
                        j + (k + 1) = m + 1, p >= k + 1
                 PROVE  Walked(c, w, j, p)
    OBVIOUS
  <2>2. /\ j \in 1 .. m /\ j + 1 \in 1 .. m + 1 /\ (j + 1) + k = m + 1
        /\ p - 1 \in Nat /\ p - 1 >= k /\ p # 0 /\ j \in Nat \ {0} /\ j <= Len(c)
    BY <1>1, <2>1
  <2>3. Walked(c, w, j + 1, p - 1)
    BY <1>3, <2>2
  <2>4. LinkTo(c, j) = c[j] /\ c[j] \in Addrs /\ c[j] # Null
    BY <1>1, <2>2, LinkTyped, ChunkedBufferAssumption
  <2>5. next[c[j]] = LinkTo(c, j + 1) /\ w[j] = bytes[c[j]] \o w[j + 1]
    <3>1. \A l \in 1 .. Len(c) : next[c[l]] = LinkTo(c, l + 1) /\ w[l] = bytes[c[l]] \o w[l + 1]
      BY DEF Listed
    <3>2. QED
      BY <2>2, <3>1, Zenon
  <2>6. /\ Chunks[p][c[j]] = <<c[j]>> \o Chunks[p - 1][next[c[j]]]
        /\ Payload[p][c[j]] = bytes[c[j]] \o Payload[p - 1][next[c[j]]]
    BY <2>2, <2>4, ChunksAre, PayloadIs DEF Types
  <2>7. <<c[j]>> \o SubSeq(c, j + 1, m) = SubSeq(c, j, m)
    BY <1>1, <2>2, SubSeqRecursiveFirst
  <2>8. QED
    BY <2>3, <2>4, <2>5, <2>6, <2>7 DEF Walked
<1> HIDE DEF S
<1>4. Nat \subseteq S
  BY <1>2, <1>3, SetInduction
<1>5. PICK k : k = m + 1 - i
  OBVIOUS
<1>6. k \in Nat /\ i + k = m + 1 /\ n >= k /\ i \in 1 .. m + 1
  BY <1>1, <1>5
<1>7. QED
  BY <1>4, <1>6 DEF S

(* Whatever is listed, Chain and Contents are. *)
ChainIs(c, w) == Chain = c /\ Contents = w[1]

LEMMA ListedIsChain ==
  ASSUME NEW c, NEW w, Types, Listed(c, w)
  PROVE  ChainIs(c, w)
<1>1. Len(c) \in Nat /\ c \in Seq(Addrs)
  BY LenProperties DEF Listed
<1>2. PICK k : k = Cardinality(Addrs)
  OBVIOUS
<1>3. k \in Nat /\ Len(c) <= k
  <2>1. c \in [1 .. Len(c) -> Addrs]
    BY <1>1, LenProperties
  <2>2. \A i, j \in 1 .. Len(c) : c[i] = c[j] => i = j
    BY DEF Listed
  <2>3. c \in Injection(1 .. Len(c), Addrs)
    BY <2>1, <2>2 DEF Injection, IsInjective
  <2>4. Cardinality(1 .. Len(c)) <= k
    BY <1>2, <2>3, ChunkedBufferAssumption, FS_Injection
  <2>5. Cardinality(1 .. Len(c)) = IF 1 > Len(c) THEN 0 ELSE Len(c) - 1 + 1
    BY <1>1, FS_Interval
  <2>6. k \in Nat
    BY <1>2, ChunkedBufferAssumption, FS_CardinalityType
  <2>7. QED
    BY <1>1, <2>4, <2>5, <2>6
<1>4. Walked(c, w, 1, k)
  <2>1. 1 \in 1 .. Len(c) + 1 /\ 1 + k > Len(c)
    BY <1>1, <1>3
  <2>2. QED
    BY <1>3, <2>1, WalkAlong
<1>5. SubSeq(c, 1, Len(c)) = c
  BY <1>1, SubSeqFull
<1>6. head_chunk = LinkTo(c, 1)
  BY DEF Listed
<1>7. QED
  BY <1>2, <1>4, <1>5, <1>6 DEF Walked, Chain, Contents, ChainIs

(* A sequence cut after n elements *)
CutAt(s, n) == /\ FirstOf(s, n) \in Seq(Bytes) /\ Len(FirstOf(s, n)) = n
               /\ AllBut(s, n) \in Seq(Bytes) /\ Len(AllBut(s, n)) = Len(s) - n
               /\ s = FirstOf(s, n) \o AllBut(s, n)

LEMMA Cut ==
  ASSUME NEW s \in Seq(Bytes), NEW n \in 0 .. Len(s)
  PROVE  CutAt(s, n)
<1>1. PICK m : m = Len(s)
  OBVIOUS
<1>2. m \in Nat /\ n \in 0 .. m /\ \A i \in 1 .. m : s[i] \in Bytes
  BY <1>1, LenProperties, ElementOfSeq
<1>3. SubSeq(s, 1, n) \in Seq(Bytes) /\ Len(SubSeq(s, 1, n)) = n
  <2>1. 1 \in Int /\ n \in Int /\ \A i \in 1 .. n : s[i] \in Bytes
    BY <1>2
  <2>2. /\ SubSeq(s, 1, n) \in Seq(Bytes)
        /\ Len(SubSeq(s, 1, n)) = IF 1 <= n THEN n - 1 + 1 ELSE 0
    BY <2>1, SubSeqProperties
  <2>3. QED
    BY <1>2, <2>2
<1>4. SubSeq(s, n + 1, m) \in Seq(Bytes) /\ Len(SubSeq(s, n + 1, m)) = m - n
  <2>1. n + 1 \in Int /\ m \in Int /\ \A i \in n + 1 .. m : s[i] \in Bytes
    BY <1>2
  <2>2. /\ SubSeq(s, n + 1, m) \in Seq(Bytes)
        /\ Len(SubSeq(s, n + 1, m)) = IF n + 1 <= m THEN m - (n + 1) + 1 ELSE 0
    BY <2>1, SubSeqProperties
  <2>3. QED
    BY <1>2, <2>2
<1>5. SubSeq(s, 1, n) \o SubSeq(s, n + 1, m) = s
  <2>1. 1 \in 1 .. Len(s) + 1 /\ n \in 1 - 1 .. Len(s) /\ Len(s) \in n .. Len(s)
    BY <1>1, <1>2
  <2>2. SubSeq(s, 1, n) \o SubSeq(s, n + 1, Len(s)) = SubSeq(s, 1, Len(s))
    BY <2>1, ConcatAdjacentSubSeq
  <2>3. QED
    BY <1>1, <2>2, SubSeqFull
<1>6. QED
  BY <1>1, <1>3, <1>4, <1>5 DEF CutAt, FirstOf, AllBut

-----------------------------------------------------------------------------
(* A list of the chunks c2 with w2 in them *)
NowListed(c2, w2) == Types' /\ Listed(c2, w2)'

(* Listed, as it is used *)
Facts(c, w, m) ==
  /\ c \in Seq(Addrs) /\ m \in Nat
  /\ \A i \in 1 .. m : c[i] \in Addrs /\ c[i] \in allocated
  /\ w \in [1 .. m + 1 -> Seq(Bytes)] /\ w[m + 1] = <<>>
  /\ \A i, j \in 1 .. m : c[i] = c[j] => i = j
  /\ \A i \in 1 .. m : next[c[i]] = LinkTo(c, i + 1)
  /\ \A i \in 1 .. m : w[i] = bytes[c[i]] \o w[i + 1] /\ bytes[c[i]] # <<>>
  /\ \A i \in 1 .. m : i \notin {1, m} => Len(bytes[c[i]]) = ChunkSize
  /\ tail_chunk = IF m = 0 THEN Null ELSE c[m]
  /\ head_chunk = IF m = 0 THEN Null ELSE c[1]
  /\ total_available = Len(w[1]) /\ allocated = Range(c)

LEMMA ListFacts ==
  ASSUME NEW c, NEW w, NEW m, Listed(c, w), m = Len(c)
  PROVE  Facts(c, w, m)
<1>1. c \in Seq(Addrs) /\ w \in [1 .. m + 1 -> Seq(Bytes)] /\ w[m + 1] = <<>>
  BY DEF Listed
<1>2. m \in Nat /\ DOMAIN c = 1 .. m
  BY <1>1, LenProperties
<1>3. \A i \in 1 .. m : c[i] \in Addrs /\ c[i] \in allocated
  BY <1>1, <1>2, ElementOfSeq DEF Listed, Range
<1>4. head_chunk = LinkTo(c, 1)
  BY DEF Listed
<1>5. LinkTo(c, 1) = IF m = 0 THEN Null ELSE c[1]
  BY <1>2 DEF LinkTo
<1>6. /\ \A i, j \in 1 .. m : c[i] = c[j] => i = j
      /\ \A i \in 1 .. m : next[c[i]] = LinkTo(c, i + 1)
      /\ \A i \in 1 .. m : w[i] = bytes[c[i]] \o w[i + 1] /\ bytes[c[i]] # <<>>
      /\ \A i \in 1 .. m : i \notin {1, m} => Len(bytes[c[i]]) = ChunkSize
      /\ tail_chunk = IF m = 0 THEN Null ELSE c[m]
      /\ total_available = Len(w[1]) /\ allocated = Range(c)
  BY Zenon DEF Listed
<1>7. QED
  BY <1>1, <1>2, <1>3, <1>4, <1>5, <1>6 DEF Facts

(* What an iteration of write does to the list *)
Stores(a, piece) ==
  /\ allocated' = allocated \cup {a}
  /\ bytes' \in [Addrs -> Seq(Bytes)]
  /\ bytes'[a] = (IF NeedsChunk THEN <<>> ELSE bytes[a]) \o piece
  /\ \A x \in Addrs \ {a} : bytes'[x] = bytes[x]
  /\ next' \in [Addrs -> Addrs \cup {Null}]
  /\ \A x \in Addrs : next'[x] = IF ~NeedsChunk THEN next[x]
                                ELSE IF x = a THEN Null
                                ELSE IF x = tail_chunk THEN a ELSE next[x]
  /\ head_chunk' = IF head_chunk = Null THEN a ELSE head_chunk
  /\ tail_chunk' = a
  /\ total_available' = total_available + Len(piece)

Grown(w, piece) == \E c2, w2 : NowListed(c2, w2) /\ w2[1] = w[1] \o piece

(* The tail is missing or full: a chunk is linked behind it. *)
LEMMA NewTail ==
  ASSUME NEW c, NEW w, Types, Listed(c, w), NeedsChunk, NEW a \in Addrs \ allocated,
         NEW piece \in Seq(Bytes), Len(piece) > 0, Len(piece) <= ChunkSize, Stores(a, piece)
  PROVE  Grown(w, piece)
<1>1. PICK m : m = Len(c)
  OBVIOUS
<1>0. Facts(c, w, m)
  BY <1>1, ListFacts
<1>2. /\ c \in Seq(Addrs) /\ m \in Nat
      /\ \A i \in 1 .. m : c[i] \in Addrs /\ c[i] \in allocated
      /\ w \in [1 .. m + 1 -> Seq(Bytes)] /\ w[m + 1] = <<>>
  BY <1>0 DEF Facts
<1>3. /\ \A i, j \in 1 .. m : c[i] = c[j] => i = j
      /\ \A i \in 1 .. m : next[c[i]] = LinkTo(c, i + 1)
      /\ \A i \in 1 .. m : w[i] = bytes[c[i]] \o w[i + 1] /\ bytes[c[i]] # <<>>
      /\ \A i \in 1 .. m : i \notin {1, m} => Len(bytes[c[i]]) = ChunkSize
      /\ tail_chunk = IF m = 0 THEN Null ELSE c[m]
      /\ head_chunk = IF m = 0 THEN Null ELSE c[1]
      /\ total_available = Len(w[1]) /\ allocated = Range(c)
  BY <1>0 DEF Facts
<1>4. PICK c2 : c2 = Append(c, a)
  OBVIOUS
<1>5. PICK w2 : w2 = [i \in 1 .. m + 2 |-> IF i = m + 2 THEN <<>> ELSE w[i] \o piece]
  OBVIOUS
<1>6. /\ c2 \in Seq(Addrs) /\ Len(c2) = m + 1 /\ c2[m + 1] = a
      /\ \A i \in 1 .. m : c2[i] = c[i]
  BY <1>1, <1>2, <1>4, AppendProperties
<1>7. /\ Len(c2) + 1 = m + 2 /\ w2[m + 2] = <<>>
      /\ \A i \in 1 .. m + 1 : w2[i] = w[i] \o piece /\ w[i] \in Seq(Bytes)
  <2>1. /\ (m + 1) + 1 = m + 2 /\ m + 2 \in 1 .. m + 2
        /\ \A i \in 1 .. m + 1 : i \in 1 .. m + 2 /\ i # m + 2
    BY <1>2
  <2>2. QED
    BY <1>2, <1>5, <1>6, <2>1
<1>8. w2 \in [1 .. m + 2 -> Seq(Bytes)]
  <2>1. \A i \in 1 .. m + 1 : w[i] \o piece \in Seq(Bytes)
    BY <1>7, ConcatProperties
  <2>2. \A i \in 1 .. m + 2 : i = m + 2 \/ i \in 1 .. m + 1
    BY <1>2
  <2>3. QED
    BY <1>5, <2>1, <2>2, EmptySeq
<1>9. \A i, j \in 1 .. m + 1 : c2[i] = c2[j] => i = j
  <2>1. \A i \in 1 .. m + 1 : i = m + 1 \/ i \in 1 .. m
    BY <1>2
  <2>2. \A i \in 1 .. m : c2[i] = c[i] /\ c2[i] # a
    BY <1>2, <1>6
  <2>3. ASSUME NEW i \in 1 .. m + 1, NEW j \in 1 .. m + 1, c2[i] = c2[j] PROVE i = j
    <3>1. CASE i = m + 1 \/ j = m + 1
      BY <1>6, <2>1, <2>2, <2>3, <3>1
    <3>2. CASE i \in 1 .. m /\ j \in 1 .. m
      BY <1>3, <2>2, <2>3, <3>2
    <3>3. QED
      BY <2>1, <3>1, <3>2
  <2>4. QED
    BY <2>3
<1>10. allocated' = Range(c2)
  <2>1. DOMAIN c = 1 .. m /\ DOMAIN c2 = 1 .. m + 1
    BY <1>1, <1>2, <1>6, LenProperties
  <2>2. \A i \in 1 .. m + 1 : i = m + 1 \/ i \in 1 .. m
    BY <1>2
  <2>3. m + 1 \in 1 .. m + 1 /\ \A i \in 1 .. m : i \in 1 .. m + 1
    BY <1>2
  <2>4. Range(c2) = Range(c) \cup {a}
    BY <1>6, <2>1, <2>2, <2>3 DEF Range
  <2>5. QED
    BY <1>3, <2>4 DEF Stores
<1>11. \A i \in 1 .. m + 1 : next'[c2[i]] = LinkTo(c2, i + 1)
  <2>1. ASSUME NEW i \in 1 .. m + 1 PROVE next'[c2[i]] = LinkTo(c2, i + 1)
    <3>1. CASE i = m + 1
      <4>1. LinkTo(c2, i + 1) = Null
        BY <1>2, <1>6, <3>1 DEF LinkTo
      <4>2. QED
        BY <1>6, <3>1, <4>1 DEF Stores
    <3>2. CASE i = m
      <4>1. i \in 1 .. m /\ m # 0 /\ i + 1 = m + 1 /\ ~ (m + 1 > m + 1)
        BY <1>2, <2>1, <3>2
      <4>2. c2[i] = tail_chunk /\ tail_chunk # a /\ tail_chunk \in Addrs
        BY <1>2, <1>3, <1>6, <3>2, <4>1
      <4>3. next'[c2[i]] = a
        BY <4>2 DEF Stores
      <4>4. LinkTo(c2, i + 1) = a
        BY <1>6, <4>1 DEF LinkTo
      <4>5. QED
        BY <4>3, <4>4
    <3>3. CASE i # m /\ i # m + 1
      <4>1. /\ i \in 1 .. m /\ i + 1 \in 1 .. m /\ ~ (i + 1 > m) /\ ~ (i + 1 > m + 1)
            /\ m # 0 /\ m \in 1 .. m
        BY <1>2, <2>1, <3>3
      <4>2. c2[i] = c[i] /\ c[i] # a /\ c[i] # tail_chunk /\ c[i] \in Addrs
        BY <1>2, <1>3, <1>6, <3>3, <4>1
      <4>3. next'[c2[i]] = next[c[i]]
        BY <4>2 DEF Stores
      <4>4. LinkTo(c2, i + 1) = c[i + 1] /\ LinkTo(c, i + 1) = c[i + 1]
        BY <1>1, <1>6, <4>1 DEF LinkTo
      <4>5. QED
        BY <1>3, <4>1, <4>3, <4>4
    <3>4. QED
      BY <3>1, <3>2, <3>3
  <2>2. QED
    BY <2>1
<1>12. /\ head_chunk' = LinkTo(c2, 1)
       /\ tail_chunk' = IF Len(c2) = 0 THEN Null ELSE c2[Len(c2)]
  <2>1. LinkTo(c2, 1) = c2[1] /\ Len(c2) # 0
    BY <1>2, <1>6 DEF LinkTo
  <2>2. CASE m = 0
    BY <1>3, <1>6, <2>1, <2>2 DEF Stores
  <2>3. CASE m # 0
    <3>1. 1 \in 1 .. m
      BY <1>2, <2>3
    <3>2. head_chunk = c[1] /\ c[1] \in Addrs /\ c2[1] = c[1]
      BY <1>2, <1>3, <1>6, <2>3, <3>1
    <3>3. head_chunk' = c2[1]
      BY <3>2, ChunkedBufferAssumption DEF Stores
    <3>4. QED
      BY <1>6, <2>1, <3>3 DEF Stores
  <2>4. QED
    BY <2>2, <2>3
<1>13. bytes'[a] = piece /\ piece # <<>> /\ \A i \in 1 .. m : bytes'[c[i]] = bytes[c[i]]
  <2>1. bytes'[a] = piece
    BY ConcatEmptySeq DEF Stores
  <2>2. piece # <<>>
    BY EmptySeq
  <2>3. QED
    BY <1>2, <2>1, <2>2 DEF Stores
<1>14. \A i \in 1 .. m + 1 :
         /\ w2[i] = bytes'[c2[i]] \o w2[i + 1] /\ bytes'[c2[i]] # <<>>
         /\ i \notin {1, m + 1} => Len(bytes'[c2[i]]) = ChunkSize
  <2>1. ASSUME NEW i \in 1 .. m + 1, i = m + 1
        PROVE  /\ w2[i] = bytes'[c2[i]] \o w2[i + 1] /\ bytes'[c2[i]] # <<>>
               /\ i \notin {1, m + 1} => Len(bytes'[c2[i]]) = ChunkSize
    <3>1. w2[i] = <<>> \o piece /\ i + 1 = m + 2
      <4>1. i + 1 = m + 2
        BY <1>2, <2>1
      <4>2. w2[i] = w[i] \o piece
        BY <1>7
      <4>3. QED
        BY <1>2, <2>1, <4>1, <4>2
    <3>2. w2[i] = piece /\ piece \o <<>> = piece
      BY <3>1, ConcatEmptySeq
    <3>3. QED
      BY <1>6, <1>7, <1>13, <2>1, <3>1, <3>2
  <2>2. ASSUME NEW i \in 1 .. m
        PROVE  /\ w2[i] = bytes'[c2[i]] \o w2[i + 1] /\ bytes'[c2[i]] # <<>>
               /\ i \notin {1, m + 1} => Len(bytes'[c2[i]]) = ChunkSize
    <3>1. i \in 1 .. m + 1 /\ i + 1 \in 1 .. m + 1
      BY <1>2
    <3>2. bytes'[c2[i]] = bytes[c[i]] /\ bytes[c[i]] \in Seq(Bytes)
      BY <1>2, <1>6, <1>13 DEF Types
    <3>3. w[i] = bytes[c[i]] \o w[i + 1] /\ w[i + 1] \in Seq(Bytes) /\ bytes[c[i]] # <<>>
      BY <1>3, <1>7, <3>1
    <3>4. (bytes[c[i]] \o w[i + 1]) \o piece = bytes[c[i]] \o (w[i + 1] \o piece)
      <4>1. PICK b, r : b = bytes[c[i]] /\ r = w[i + 1]
        OBVIOUS
      <4>2. b \in Seq(Bytes) /\ r \in Seq(Bytes)
        BY <3>2, <3>3, <4>1
      <4>3. (b \o r) \o piece = b \o (r \o piece)
        BY <4>2, ConcatAssociative
      <4>4. QED
        BY <4>1, <4>3
    <3>5. w2[i] = w[i] \o piece /\ w2[i + 1] = w[i + 1] \o piece
      BY <1>7, <3>1
    <3>6. i # 1 => Len(bytes[c[i]]) = ChunkSize
      <4>1. CASE i # m
        BY <1>3, <4>1
      <4>2. CASE i = m
        <5>1. tail_chunk = c[i] /\ tail_chunk # Null
          BY <1>2, <1>3, <4>2, ChunkedBufferAssumption
        <5>2. QED
          BY <5>1 DEF NeedsChunk
      <4>3. QED
        BY <4>1, <4>2
    <3>7. QED
      BY <3>2, <3>3, <3>4, <3>5, <3>6
  <2>3. \A i \in 1 .. m + 1 : i = m + 1 \/ i \in 1 .. m
    BY <1>2
  <2>4. QED
    BY <2>1, <2>2, <2>3
<1>15. total_available' = Len(w2[1]) /\ w2[1] = w[1] \o piece
  <2>1. 1 \in 1 .. m + 1
    BY <1>2
  <2>2. w[1] \in Seq(Bytes) /\ w2[1] = w[1] \o piece
    BY <1>7, <2>1
  <2>3. Len(w[1] \o piece) = Len(w[1]) + Len(piece)
    BY <2>2, ConcatProperties
  <2>4. QED
    BY <1>3, <2>2, <2>3 DEF Stores
<1>16. Types'
  <2>1. ASSUME NEW x \in Addrs PROVE Len(bytes'[x]) <= ChunkSize
    <3>1. x = a \/ bytes'[x] = bytes[x]
      BY DEF Stores
    <3>2. QED
      BY <1>13, <3>1 DEF Types
  <2>2. QED
    BY <2>1 DEF Types, Stores
<1>17. Listed(c2, w2)'
  <2>1. \A i : LinkTo(c2, i)' = LinkTo(c2, i)
    BY DEF LinkTo
  <2>2. QED
    BY <1>6, <1>7, <1>8, <1>9, <1>10, <1>11, <1>12, <1>14, <1>15, <2>1 DEF Listed
<1>18. QED
  BY <1>15, <1>16, <1>17 DEF Grown, NowListed

(* The tail has room. *)
LEMMA OldTail ==
  ASSUME NEW c, NEW w, Types, Listed(c, w), ~NeedsChunk,
         NEW piece \in Seq(Bytes), Len(piece) <= ChunkSize - Len(bytes[tail_chunk]),
         Stores(tail_chunk, piece)
  PROVE  Grown(w, piece)
<1>1. PICK m, a : m = Len(c) /\ a = tail_chunk
  OBVIOUS
<1>0. Facts(c, w, m)
  BY <1>1, ListFacts
<1>2. /\ c \in Seq(Addrs) /\ m \in Nat
      /\ \A i \in 1 .. m : c[i] \in Addrs /\ c[i] \in allocated
      /\ w \in [1 .. m + 1 -> Seq(Bytes)] /\ w[m + 1] = <<>>
  BY <1>0 DEF Facts
<1>3. /\ \A i, j \in 1 .. m : c[i] = c[j] => i = j
      /\ \A i \in 1 .. m : next[c[i]] = LinkTo(c, i + 1)
      /\ \A i \in 1 .. m : w[i] = bytes[c[i]] \o w[i + 1] /\ bytes[c[i]] # <<>>
      /\ \A i \in 1 .. m : i \notin {1, m} => Len(bytes[c[i]]) = ChunkSize
      /\ tail_chunk = IF m = 0 THEN Null ELSE c[m]
      /\ head_chunk = IF m = 0 THEN Null ELSE c[1]
      /\ total_available = Len(w[1]) /\ allocated = Range(c)
  BY <1>0 DEF Facts
<1>4. m # 0 /\ m \in 1 .. m /\ 1 \in 1 .. m /\ a = c[m] /\ a \in Addrs /\ a \in allocated
  <2>1. tail_chunk # Null
    BY DEF NeedsChunk
  <2>2. m # 0 /\ m \in 1 .. m /\ 1 \in 1 .. m
    BY <1>2, <1>3, <2>1
  <2>3. QED
    BY <1>1, <1>2, <1>3, <2>2
<1>5. PICK w2 : w2 = [i \in 1 .. m + 1 |-> IF i = m + 1 THEN <<>> ELSE w[i] \o piece]
  OBVIOUS
<1>6. /\ w2[m + 1] = <<>> /\ DOMAIN w2 = 1 .. m + 1
      /\ \A i \in 1 .. m : w2[i] = w[i] \o piece /\ w[i] \in Seq(Bytes)
  <2>1. m + 1 \in 1 .. m + 1 /\ \A i \in 1 .. m : i \in 1 .. m + 1 /\ i # m + 1
    BY <1>2
  <2>2. QED
    BY <1>2, <1>5, <2>1
<1>7. w2 \in [1 .. m + 1 -> Seq(Bytes)]
  <2>1. \A i \in 1 .. m : w[i] \o piece \in Seq(Bytes)
    BY <1>6, ConcatProperties
  <2>2. \A i \in 1 .. m + 1 : i = m + 1 \/ i \in 1 .. m
    BY <1>2
  <2>3. QED
    BY <1>5, <2>1, <2>2, EmptySeq
<1>8. /\ allocated' = Range(c) /\ head_chunk' = head_chunk /\ tail_chunk' = tail_chunk
      /\ \A x \in Addrs : next'[x] = next[x]
  <2>1. head_chunk # Null
    BY <1>2, <1>3, <1>4, ChunkedBufferAssumption
  <2>2. QED
    BY <1>1, <1>3, <1>4, <2>1 DEF Stores
<1>9. /\ bytes'[a] = bytes[a] \o piece /\ bytes[a] \in Seq(Bytes) /\ bytes'[a] # <<>>
      /\ Len(bytes'[a]) = Len(bytes[a]) + Len(piece)
      /\ \A i \in 1 .. m : i # m => bytes'[c[i]] = bytes[c[i]]
  <2>1. bytes[a] \in Seq(Bytes) /\ bytes'[a] = bytes[a] \o piece
    BY <1>1, <1>4 DEF Stores, Types
  <2>2. PICK b : b = bytes[a]
    OBVIOUS
  <2>3. b \in Seq(Bytes) /\ b # <<>>
    BY <1>3, <1>4, <2>1, <2>2
  <2>4. b \o piece # <<>> /\ Len(b \o piece) = Len(b) + Len(piece)
    BY <2>3, ConcatEqualIffEmpty, ConcatProperties
  <2>5. \A i \in 1 .. m : i # m => c[i] # a /\ c[i] \in Addrs
    BY <1>2, <1>3, <1>4
  <2>6. \A x \in Addrs : x # a => bytes'[x] = bytes[x]
    BY <1>1 DEF Stores
  <2>7. QED
    BY <2>1, <2>2, <2>4, <2>5, <2>6
<1>10. ASSUME NEW i \in 1 .. m
       PROVE  /\ w2[i] = bytes'[c[i]] \o w2[i + 1] /\ bytes'[c[i]] # <<>>
              /\ i \notin {1, m} => Len(bytes'[c[i]]) = ChunkSize
  <2>1. CASE i = m
    <3>1. PICK b : b = bytes[a]
      OBVIOUS
    <3>2. b \in Seq(Bytes) /\ b \o piece \in Seq(Bytes)
      BY <1>9, <3>1, ConcatProperties
    <3>3. w[i] = b \o <<>>
      BY <1>2, <1>3, <1>4, <2>1, <3>1
    <3>4. w[i] = b /\ (b \o piece) \o <<>> = b \o piece
      BY <3>2, <3>3, ConcatEmptySeq
    <3>5. w2[i] = w[i] \o piece /\ w2[i + 1] = <<>>
      BY <1>6, <2>1
    <3>6. QED
      BY <1>4, <1>9, <2>1, <3>1, <3>4, <3>5
  <2>2. CASE i # m
    <3>1. PICK b, r : b = bytes[c[i]] /\ r = w[i + 1]
      OBVIOUS
    <3>2. i + 1 \in 1 .. m
      BY <1>2, <2>2
    <3>3. b \in Seq(Bytes) /\ r \in Seq(Bytes) /\ w2[i + 1] = r \o piece
      BY <1>2, <1>6, <3>1, <3>2 DEF Types
    <3>4. w2[i] = (b \o r) \o piece
      BY <1>3, <1>6, <3>1
    <3>5. (b \o r) \o piece = b \o (r \o piece)
      BY <3>3, ConcatAssociative
    <3>6. bytes'[c[i]] = b
      BY <1>9, <2>2, <3>1
    <3>7. QED
      BY <1>3, <3>1, <3>3, <3>4, <3>5, <3>6
  <2>3. QED
    BY <2>1, <2>2
<1>11. total_available' = Len(w2[1]) /\ w2[1] = w[1] \o piece
  <2>1. w[1] \in Seq(Bytes) /\ w2[1] = w[1] \o piece
    BY <1>4, <1>6
  <2>2. Len(w[1] \o piece) = Len(w[1]) + Len(piece)
    BY <2>1, ConcatProperties
  <2>3. QED
    BY <1>3, <2>1, <2>2 DEF Stores
<1>12. Types'
  <2>1. ASSUME NEW x \in Addrs PROVE Len(bytes'[x]) <= ChunkSize
    <3>1. CASE x = a
      <4>1. Len(bytes[a]) \in Nat /\ Len(piece) \in Nat /\ ChunkSize \in Nat
        BY <1>9, LenProperties, ChunkedBufferAssumption
      <4>2. Len(piece) <= ChunkSize - Len(bytes[a])
        BY <1>1
      <4>3. QED
        BY <1>9, <3>1, <4>1, <4>2
    <3>2. CASE x # a
      BY <1>1, <3>2 DEF Types, Stores
    <3>3. QED
      BY <3>1, <3>2
  <2>2. QED
    BY <2>1 DEF Types, Stores
<1>13. Listed(c, w2)'
  <2>1. \A i : LinkTo(c, i)' = LinkTo(c, i)
    BY DEF LinkTo
  <2>2. \A i \in 1 .. m : next'[c[i]] = LinkTo(c, i + 1)
    BY <1>2, <1>3, <1>8
  <2>3. head_chunk' = LinkTo(c, 1) /\ tail_chunk' = IF m = 0 THEN Null ELSE c[m]
    BY <1>3, <1>8 DEF Listed
  <2>4. QED
    BY <1>1, <1>2, <1>3, <1>6, <1>7, <1>8, <1>10, <1>11, <2>1, <2>2, <2>3 DEF Listed
<1>14. QED
  BY <1>11, <1>12, <1>13 DEF Grown, NowListed

-----------------------------------------------------------------------------
(* What an iteration of read or skip does: n bytes leave the head chunk. *)
Drained(w, b) == \E c2, w2 : NowListed(c2, w2) /\ w[1] = b \o w2[1]

(* The head chunk is drained, and its successor is the head. *)
LEMMA HeadFreed ==
  ASSUME NEW c, NEW w, Types, Listed(c, w), head_chunk # Null, FreeHead(head_chunk),
         total_available' = total_available - Len(bytes[head_chunk])
  PROVE  Drained(w, bytes[head_chunk])
<1>1. PICK m, a, b : m = Len(c) /\ a = head_chunk /\ b = bytes[a]
  OBVIOUS
<1>2. Facts(c, w, m)
  BY <1>1, ListFacts
<1>3. /\ m # 0 /\ m \in Nat /\ 1 \in 1 .. m /\ a = c[1] /\ a \in Addrs /\ a \in allocated
      /\ c # <<>> /\ b \in Seq(Bytes)
  <2>1. m # 0 /\ m \in Nat /\ a = c[1]
    BY <1>1, <1>2 DEF Facts
  <2>2. 1 \in 1 .. m
    BY <2>1
  <2>3. a \in Addrs /\ a \in allocated
    BY <1>2, <2>1, <2>2 DEF Facts
  <2>4. c # <<>>
    BY <1>1, <2>1, EmptySeq
  <2>5. QED
    BY <1>1, <2>1, <2>2, <2>3, <2>4 DEF Types
<1>4. PICK c2 : c2 = Tail(c)
  OBVIOUS
<1>5. PICK w2 : w2 = [i \in 1 .. m |-> w[i + 1]]
  OBVIOUS
<1>6. /\ c2 \in Seq(Addrs) /\ Len(c2) = m - 1 /\ m - 1 \in Nat
      /\ \A i \in 1 .. m - 1 : c2[i] = c[i + 1]
  BY <1>1, <1>2, <1>3, <1>4, HeadTailProperties DEF Facts
<1>7. /\ Len(c2) + 1 = m /\ w2 \in [1 .. m -> Seq(Bytes)] /\ w2[m] = <<>>
      /\ \A i \in 1 .. m : w2[i] = w[i + 1] /\ i + 1 \in 1 .. m + 1
  <2>1. (m - 1) + 1 = m /\ m \in 1 .. m /\ \A i \in 1 .. m : i + 1 \in 1 .. m + 1
    BY <1>3
  <2>2. QED
    BY <1>2, <1>5, <1>6, <2>1 DEF Facts
<1>8. \A i \in 1 .. m - 1 : /\ i \in 1 .. m /\ i + 1 \in 1 .. m /\ i + 1 # 1
                            /\ c[i + 1] # a /\ c[i + 1] \in Addrs
  <2>1. \A i \in 1 .. m - 1 : i \in 1 .. m /\ i + 1 \in 1 .. m /\ i + 1 # 1
    BY <1>3
  <2>2. QED
    BY <1>2, <1>3, <2>1 DEF Facts
<1>9. \A i, j \in 1 .. m - 1 : c2[i] = c2[j] => i = j
  <2>1. ASSUME NEW i \in 1 .. m - 1, NEW j \in 1 .. m - 1, c2[i] = c2[j]
        PROVE  i = j
    <3>1. c[i + 1] = c[j + 1]
      BY <1>6, <2>1
    <3>2. i + 1 = j + 1
      BY <1>2, <1>8, <3>1 DEF Facts
    <3>3. QED
      BY <1>3, <3>2
  <2>2. QED
    BY <2>1
<1>10. allocated' = Range(c2)
  <2>1. DOMAIN c = 1 .. m /\ DOMAIN c2 = 1 .. m - 1
    BY <1>1, <1>2, <1>6, LenProperties DEF Facts
  <2>2. Range(c2) \subseteq allocated \ {a}
    <3>1. \A i \in 1 .. m - 1 : c2[i] \in allocated \ {a}
      BY <1>2, <1>6, <1>8 DEF Facts
    <3>2. QED
      BY <2>1, <3>1 DEF Range
  <2>3. allocated \ {a} \subseteq Range(c2)
    <3>1. \A i \in 1 .. m : i = 1 \/ (i - 1 \in 1 .. m - 1 /\ (i - 1) + 1 = i)
      BY <1>3
    <3>2. ASSUME NEW i \in 1 .. m, c[i] # a PROVE c[i] \in Range(c2)
      <4>1. i - 1 \in 1 .. m - 1 /\ c2[i - 1] = c[i]
        BY <1>3, <1>6, <3>1, <3>2
      <4>2. QED
        BY <2>1, <4>1 DEF Range
    <3>3. \A x \in allocated : \E i \in 1 .. m : x = c[i]
      BY <1>2, <2>1 DEF Facts, Range
    <3>4. QED
      BY <3>2, <3>3
  <2>4. QED
    BY <1>1, <2>2, <2>3 DEF FreeHead
<1>11. /\ \A x \in Addrs : x # a => bytes'[x] = bytes[x] /\ next'[x] = next[x]
       /\ head_chunk' = next[a] /\ tail_chunk' = IF next[a] = Null THEN Null ELSE tail_chunk
  BY <1>1 DEF FreeHead, Types
<1>12. \A i \in 1 .. m - 1 : next'[c2[i]] = LinkTo(c2, i + 1)
  <2>1. ASSUME NEW i \in 1 .. m - 1 PROVE next'[c2[i]] = LinkTo(c2, i + 1)
    <3>1. next'[c2[i]] = next[c[i + 1]]
      BY <1>6, <1>8, <1>11
    <3>2. next[c[i + 1]] = LinkTo(c, (i + 1) + 1)
      BY <1>2, <1>8 DEF Facts
    <3>3. CASE i = m - 1
      <4>1. (i + 1) + 1 > m /\ i + 1 > m - 1
        BY <1>3, <3>3
      <4>2. QED
        BY <1>1, <1>6, <3>1, <3>2, <4>1 DEF LinkTo
    <3>4. CASE i # m - 1
      <4>1. ~ ((i + 1) + 1 > m) /\ ~ (i + 1 > m - 1) /\ i + 1 \in 1 .. m - 1
        BY <1>3, <3>4
      <4>2. c2[i + 1] = c[(i + 1) + 1]
        BY <1>6, <4>1
      <4>3. QED
        BY <1>1, <1>6, <3>1, <3>2, <4>1, <4>2 DEF LinkTo
    <3>5. QED
      BY <3>3, <3>4
  <2>2. QED
    BY <2>1
<1>13. /\ head_chunk' = LinkTo(c2, 1)
       /\ tail_chunk' = IF m - 1 = 0 THEN Null ELSE c2[m - 1]
  <2>1. next[a] = LinkTo(c, 1 + 1)
    BY <1>2, <1>3 DEF Facts
  <2>2. CASE m = 1
    <3>1. LinkTo(c, 1 + 1) = Null /\ LinkTo(c2, 1) = Null
      BY <1>1, <1>6, <2>2 DEF LinkTo
    <3>2. QED
      BY <1>11, <2>1, <2>2, <3>1
  <2>3. CASE m # 1
    <3>1. /\ 1 \in 1 .. m - 1 /\ m - 1 \in 1 .. m - 1 /\ (m - 1) + 1 = m /\ m - 1 # 0
          /\ ~ (1 + 1 > m) /\ ~ (1 > m - 1)
      BY <1>3, <2>3
    <3>2. LinkTo(c, 1 + 1) = c[1 + 1] /\ LinkTo(c2, 1) = c2[1] /\ c2[1] = c[1 + 1]
      BY <1>1, <1>6, <3>1 DEF LinkTo
    <3>3. c[1 + 1] # Null
      BY <1>8, <3>1, ChunkedBufferAssumption
    <3>4. tail_chunk = c[m] /\ c2[m - 1] = c[m]
      <4>1. c2[m - 1] = c[(m - 1) + 1]
        BY <1>6, <3>1
      <4>2. tail_chunk = c[m]
        BY <1>2, <1>3 DEF Facts
      <4>3. QED
        BY <3>1, <4>1, <4>2
    <3>5. QED
      BY <1>11, <2>1, <3>1, <3>2, <3>3, <3>4
  <2>4. QED
    BY <2>2, <2>3
<1>14. ASSUME NEW i \in 1 .. m - 1
       PROVE  /\ w2[i] = bytes'[c2[i]] \o w2[i + 1] /\ bytes'[c2[i]] # <<>>
              /\ i \notin {1, m - 1} => Len(bytes'[c2[i]]) = ChunkSize
  <2>1. /\ i \in 1 .. m /\ i + 1 \in 1 .. m /\ (i + 1 = m => i = m - 1)
    BY <1>3
  <2>2. bytes'[c2[i]] = bytes[c[i + 1]]
    BY <1>6, <1>8, <1>11
  <2>3. w2[i] = w[i + 1] /\ w2[i + 1] = w[(i + 1) + 1]
    BY <1>7, <2>1
  <2>4. w[i + 1] = bytes[c[i + 1]] \o w[(i + 1) + 1] /\ bytes[c[i + 1]] # <<>>
    BY <1>2, <2>1 DEF Facts
  <2>5. i \notin {1, m - 1} => Len(bytes[c[i + 1]]) = ChunkSize
    BY <1>2, <1>8, <2>1 DEF Facts
  <2>6. QED
    BY <2>2, <2>3, <2>4, <2>5
<1>15. total_available' = Len(w2[1]) /\ w[1] = b \o w2[1]
  <2>1. w2[1] \in Seq(Bytes) /\ w2[1] = w[1 + 1]
    BY <1>3, <1>7
  <2>2. w[1] = b \o w2[1]
    BY <1>1, <1>2, <1>3, <2>1 DEF Facts
  <2>3. Len(b \o w2[1]) = Len(b) + Len(w2[1]) /\ Len(b) \in Nat /\ Len(w2[1]) \in Nat
    BY <1>3, <2>1, ConcatProperties, LenProperties
  <2>4. total_available = Len(w[1]) /\ total_available' = total_available - Len(b)
    BY <1>1, <1>2 DEF Facts
  <2>5. total_available' = (Len(b) + Len(w2[1])) - Len(b)
    BY <2>2, <2>3, <2>4
  <2>6. \A x, y \in Nat : (x + y) - x = y
    OBVIOUS
  <2>7. QED
    BY <2>2, <2>3, <2>5, <2>6
<1>16. Types'
  <2>1. /\ bytes' = [bytes EXCEPT ![a] = <<>>] /\ next' = [next EXCEPT ![a] = Null]
    BY <1>1 DEF FreeHead
  <2>2. ASSUME NEW x \in Addrs PROVE Len(bytes'[x]) <= ChunkSize
    BY <2>1, EmptySeq, ChunkedBufferAssumption DEF Types
  <2>3. QED
    BY <2>1, <2>2, EmptySeq DEF Types
<1>17. Listed(c2, w2)'
  <2>1. \A i : LinkTo(c2, i)' = LinkTo(c2, i)
    BY DEF LinkTo
  <2>2. QED
    BY <1>6, <1>7, <1>9, <1>10, <1>12, <1>13, <1>14, <1>15, <2>1 DEF Listed
<1>18. QED
  BY <1>1, <1>15, <1>16, <1>17 DEF Drained, NowListed

(* The head chunk keeps a part of its bytes. *)
LEMMA HeadTaken ==
  ASSUME NEW c, NEW w, Types, Listed(c, w), head_chunk # Null,
         NEW n \in 1 .. Len(bytes[head_chunk]) - 1, Take(head_chunk, n),
         total_available' = total_available - n
  PROVE  Drained(w, FirstOf(bytes[head_chunk], n))
<1>1. PICK m, a, b : m = Len(c) /\ a = head_chunk /\ b = bytes[a]
  OBVIOUS
<1>2. Facts(c, w, m)
  BY <1>1, ListFacts
<1>3. /\ m # 0 /\ m \in Nat /\ 1 \in 1 .. m /\ a = c[1] /\ a \in Addrs
      /\ b \in Seq(Bytes) /\ \A i \in 1 .. m : i # 1 => c[i] # a /\ c[i] \in Addrs
  <2>1. m # 0 /\ m \in Nat /\ a = c[1]
    BY <1>1, <1>2 DEF Facts
  <2>2. 1 \in 1 .. m
    BY <2>1
  <2>3. a \in Addrs /\ \A i \in 1 .. m : i # 1 => c[i] # a /\ c[i] \in Addrs
    BY <1>2, <2>1, <2>2 DEF Facts
  <2>4. QED
    BY <1>1, <2>1, <2>2, <2>3 DEF Types
<1>4. /\ CutAt(b, n) /\ n \in 0 .. Len(b) /\ Len(b) \in Nat /\ n \in Nat
      /\ 0 < Len(b) - n /\ Len(b) - n <= Len(b)
  <2>1. Len(b) \in Nat /\ n \in 1 .. Len(b) - 1
    BY <1>1, <1>3, LenProperties
  <2>2. /\ n \in 0 .. Len(b) /\ n \in Nat
        /\ 0 < Len(b) - n /\ Len(b) - n <= Len(b)
    BY <2>1
  <2>3. QED
    BY <1>3, <2>1, <2>2, Cut
<1>5. PICK f, r : f = FirstOf(b, n) /\ r = AllBut(b, n)
  OBVIOUS
<1>6. /\ f \in Seq(Bytes) /\ r \in Seq(Bytes) /\ b = f \o r
      /\ Len(r) = Len(b) - n /\ Len(f) = n /\ r # <<>>
  <2>1. /\ f \in Seq(Bytes) /\ r \in Seq(Bytes) /\ b = f \o r
        /\ Len(r) = Len(b) - n /\ Len(f) = n
    BY <1>4, <1>5 DEF CutAt
  <2>2. QED
    BY <1>4, <2>1, EmptySeq
<1>7. /\ bytes' = [bytes EXCEPT ![a] = r]
      /\ UNCHANGED <<allocated, next, head_chunk, tail_chunk>>
  BY <1>1, <1>3, <1>5 DEF Take, Types
<1>8. PICK w2 : w2 = [i \in 1 .. m + 1 |-> IF i = 1 THEN r \o w[2] ELSE w[i]]
  OBVIOUS
<1>9. /\ 1 \in 1 .. m + 1 /\ 2 \in 1 .. m + 1 /\ m + 1 \in 1 .. m + 1 /\ m + 1 # 1
      /\ 1 + 1 = 2 /\ \A i \in 1 .. m : i \in 1 .. m + 1 /\ i + 1 \in 1 .. m + 1 /\ i + 1 # 1
  BY <1>3
<1>10. /\ w \in [1 .. m + 1 -> Seq(Bytes)] /\ w[2] \in Seq(Bytes) /\ w[m + 1] = <<>>
       /\ w[1] = b \o w[2] /\ total_available = Len(w[1])
  BY <1>1, <1>2, <1>3, <1>9 DEF Facts
<1>11. /\ w2 \in [1 .. m + 1 -> Seq(Bytes)] /\ w2[m + 1] = <<>>
       /\ w2[1] = r \o w[2] /\ \A i \in 1 .. m + 1 : i # 1 => w2[i] = w[i]
  <2>1. r \o w[2] \in Seq(Bytes)
    BY <1>6, <1>10, ConcatProperties
  <2>2. QED
    BY <1>8, <1>9, <1>10, <2>1
<1>12. /\ bytes'[a] = r /\ \A i \in 1 .. m : i # 1 => bytes'[c[i]] = bytes[c[i]]
  BY <1>3, <1>7 DEF Types
<1>13. ASSUME NEW i \in 1 .. m
       PROVE  /\ w2[i] = bytes'[c[i]] \o w2[i + 1] /\ bytes'[c[i]] # <<>>
              /\ i \notin {1, m} => Len(bytes'[c[i]]) = ChunkSize
  <2>1. CASE i = 1
    BY <1>3, <1>6, <1>9, <1>11, <1>12, <2>1
  <2>2. CASE i # 1
    <3>1. /\ w[i] = bytes[c[i]] \o w[i + 1] /\ bytes[c[i]] # <<>>
          /\ i \notin {1, m} => Len(bytes[c[i]]) = ChunkSize
      BY <1>2 DEF Facts
    <3>2. QED
      BY <1>9, <1>11, <1>12, <2>2, <3>1
  <2>3. QED
    BY <2>1, <2>2
<1>14. w[1] = f \o w2[1]
  <2>1. PICK v : v = w[2]
    OBVIOUS
  <2>2. f \in Seq(Bytes) /\ r \in Seq(Bytes) /\ v \in Seq(Bytes)
    BY <1>6, <1>10, <2>1
  <2>3. (f \o r) \o v = f \o (r \o v)
    BY <2>2, ConcatAssociative
  <2>4. QED
    BY <1>6, <1>10, <1>11, <2>1, <2>3
<1>15. total_available' = Len(w2[1])
  <2>1. w2[1] \in Seq(Bytes)
    BY <1>9, <1>11
  <2>2. Len(f \o w2[1]) = Len(f) + Len(w2[1]) /\ Len(w2[1]) \in Nat
    BY <1>6, <2>1, ConcatProperties, LenProperties
  <2>3. QED
    BY <1>4, <1>6, <1>10, <1>14, <2>2
<1>16. Types'
  <2>1. ASSUME NEW x \in Addrs PROVE Len(bytes'[x]) <= ChunkSize
    <3>1. CASE x = a
      <4>1. Len(b) <= ChunkSize /\ Len(bytes'[x]) = Len(b) - n
        BY <1>1, <1>3, <1>6, <1>12, <3>1 DEF Types
      <4>2. QED
        BY <1>4, <4>1, ChunkedBufferAssumption
    <3>2. CASE x # a
      BY <1>7, <3>2 DEF Types
    <3>3. QED
      BY <3>1, <3>2
  <2>2. QED
    BY <1>6, <1>7, <2>1 DEF Types
<1>17. Listed(c, w2)'
  <2>1. \A i : LinkTo(c, i)' = LinkTo(c, i)
    BY DEF LinkTo
  <2>2. head_chunk = LinkTo(c, 1)
    BY DEF Listed
  <2>3. QED
    BY <1>1, <1>2, <1>7, <1>11, <1>13, <1>15, <2>1, <2>2 DEF Listed, Facts
<1>18. QED
  BY <1>1, <1>5, <1>14, <1>16, <1>17 DEF Drained, NowListed

(* clear frees what the links lead to, which is all. *)
LEMMA AllFreed ==
  ASSUME NEW c, NEW w, Types, Listed(c, w), FreeAll
  PROVE  \E w2 : NowListed(<<>>, w2) /\ w2[1] = <<>>
<1>1. Range(Chain) = allocated
  BY ListedIsChain DEF ChainIs, Listed
<1>2. PICK c2, w2 : c2 = <<>> /\ w2 = [i \in 1 .. 1 |-> <<>>]
  OBVIOUS
<1>3. c2 \in Seq(Addrs) /\ Len(c2) = 0 /\ <<>> \in Seq(Bytes)
  BY <1>2, EmptySeq
<1>4. /\ w2 \in [1 .. Len(c2) + 1 -> Seq(Bytes)] /\ w2[Len(c2) + 1] = <<>>
      /\ w2[1] = <<>> /\ Len(w2[1]) = 0
  BY <1>2, <1>3, EmptySeq
<1>5. allocated' = Range(c2) /\ Range(c2) = {}
  <2>1. DOMAIN c2 = {}
    BY <1>3, LenProperties
  <2>2. QED
    BY <1>1, <2>1 DEF FreeAll, Range
<1>6. LinkTo(c2, 1) = Null /\ LinkTo(c2, 1)' = Null
  BY <1>3 DEF LinkTo
<1>7. Types'
  <2>1. \A x \in Addrs : /\ bytes'[x] = IF x \in Range(Chain) THEN <<>> ELSE bytes[x]
                         /\ next'[x] = IF x \in Range(Chain) THEN Null ELSE next[x]
    BY DEF FreeAll
  <2>2. \A x \in Addrs : bytes'[x] \in Seq(Bytes) /\ next'[x] \in Addrs \cup {Null}
    BY <1>3, <2>1 DEF Types
  <2>3. \A x \in Addrs : Len(bytes'[x]) <= ChunkSize
    BY <2>1, EmptySeq, ChunkedBufferAssumption DEF Types
  <2>4. QED
    BY <2>2, <2>3 DEF Types, FreeAll
<1>8. Listed(c2, w2)'
  BY <1>3, <1>4, <1>5, <1>6 DEF Listed, FreeAll
<1>9. QED
  BY <1>2, <1>4, <1>7, <1>8 DEF NowListed

-----------------------------------------------------------------------------
(***************************************************************************)
(* The invariant: a list, and how far the call that holds the mutex has    *)
(* come with the queue q it was given.                                     *)
(***************************************************************************)
Op == [kind : {"none", "write", "read", "peek", "skip"},
       src : Inputs \cup {<<>>}, left : Nat, at : Addrs \cup {Null},
       out : Seq(Bytes)]

(* A peek has shown the beginning of the queue and stands before the rest. *)
Shown(c, w, q) ==
  \E rest \in Seq(Bytes) :
    /\ q = op.out \o rest
    /\ op.left > 0 => \E i \in 1 .. Len(c) + 1 : op.at = LinkTo(c, i) /\ rest = w[i]

InCall(c, w, q) ==
  /\ op.kind = "none" => q = w[1]
  /\ op.kind = "write" =>
       /\ op.src \in Inputs /\ op.left <= Len(op.src)
       /\ total_available + op.left <= MaxBytes
       /\ w[1] = q \o FirstOf(op.src, Len(op.src) - op.left)
  /\ op.kind \in {"read", "skip"} =>
       q = op.out \o w[1] /\ (op.left > 0 => op.at = head_chunk)
  /\ op.kind = "peek" => q = w[1] /\ Shown(c, w, q)
  /\ op.kind \in {"read", "skip", "peek"} =>
       \E len \in Lengths : Len(op.out) + op.left = Least(len, Len(q))

Holds(c, w, q) ==
  /\ Types /\ Listed(c, w)
  /\ op \in Op /\ freed \in BOOLEAN /\ q \in Seq(Bytes) /\ total_available <= MaxBytes
  /\ freed => op.kind = "none" /\ w[1] = <<>>
  /\ InCall(c, w, q)

Inv == \E c, w, q : Holds(c, w, q)

(* What is put before a sequence is found before it. *)
Joined(s, t) == FirstOf(s \o t, Len(s)) = s /\ AllBut(s \o t, Len(s)) = t

LEMMA Join ==
  ASSUME NEW s \in Seq(Bytes), NEW t \in Seq(Bytes)
  PROVE  Joined(s, t)
<1>1. PICK u, m, n : u = s \o t /\ m = Len(s) /\ n = Len(t)
  OBVIOUS
<1>2. /\ u \in Seq(Bytes) /\ Len(u) = m + n /\ m \in Nat /\ n \in Nat
      /\ \A i \in 1 .. m + n : u[i] = IF i <= m THEN s[i] ELSE t[i - m]
  BY <1>1, ConcatProperties, LenProperties
<1>3. CutAt(u, m)
  <2>1. m \in 0 .. Len(u)
    BY <1>2
  <2>2. QED
    BY <1>2, <2>1, Cut
<1>4. FirstOf(u, m) = s
  <2>1. PICK f : f = FirstOf(u, m)
    OBVIOUS
  <2>2. f \in Seq(Bytes) /\ Len(f) = m
    BY <1>3, <2>1 DEF CutAt
  <2>3. \A i \in 1 .. m : i \in 1 .. m + n /\ i <= m
    BY <1>2
  <2>4. \A i \in 1 .. m : f[i] = u[i]
    <3>1. /\ 1 \in Int /\ m \in Int /\ \A i \in 1 .. m : u[i] \in Bytes
          /\ m - 1 + 1 = m /\ \A i \in 1 .. m : 1 + i - 1 = i
      BY <1>2, <2>3, ElementOfSeq
    <3>2. \A i \in 1 .. m - 1 + 1 : SubSeq(u, 1, m)[i] = u[1 + i - 1]
      BY <3>1, SubSeqProperties
    <3>3. QED
      BY <2>1, <3>1, <3>2 DEF FirstOf
  <2>5. \A i \in 1 .. m : f[i] = s[i]
    BY <1>2, <2>3, <2>4
  <2>6. f = s
    BY <1>1, <2>2, <2>5, SeqEqual
  <2>7. QED
    BY <2>1, <2>6
<1>5. AllBut(u, m) = t
  <2>1. PICK r : r = AllBut(u, m)
    OBVIOUS
  <2>2. u = s \o r /\ r \in Seq(Bytes)
    BY <1>3, <1>4, <2>1 DEF CutAt
  <2>3. QED
    BY <1>1, <2>1, <2>2, ConcatSimplifications
<1>6. QED
  BY <1>1, <1>4, <1>5 DEF Joined

(* The queue that the calls work on is what the refinement takes it for. *)
Represents(w, q) ==
  /\ Queue = q /\ Contents = w[1] /\ w[1] \in Seq(Bytes) /\ total_available = Len(w[1])

LEMMA QueueIs ==
  ASSUME NEW c, NEW w, NEW q, Holds(c, w, q)
  PROVE  Represents(w, q)
<1>1. Contents = w[1]
  BY ListedIsChain DEF Holds, ChainIs
<1>2. w[1] \in Seq(Bytes) /\ total_available = Len(w[1])
  <2>1. Len(c) \in Nat
    BY LenProperties DEF Holds, Listed
  <2>2. 1 \in 1 .. Len(c) + 1
    BY <2>1
  <2>3. QED
    BY <2>2 DEF Holds, Listed
<1>3. CASE freed
  BY <1>1, <1>2, <1>3 DEF Holds, InCall, Queue, Represents
<1>4. CASE ~freed /\ op.kind = "write"
  <2>1. PICK n, f : n = Len(op.src) - op.left /\ f = FirstOf(op.src, n)
    OBVIOUS
  <2>2. w[1] = q \o f /\ q \in Seq(Bytes)
    BY <1>4, <2>1 DEF Holds, InCall
  <2>3. f \in Seq(Bytes) /\ Len(f) = n
    <3>1. op.src \in Seq(Bytes) /\ op.left \in Nat /\ op.left <= Len(op.src)
      BY <1>4, ChunkedBufferAssumption DEF Holds, InCall, Op
    <3>2. n \in 0 .. Len(op.src)
      BY <2>1, <3>1, LenProperties
    <3>3. QED
      BY <2>1, <3>1, <3>2, Cut DEF CutAt
  <2>4. Len(w[1]) - n = Len(q)
    <3>1. Len(q \o f) = Len(q) + Len(f) /\ Len(q) \in Nat /\ Len(f) \in Nat
      BY <2>2, <2>3, ConcatProperties, LenProperties
    <3>2. \A x, y \in Nat : (x + y) - y = x
      OBVIOUS
    <3>3. QED
      BY <2>2, <2>3, <3>1, <3>2
  <2>5. FirstOf(w[1], Len(q)) = q
    BY <2>2, <2>3, Join DEF Joined
  <2>6. Queue = FirstOf(Contents, Len(Contents) - n)
    BY <1>4, <2>1 DEF Queue
  <2>7. QED
    BY <1>1, <1>2, <2>4, <2>5, <2>6 DEF Represents
<1>5. CASE ~freed /\ op.kind \in {"read", "skip"}
  BY <1>1, <1>2, <1>5 DEF Holds, InCall, Queue, Represents
<1>6. CASE ~freed /\ op.kind \in {"none", "peek"}
  BY <1>1, <1>2, <1>6 DEF Holds, InCall, Queue, Represents
<1>7. QED
  BY <1>3, <1>4, <1>5, <1>6 DEF Holds, Op

AlwaysRepresents == \A c, w, q : Holds(c, w, q) => Represents(w, q)

LEMMA Representing == AlwaysRepresents
BY QueueIs DEF AlwaysRepresents

LEMMA RepresentingNow == AlwaysRepresents'
BY Representing, PTL

-----------------------------------------------------------------------------
(***************************************************************************)
(* The steps: each keeps the invariant, and is a step of the byte queue or *)
(* none.                                                                   *)
(***************************************************************************)
Carried == Inv' /\ [Fifo!Next]_Fifo!vars

LEMMA SameList ==
  ASSUME NEW c, NEW w, Types, Listed(c, w), UNCHANGED <<list, total_available>>
  PROVE  NowListed(c, w)
BY DEF NowListed, Types, Listed, LinkTo, list

(* An iteration in the middle of a call leaves the queue alone. *)
LEMMA Quietly ==
  ASSUME NEW c, NEW w, NEW q, NEW c2, NEW w2,
         Holds(c, w, q), Holds(c2, w2, q)', UNCHANGED <<freed, call>>
  PROVE  Carried
<1>1. Queue = q
  BY QueueIs DEF Represents
<1>2. Queue' = q
  BY RepresentingNow DEF AlwaysRepresents, Represents
<1>3. QED
  BY <1>1, <1>2 DEF Carried, Inv, Fifo!vars

(* Nothing but the answer changes. *)
LEMMA Unmoved ==
  ASSUME NEW c, NEW w, NEW q, Holds(c, w, q),
         UNCHANGED <<list, total_available, freed, op>>
  PROVE  Inv' /\ Queue = q /\ Queue' = q
<1>1. NowListed(c, w)
  BY SameList DEF Holds
<1>2. Holds(c, w, q)'
  BY <1>1 DEF Holds, NowListed, InCall, Shown, LinkTo, list
<1>3. Queue = q
  BY QueueIs DEF Represents
<1>4. Queue' = q
  BY <1>2, RepresentingNow DEF AlwaysRepresents, Represents
<1>5. QED
  BY <1>2, <1>3, <1>4 DEF Inv

LEMMA WriteBeginsStep ==
  ASSUME NEW c, NEW w, NEW q, Holds(c, w, q), NEW src \in Inputs, WriteBegins(src)
  PROVE  Carried
<1>1. src \in Seq(Bytes) /\ Len(src) \in Nat
  BY ChunkedBufferAssumption, LenProperties
<1>2. CASE freed
  <2>1. /\ call' = <<"write", src, 0>>
        /\ UNCHANGED <<list, total_available, freed, op>>
    BY <1>2 DEF WriteBegins
  <2>2. Inv' /\ Queue = q /\ Queue' = q
    BY <2>1, Unmoved
  <2>3. q = <<>>
    BY <1>2 DEF Holds, InCall
  <2>4. SubSeq(src, 1, 0) = <<>>
    BY SubSeqEmpty
  <2>5. <<>> \o <<>> = <<>>
    BY <1>1, EmptySeq, ConcatEmptySeq
  <2>6. Fifo!Write(src)
    BY <1>1, <1>2, <2>1, <2>2, <2>3, <2>4, <2>5 DEF Fifo!Write, Fifo!Prefix
  <2>7. QED
    BY <2>2, <2>6 DEF Carried, Fifo!Next
<1>3. CASE ~freed
  <2>1. /\ op.kind = "none" /\ total_available + Len(src) <= MaxBytes
        /\ op' = [NoCall EXCEPT !.kind = "write", !.src = src, !.left = Len(src)]
        /\ UNCHANGED <<call, list, total_available, freed>>
    BY <1>3 DEF WriteBegins
  <2>2. /\ op'.kind = "write" /\ op'.src = src /\ op'.left = Len(src) /\ op' \in Op
    BY <1>1, <2>1, EmptySeq DEF NoCall, Op
  <2>3. NowListed(c, w)
    BY <2>1, SameList DEF Holds
  <2>4. w[1] = q /\ q \o <<>> = q /\ FirstOf(src, Len(src) - Len(src)) = <<>>
    <3>1. Len(src) - Len(src) = 0
      BY <1>1
    <3>2. QED
      BY <2>1, <3>1, ConcatEmptySeq, SubSeqEmpty DEF Holds, InCall, FirstOf
  <2>5. total_available' + Len(src) <= MaxBytes
    BY <2>1
  <2>6. Holds(c, w, q)'
    BY <1>1, <1>3, <2>1, <2>2, <2>3, <2>4, <2>5 DEF Holds, NowListed, InCall, FirstOf
  <2>7. QED
    BY <2>1, <2>6, Quietly
<1>4. QED
  BY <1>2, <1>3

LEMMA WriteChunkStep ==
  ASSUME NEW c, NEW w, NEW q, Holds(c, w, q), WriteChunk
  PROVE  Carried
<1>1. PICK src, left, n, done :
        /\ src = op.src /\ left = op.left
        /\ n = Least(left, Space) /\ done = Len(src) - left
  OBVIOUS
<1>2. PICK piece : piece = SubSeq(src, done + 1, done + n)
  OBVIOUS
<1>3. /\ op.kind = "write" /\ op \in Op /\ left > 0 /\ left \in Nat /\ src \in Inputs
      /\ src \in Seq(Bytes) /\ left <= Len(src) /\ Len(src) \in Nat
      /\ ~ freed
  <2>1. op.kind = "write" /\ op \in Op /\ left > 0 /\ src \in Inputs /\ left <= Len(src) /\ ~ freed
    BY <1>1 DEF WriteChunk, Holds, InCall
  <2>2. left \in Nat
    BY <1>1, <2>1 DEF Op
  <2>3. QED
    BY <2>1, <2>2, ChunkedBufferAssumption, LenProperties
<1>4. /\ NeedsChunk => Space = ChunkSize
      /\ ~NeedsChunk => Space = ChunkSize - Len(bytes[tail_chunk]) /\ tail_chunk \in Addrs
      /\ Space \in Nat \ {0}
  <2>1. CASE NeedsChunk
    BY <2>1, ChunkedBufferAssumption DEF Space
  <2>2. CASE ~NeedsChunk
    <3>1. tail_chunk # Null /\ Len(bytes[tail_chunk]) # ChunkSize
      BY <2>2 DEF NeedsChunk
    <3>2. tail_chunk \in Addrs
      <4>1. PICK m : m = Len(c)
        OBVIOUS
      <4>2. Facts(c, w, m)
        BY <4>1, ListFacts DEF Holds
      <4>3. m \in 1 .. m
        BY <3>1, <4>2 DEF Facts
      <4>4. QED
        BY <3>1, <4>2, <4>3 DEF Facts
    <3>3. Len(bytes[tail_chunk]) \in Nat /\ Len(bytes[tail_chunk]) <= ChunkSize
      BY <3>2, LenProperties DEF Holds, Types
    <3>4. QED
      BY <2>2, <3>1, <3>2, <3>3, ChunkedBufferAssumption DEF Space
  <2>3. QED
    BY <2>1, <2>2
<1>5. /\ n \in Nat /\ 0 < n /\ n <= left /\ n <= Space /\ left - n \in Nat
      /\ done \in Nat /\ done + n <= Len(src) /\ Len(src) - (left - n) = done + n
      /\ left - n <= Len(src)
  BY <1>1, <1>3, <1>4 DEF Least
<1>6. /\ piece \in Seq(Bytes) /\ Len(piece) = n
      /\ FirstOf(src, done) \o piece = FirstOf(src, done + n)
  <2>1. \A i \in done + 1 .. done + n : src[i] \in Bytes
    <3>1. \A i \in done + 1 .. done + n : i \in 1 .. Len(src)
      BY <1>3, <1>5
    <3>2. QED
      BY <1>3, <3>1, ElementOfSeq
  <2>2. done + 1 \in Int /\ done + n \in Int /\ done + 1 <= done + n
        /\ (done + n) - (done + 1) + 1 = n
    BY <1>5
  <2>3. piece \in Seq(Bytes) /\ Len(piece) = n
    BY <1>2, <2>1, <2>2, SubSeqProperties
  <2>4. 1 \in 1 .. Len(src) + 1 /\ done \in 1 - 1 .. Len(src) /\ done + n \in done .. Len(src)
    BY <1>3, <1>5
  <2>5. SubSeq(src, 1, done) \o SubSeq(src, done + 1, done + n) = SubSeq(src, 1, done + n)
    BY <1>3, <2>4, ConcatAdjacentSubSeq
  <2>6. QED
    BY <1>2, <2>3, <2>5 DEF FirstOf
<1>7. PICK a \in IF NeedsChunk THEN Addrs \ allocated ELSE {tail_chunk} : Stores(a, piece)
  <2>1. PICK a \in IF NeedsChunk THEN Addrs \ allocated ELSE {tail_chunk} :
          /\ allocated' = allocated \cup {a}
          /\ bytes' = [bytes EXCEPT ![a] = (IF NeedsChunk THEN <<>> ELSE @) \o piece]
          /\ next' = IF NeedsChunk
                     THEN [x \in Addrs |-> IF x = a THEN Null
                                           ELSE IF x = tail_chunk THEN a ELSE next[x]]
                     ELSE next
          /\ head_chunk' = IF head_chunk = Null THEN a ELSE head_chunk
          /\ tail_chunk' = a
    BY <1>1, <1>2 DEF WriteChunk
  <2>2. a \in Addrs
    BY <1>4
  <2>3. PICK b : b = IF NeedsChunk THEN <<>> ELSE bytes[a]
    OBVIOUS
  <2>4. b \o piece \in Seq(Bytes)
    <3>1. b \in Seq(Bytes)
      BY <2>2, <2>3, EmptySeq DEF Holds, Types
    <3>2. QED
      BY <1>6, <3>1, ConcatProperties
  <2>5. bytes' = [bytes EXCEPT ![a] = b \o piece]
    BY <2>1, <2>2, <2>3 DEF Holds, Types
  <2>6. /\ bytes' \in [Addrs -> Seq(Bytes)] /\ bytes'[a] = b \o piece
        /\ \A x \in Addrs \ {a} : bytes'[x] = bytes[x]
    BY <2>2, <2>4, <2>5 DEF Holds, Types
  <2>7. /\ next' \in [Addrs -> Addrs \cup {Null}]
        /\ \A x \in Addrs : next'[x] = IF ~NeedsChunk THEN next[x]
                                       ELSE IF x = a THEN Null
                                       ELSE IF x = tail_chunk THEN a ELSE next[x]
    <3>1. CASE NeedsChunk
      BY <2>1, <2>2, <3>1 DEF Holds, Types
    <3>2. CASE ~NeedsChunk
      BY <2>1, <3>2 DEF Holds, Types
    <3>3. QED
      BY <3>1, <3>2
  <2>8. total_available' = total_available + Len(piece)
    BY <1>1, <1>6 DEF WriteChunk
  <2>9. QED
    BY <2>1, <2>3, <2>6, <2>7, <2>8 DEF Stores
<1>8. Grown(w, piece)
  <2>1. CASE NeedsChunk
    <3>1. a \in Addrs \ allocated /\ Len(piece) > 0 /\ Len(piece) <= ChunkSize
      BY <1>4, <1>5, <1>6, <2>1
    <3>2. QED
      BY <1>6, <1>7, <2>1, <3>1, NewTail DEF Holds
  <2>2. CASE ~NeedsChunk
    <3>1. a = tail_chunk /\ Len(piece) <= ChunkSize - Len(bytes[tail_chunk])
      BY <1>4, <1>5, <1>6, <2>2
    <3>2. QED
      BY <1>6, <1>7, <2>2, <3>1, OldTail DEF Holds
  <2>3. QED
    BY <2>1, <2>2
<1>9. PICK c2, w2 : NowListed(c2, w2) /\ w2[1] = w[1] \o piece
  BY <1>8 DEF Grown
<1>10. w2[1] = q \o FirstOf(src, done + n)
  <2>1. PICK f : f = FirstOf(src, done)
    OBVIOUS
  <2>2. w[1] = q \o f
    BY <1>1, <1>3, <2>1 DEF Holds, InCall
  <2>3. f \in Seq(Bytes) /\ q \in Seq(Bytes)
    <3>1. done \in 0 .. Len(src)
      BY <1>3, <1>5
    <3>2. QED
      BY <1>3, <2>1, <3>1, Cut DEF CutAt, Holds
  <2>4. (q \o f) \o piece = q \o (f \o piece)
    BY <1>6, <2>3, ConcatAssociative
  <2>5. QED
    BY <1>6, <1>9, <2>1, <2>2, <2>4
<1>11. /\ op' = [op EXCEPT !.left = left - n] /\ total_available' = total_available + n
       /\ UNCHANGED <<freed, call>>
  BY <1>1, <1>3 DEF WriteChunk, Op
<1>12. op'.kind = "write" /\ op'.src = src /\ op'.left = left - n /\ op' \in Op
  BY <1>1, <1>3, <1>5, <1>11 DEF Op
<1>13. total_available' + (left - n) <= MaxBytes /\ total_available' <= MaxBytes
  <2>1. total_available + left <= MaxBytes
    BY <1>1, <1>3 DEF Holds, InCall
  <2>2. total_available \in Nat
    BY QueueIs, LenProperties DEF Represents
  <2>3. QED
    BY <1>3, <1>5, <1>11, <2>1, <2>2, ChunkedBufferAssumption
<1>14. w2[1] = q \o FirstOf(src, Len(src) - (left - n))
  BY <1>5, <1>10
<1>15. Holds(c2, w2, q)'
  <2>1. InCall(c2, w2, q)'
    BY <1>3, <1>5, <1>12, <1>13, <1>14 DEF InCall, FirstOf
  <2>2. QED
    BY <1>3, <1>9, <1>11, <1>12, <1>13, <2>1 DEF Holds, NowListed
<1>16. QED
  BY <1>11, <1>15, Quietly

LEMMA WriteEndsStep ==
  ASSUME NEW c, NEW w, NEW q, Holds(c, w, q), WriteEnds
  PROVE  Carried
<1>1. PICK src : src = op.src
  OBVIOUS
<1>2. /\ op.kind = "write" /\ op.left = 0 /\ call' = <<"write", src, Len(src)>>
      /\ op' = NoCall /\ UNCHANGED <<list, total_available, freed>>
  BY <1>1 DEF WriteEnds
<1>3. src \in Inputs /\ src \in Seq(Bytes) /\ Len(src) \in Nat /\ ~freed
  BY <1>1, <1>2, ChunkedBufferAssumption, LenProperties DEF Holds, InCall
<1>4. w[1] = q \o src /\ q \in Seq(Bytes)
  <2>1. w[1] = q \o FirstOf(src, Len(src) - 0) /\ q \in Seq(Bytes)
    BY <1>1, <1>2 DEF Holds, InCall
  <2>2. Len(src) - 0 = Len(src) /\ FirstOf(src, Len(src)) = src
    BY <1>3, SubSeqFull DEF FirstOf
  <2>3. QED
    BY <2>1, <2>2
<1>5. Represents(w, q)
  BY QueueIs
<1>6. Holds(c, w, w[1])'
  <2>1. NowListed(c, w)
    BY <1>2, SameList DEF Holds
  <2>2. NoCall \in Op /\ NoCall.kind = "none"
    BY EmptySeq DEF NoCall, Op
  <2>3. QED
    BY <1>2, <1>3, <1>5, <2>1, <2>2 DEF Holds, NowListed, InCall, Represents
<1>7. Queue' = q \o src /\ Queue = q
  BY <1>4, <1>5, <1>6, RepresentingNow DEF AlwaysRepresents, Represents
<1>8. Len(src) <= MaxBytes - Len(q)
  <2>1. Len(q \o src) = Len(q) + Len(src) /\ Len(q) \in Nat
    BY <1>3, <1>4, ConcatProperties, LenProperties
  <2>2. Len(q) + Len(src) <= MaxBytes
    BY <1>4, <1>5, <2>1 DEF Holds, Represents
  <2>3. QED
    BY <1>3, <2>1, <2>2, ChunkedBufferAssumption
<1>9. Fifo!Write(src)
  <2>1. Fifo!Least(Len(src), MaxBytes - Len(q)) = Len(src)
    BY <1>8 DEF Fifo!Least
  <2>2. Fifo!Prefix(src, Len(src)) = src
    BY <1>3, SubSeqFull DEF Fifo!Prefix
  <2>3. Len(src) \in 0 .. Len(src) /\ Len(src) <= Len(src)
    BY <1>3
  <2>4. QED
    BY <1>2, <1>3, <1>7, <2>1, <2>2, <2>3 DEF Fifo!Write
<1>10. QED
  BY <1>3, <1>6, <1>9 DEF Carried, Inv, Fifo!Next

(* A read, a peek or a skip that finds nothing *)
LEMMA NothingFound ==
  ASSUME NEW q \in Seq(Bytes), NEW len \in Lengths, Least(len, Len(q)) = 0,
         Queue = q, Queue' = q, freed' = freed,
         NEW kind \in {"read", "peek", "skip"}, call' = <<kind, <<>>, 0>>
  PROVE  Fifo!Read(len) \/ Fifo!Peek(len) \/ Fifo!Skip(len)
<1>1. Fifo!Least(len, Len(q)) = 0
  BY DEF Fifo!Least, Least
<1>2. SubSeq(q, 1, 0) = <<>> /\ SubSeq(q, 0 + 1, Len(q)) = q
  BY SubSeqEmpty, SubSeqFull
<1>3. 0 \in 0 .. 0
  OBVIOUS
<1>4. CASE kind = "read"
  BY <1>1, <1>2, <1>4 DEF Fifo!Read, Fifo!Prefix, Fifo!Rest
<1>5. CASE kind = "peek"
  BY <1>1, <1>2, <1>3, <1>5 DEF Fifo!Peek, Fifo!Prefix
<1>6. CASE kind = "skip"
  BY <1>1, <1>2, <1>3, <1>6 DEF Fifo!Skip, Fifo!Rest
<1>7. QED
  BY <1>4, <1>5, <1>6

LEMMA ReadBeginsStep ==
  ASSUME NEW c, NEW w, NEW q, Holds(c, w, q),
         NEW kind \in {"read", "peek", "skip"}, NEW len \in Lengths,
         ReadBegins(kind, len)
  PROVE  Carried
<1>1. /\ op.kind = "none" /\ q = w[1] /\ q \in Seq(Bytes) /\ freed \in BOOLEAN
      /\ (freed => q = <<>>) /\ total_available = Len(q) /\ Len(q) \in Nat /\ len \in Nat
  <2>1. op.kind = "none"
    BY DEF ReadBegins
  <2>2. q = w[1] /\ q \in Seq(Bytes) /\ freed \in BOOLEAN /\ (freed => w[1] = <<>>)
    BY <2>1 DEF Holds, InCall
  <2>3. total_available = Len(w[1])
    BY QueueIs DEF Represents
  <2>4. QED
    BY <2>1, <2>2, <2>3, LenProperties, ChunkedBufferAssumption
<1>2. PICK to_read : to_read = IF freed THEN 0 ELSE Least(len, total_available)
  OBVIOUS
<1>3. UNCHANGED <<list, total_available, freed>>
  BY DEF ReadBegins
<1>4. CASE to_read <= 0
  <2>1. call' = <<kind, <<>>, 0>> /\ op' = op
    BY <1>2, <1>4 DEF ReadBegins
  <2>2. Inv' /\ Queue = q /\ Queue' = q
    BY <1>3, <2>1, Unmoved
  <2>3. Least(len, Len(q)) = 0
    <3>1. CASE freed
      BY <1>1, <3>1, EmptySeq DEF Least
    <3>2. CASE ~freed
      BY <1>1, <1>2, <1>4, <3>2 DEF Least
    <3>3. QED
      BY <3>1, <3>2
  <2>4. Fifo!Read(len) \/ Fifo!Peek(len) \/ Fifo!Skip(len)
    BY <1>1, <1>3, <2>1, <2>2, <2>3, NothingFound
  <2>5. QED
    BY <2>2, <2>4 DEF Carried, Fifo!Next
<1>5. CASE ~ (to_read <= 0)
  <2>1. ~freed /\ to_read = Least(len, Len(q)) /\ to_read \in Nat
    BY <1>1, <1>2, <1>5 DEF Least
  <2>2. /\ op' = [NoCall EXCEPT !.kind = kind, !.left = to_read, !.at = head_chunk]
        /\ call' = call
    BY <1>2, <1>5 DEF ReadBegins
  <2>3. LinkTo(c, 1) = head_chunk /\ head_chunk \in Addrs \cup {Null}
    <3>1. LinkTo(c, 1) \in Addrs \cup {Null}
      BY LinkTyped DEF Holds, Listed
    <3>2. QED
      BY <3>1 DEF Holds, Listed
  <2>4. /\ op' \in Op /\ op'.kind = kind /\ op'.left = to_read /\ op'.at = head_chunk
        /\ op'.out = <<>>
    BY <2>1, <2>2, <2>3, EmptySeq DEF NoCall, Op
  <2>5. <<>> \o q = q
    BY <1>1, ConcatEmptySeq
  <2>6. \E l \in Lengths : Len(op'.out) + op'.left = Least(l, Len(q))
    BY <2>1, <2>4, EmptySeq
  <2>7. NowListed(c, w)
    BY <1>3, SameList DEF Holds
  <2>8. Shown(c, w, q)'
    <3>1. 1 \in 1 .. Len(c) + 1
      BY LenProperties DEF Holds, Listed
    <3>2. \A i : LinkTo(c, i)' = LinkTo(c, i)
      BY DEF LinkTo
    <3>3. QED
      BY <1>1, <2>3, <2>4, <2>5, <3>1, <3>2 DEF Shown
  <2>9. head_chunk' = head_chunk /\ op'.kind \in {"read", "peek", "skip"}
    BY <1>3, <2>4 DEF list
  <2>10. InCall(c, w, q)'
    BY <1>1, <2>4, <2>5, <2>6, <2>8, <2>9 DEF InCall, Least
  <2>11. Holds(c, w, q)'
    BY <1>1, <1>3, <2>1, <2>4, <2>7, <2>10 DEF Holds, NowListed
  <2>12. QED
    BY <1>3, <2>2, <2>11, Quietly
<1>6. QED
  BY <1>4, <1>5

(* One iteration over chunk b: f is copied, r is left. *)
Split(b, f, r, n, left) ==
  /\ b \in Seq(Bytes) /\ f \in Seq(Bytes) /\ r \in Seq(Bytes) /\ b = f \o r
  /\ n \in Nat /\ left \in Nat /\ left - n \in Nat /\ Len(f) = n /\ Len(b) \in Nat /\ n <= Len(b)
  /\ left - n > 0 => n = Len(b) /\ r = <<>>
  /\ n = Len(b) => f = b
  /\ b # <<>> => n # 0

LEMMA Splits ==
  ASSUME NEW b \in Seq(Bytes), NEW left \in Nat, left > 0,
         NEW n, n = Least(left, Len(b))
  PROVE  Split(b, FirstOf(b, n), AllBut(b, n), n, left)
<1>1. Len(b) \in Nat /\ (b # <<>> => Len(b) # 0)
  BY LenProperties, EmptySeq
<1>2. /\ n \in Nat /\ left - n \in Nat /\ n \in 0 .. Len(b) /\ n <= Len(b)
      /\ (left - n > 0 => n = Len(b)) /\ (Len(b) # 0 => n # 0)
  BY <1>1 DEF Least
<1>3. CutAt(b, n)
  BY <1>2, Cut
<1>4. n = Len(b) => FirstOf(b, n) = b /\ AllBut(b, n) = <<>>
  <2>1. FirstOf(b, Len(b)) = b
    BY SubSeqFull DEF FirstOf
  <2>2. AllBut(b, Len(b)) = <<>>
    <3>1. Len(b) + 1 \in Int /\ Len(b) \in Int /\ Len(b) < Len(b) + 1
      BY <1>1
    <3>2. QED
      BY <3>1, SubSeqEmpty DEF AllBut
  <2>3. QED
    BY <2>1, <2>2
<1>5. QED
  BY <1>1, <1>2, <1>3, <1>4 DEF Split, CutAt

(* What an iteration does to the call *)
Copies(f, n, a) ==
  /\ op' \in Op /\ op'.kind = op.kind /\ op'.left = op.left - n /\ op'.at = next[a]
  /\ op'.out = op.out \o f /\ Len(op'.out) + op'.left = Len(op.out) + op.left

LEMMA ReadChunkStep ==
  ASSUME NEW c, NEW w, NEW q, Holds(c, w, q), ReadChunk
  PROVE  Carried
<1>1. PICK a, left, b : a = op.at /\ left = op.left /\ b = bytes[a]
  OBVIOUS
<1>2. PICK n : n = Least(left, Len(b))
  OBVIOUS
<1>3. PICK f, r, out : f = FirstOf(b, n) /\ r = AllBut(b, n) /\ out = op.out
  OBVIOUS
<1>4. /\ op \in Op /\ op.kind \in {"read", "peek", "skip"} /\ left > 0 /\ a # Null
      /\ left \in Nat /\ a \in Addrs /\ out \in Seq(Bytes) /\ b \in Seq(Bytes) /\ ~freed
  <2>1. op \in Op /\ op.kind \in {"read", "peek", "skip"} /\ left > 0 /\ a # Null /\ ~freed
    BY <1>1 DEF ReadChunk, Holds
  <2>2. left \in Nat /\ a \in Addrs /\ out \in Seq(Bytes)
    BY <1>1, <1>3, <2>1 DEF Op
  <2>3. QED
    BY <1>1, <2>1, <2>2 DEF Holds, Types
<1>5. Split(b, f, r, n, left)
  BY <1>2, <1>3, <1>4, Splits
<1>6. UNCHANGED <<freed, call>>
  BY DEF ReadChunk
<1>7. Copies(f, n, a)
  <2>1. op' = [op EXCEPT !.left = left - n, !.at = next[a], !.out = out \o f]
    BY <1>1, <1>2, <1>3, <1>4 DEF ReadChunk, Op
  <2>2. /\ left - n \in Nat /\ next[a] \in Addrs \cup {Null}
        /\ out \o f \in Seq(Bytes) /\ Len(out \o f) = Len(out) + n /\ Len(out) \in Nat
        /\ n \in Nat
    <3>1. next[a] \in Addrs \cup {Null}
      BY <1>4 DEF Holds, Types
    <3>2. f \in Seq(Bytes) /\ Len(f) = n /\ n \in Nat /\ left - n \in Nat
      BY <1>5 DEF Split
    <3>3. /\ out \o f \in Seq(Bytes) /\ Len(out \o f) = Len(out) + Len(f)
          /\ Len(out) \in Nat
      BY <1>4, <3>2, ConcatProperties, LenProperties
    <3>4. QED
      BY <3>1, <3>2, <3>3
  <2>3. (Len(out) + n) + (left - n) = Len(out) + left
    BY <1>4, <2>2
  <2>4. /\ op' \in Op /\ op'.kind = op.kind /\ op'.left = left - n /\ op'.at = next[a]
        /\ op'.out = out \o f
    BY <1>4, <2>1, <2>2 DEF Op
  <2>5. QED
    BY <1>1, <1>3, <2>2, <2>3, <2>4 DEF Copies
<1>8. \E len \in Lengths : Len(op'.out) + op'.left = Least(len, Len(q))
  <2>1. \E len \in Lengths : Len(op.out) + op.left = Least(len, Len(q))
    BY <1>4 DEF Holds, InCall
  <2>2. QED
    BY <1>7, <2>1 DEF Copies
<1>9. CASE op.kind \in {"read", "skip"}
  <2>1. a = head_chunk /\ q = out \o w[1]
    BY <1>1, <1>3, <1>4, <1>9 DEF Holds, InCall
  <2>2. /\ IF n = Len(b) THEN FreeHead(a) ELSE Take(a, n)
        /\ total_available' = total_available - n
    BY <1>1, <1>2, <1>9 DEF ReadChunk
  <2>3. b # <<>>
    <3>1. PICK m : m = Len(c)
      OBVIOUS
    <3>2. Facts(c, w, m)
      BY <3>1, ListFacts DEF Holds
    <3>3. 1 \in 1 .. m /\ a = c[1]
      BY <1>4, <2>1, <3>2 DEF Facts
    <3>4. QED
      BY <1>1, <3>2, <3>3 DEF Facts
  <2>4. Drained(w, f) /\ (op'.left > 0 => op'.at = head_chunk')
    <3>1. CASE n = Len(b)
      <4>1. FreeHead(head_chunk) /\ f = bytes[head_chunk] /\ head_chunk # Null
            /\ total_available' = total_available - Len(bytes[head_chunk])
        BY <1>1, <1>4, <1>5, <2>1, <2>2, <3>1 DEF Split
      <4>2. Drained(w, bytes[head_chunk])
        BY <4>1, HeadFreed DEF Holds
      <4>3. head_chunk' = next[a]
        BY <2>1, <4>1 DEF FreeHead
      <4>4. QED
        BY <1>7, <4>1, <4>2, <4>3 DEF Copies
    <3>2. CASE n # Len(b)
      <4>1. Take(head_chunk, n) /\ head_chunk # Null
        BY <1>4, <2>1, <2>2, <3>2
      <4>2. n \in 1 .. Len(bytes[head_chunk]) - 1
        <5>1. /\ n \in Nat /\ Len(b) \in Nat /\ n <= Len(b) /\ n # 0
          BY <1>5, <2>3 DEF Split
        <5>2. n \in 1 .. Len(b) - 1
          BY <3>2, <5>1
        <5>3. QED
          BY <1>1, <2>1, <5>2
      <4>3. Drained(w, FirstOf(bytes[head_chunk], n))
        BY <2>2, <4>1, <4>2, HeadTaken DEF Holds
      <4>4. ~ (op'.left > 0)
        BY <1>1, <1>5, <1>7, <3>2 DEF Split, Copies
      <4>5. QED
        BY <1>1, <1>3, <2>1, <4>3, <4>4
    <3>3. QED
      BY <3>1, <3>2
  <2>5. PICK c2, w2 : NowListed(c2, w2) /\ w[1] = f \o w2[1]
    BY <2>4 DEF Drained
  <2>6. w2[1] \in Seq(Bytes)
    <3>1. Listed(c2, w2)'
      BY <2>5 DEF NowListed
    <3>2. c2 \in Seq(Addrs) /\ w2 \in [1 .. Len(c2) + 1 -> Seq(Bytes)]
      BY <3>1 DEF Listed
    <3>3. 1 \in 1 .. Len(c2) + 1
      BY <3>2, LenProperties
    <3>4. QED
      BY <3>2, <3>3
  <2>7. q = op'.out \o w2[1]
    <3>1. PICK v : v = w2[1]
      OBVIOUS
    <3>2. f \in Seq(Bytes) /\ v \in Seq(Bytes)
      BY <1>5, <2>6, <3>1 DEF Split
    <3>3. out \o (f \o v) = (out \o f) \o v
      BY <1>4, <3>2, ConcatAssociative
    <3>4. QED
      BY <1>3, <1>7, <2>1, <2>5, <3>1, <3>3 DEF Copies
  <2>8. InCall(c2, w2, q)'
    BY <1>7, <1>8, <1>9, <2>4, <2>7 DEF InCall, Copies, Least
  <2>9. total_available' <= MaxBytes
    <3>1. total_available \in Nat /\ total_available <= MaxBytes
      BY QueueIs, LenProperties DEF Represents, Holds
    <3>2. QED
      BY <1>5, <2>2, <3>1, ChunkedBufferAssumption DEF Split
  <2>10. Holds(c2, w2, q)'
    BY <1>4, <1>6, <1>7, <2>5, <2>8, <2>9 DEF Holds, NowListed, Copies
  <2>11. QED
    BY <1>6, <2>10, Quietly
<1>10. CASE op.kind = "peek"
  <2>1. UNCHANGED <<list, total_available>>
    BY <1>10 DEF ReadChunk
  <2>2. PICK rest \in Seq(Bytes), i \in 1 .. Len(c) + 1 :
          q = out \o rest /\ a = LinkTo(c, i) /\ rest = w[i]
    BY <1>1, <1>3, <1>4, <1>10 DEF Holds, InCall, Shown
  <2>3. PICK m : m = Len(c)
    OBVIOUS
  <2>4. Facts(c, w, m)
    BY <2>3, ListFacts DEF Holds
  <2>5. i \in 1 .. m /\ a = c[i] /\ i + 1 \in 1 .. m + 1
    BY <1>4, <2>2, <2>3, <2>4 DEF LinkTo, Facts
  <2>6. PICK v : v = w[i + 1]
    OBVIOUS
  <2>7. rest = b \o v /\ v \in Seq(Bytes) /\ next[a] = LinkTo(c, i + 1)
    BY <1>1, <2>2, <2>4, <2>5, <2>6 DEF Facts
  <2>8. q = (out \o f) \o (r \o v) /\ r \o v \in Seq(Bytes)
    <3>1. f \in Seq(Bytes) /\ r \in Seq(Bytes) /\ b = f \o r
      BY <1>5 DEF Split
    <3>2. r \o v \in Seq(Bytes)
      BY <2>7, <3>1, ConcatProperties
    <3>3. PICK rv : rv = r \o v
      OBVIOUS
    <3>4. (f \o r) \o v = f \o (r \o v)
      BY <2>7, <3>1, ConcatAssociative
    <3>5. out \o (f \o rv) = (out \o f) \o rv
      <4>1. out \in Seq(Bytes) /\ f \in Seq(Bytes) /\ rv \in Seq(Bytes)
        BY <1>4, <3>1, <3>2, <3>3
      <4>2. \A x, y, z \in Seq(Bytes) : x \o (y \o z) = (x \o y) \o z
        BY ConcatAssociative
      <4>3. QED
        BY <4>1, <4>2
    <3>6. QED
      BY <2>2, <2>7, <3>1, <3>2, <3>3, <3>4, <3>5
  <2>9. op'.left > 0 => r \o v = w[i + 1]
    <3>1. op'.left > 0 => r = <<>>
      BY <1>1, <1>5, <1>7 DEF Split, Copies
    <3>2. <<>> \o v = v
      BY <2>7, ConcatEmptySeq
    <3>3. QED
      BY <2>6, <3>1, <3>2
  <2>10. Shown(c, w, q)'
    <3>1. \A j : LinkTo(c, j)' = LinkTo(c, j)
      BY DEF LinkTo
    <3>2. op'.out = out \o f /\ op'.at = LinkTo(c, i + 1)
      BY <1>3, <1>7, <2>7 DEF Copies
    <3>3. QED
      BY <2>3, <2>5, <2>8, <2>9, <3>1, <3>2 DEF Shown
  <2>11. NowListed(c, w)
    BY <2>1, SameList DEF Holds
  <2>12. InCall(c, w, q)'
    <3>1. q = w[1]
      BY <1>10 DEF Holds, InCall
    <3>2. QED
      BY <1>7, <1>8, <1>10, <2>10, <3>1 DEF InCall, Copies, Least
  <2>13. Holds(c, w, q)'
    BY <1>4, <1>6, <1>7, <2>1, <2>11, <2>12 DEF Holds, NowListed, Copies
  <2>14. QED
    BY <1>6, <2>13, Quietly
<1>11. QED
  BY <1>4, <1>9, <1>10

LEMMA ReadEndsStep ==
  ASSUME NEW c, NEW w, NEW q, Holds(c, w, q), ReadEnds
  PROVE  Carried
<1>1. PICK out, kind : out = op.out /\ kind = op.kind
  OBVIOUS
<1>2. /\ kind \in {"read", "peek", "skip"} /\ (op.left = 0 \/ op.at = Null)
      /\ call' = <<kind, IF kind = "skip" THEN <<>> ELSE out, Len(out)>>
      /\ op' = NoCall /\ UNCHANGED <<list, total_available, freed>>
  BY <1>1 DEF ReadEnds
<1>3. Represents(w, q)
  BY QueueIs
<1>4. out \in Seq(Bytes) /\ Len(out) \in Nat /\ op.left \in Nat /\ ~freed
      /\ q \in Seq(Bytes) /\ Len(q) \in Nat
  <2>1. out \in Seq(Bytes) /\ op.left \in Nat
    BY <1>1 DEF Holds, Op
  <2>2. ~freed /\ q \in Seq(Bytes)
    BY <1>1, <1>2 DEF Holds
  <2>3. QED
    BY <2>1, <2>2, LenProperties
<1>5. PICK len \in Lengths : Len(out) + op.left = Least(len, Len(q))
  BY <1>1, <1>2 DEF Holds, InCall
<1>6. PICK rest \in Seq(Bytes) :
        /\ q = out \o rest /\ (op.left > 0 => rest = <<>>)
        /\ rest = IF kind = "peek" THEN rest ELSE w[1]
  <2>1. PICK m : m = Len(c)
    OBVIOUS
  <2>2. Facts(c, w, m)
    BY <2>1, ListFacts DEF Holds
  <2>3. CASE kind \in {"read", "skip"}
    <3>1. q = out \o w[1] /\ (op.left > 0 => op.at = head_chunk) /\ w[1] \in Seq(Bytes)
      BY <1>1, <1>3, <2>3 DEF Holds, InCall, Represents
    <3>2. ASSUME op.left > 0 PROVE w[1] = <<>>
      <4>1. head_chunk = Null
        BY <1>2, <1>4, <3>1, <3>2
      <4>2. m = 0
        <5>1. SUFFICES ASSUME m # 0 PROVE FALSE
          OBVIOUS
        <5>2. m \in Nat /\ 1 \in 1 .. m
          BY <2>2, <5>1 DEF Facts
        <5>3. c[1] \in Addrs /\ head_chunk = c[1]
          BY <2>2, <5>1, <5>2 DEF Facts
        <5>4. QED
          BY <4>1, <5>3, ChunkedBufferAssumption
      <4>3. w[0 + 1] = <<>>
        BY <2>2, <4>2 DEF Facts
      <4>4. QED
        BY <4>3
    <3>3. QED
      BY <2>3, <3>1, <3>2
  <2>4. CASE kind = "peek"
    <3>1. PICK rest \in Seq(Bytes) :
            /\ q = out \o rest
            /\ op.left > 0 => \E i \in 1 .. Len(c) + 1 : op.at = LinkTo(c, i) /\ rest = w[i]
      BY <1>1, <2>4 DEF Holds, InCall, Shown
    <3>2. ASSUME op.left > 0 PROVE rest = <<>>
      <4>1. PICK i \in 1 .. m + 1 : op.at = LinkTo(c, i) /\ rest = w[i]
        BY <2>1, <3>1, <3>2
      <4>2. LinkTo(c, i) = Null
        BY <1>2, <1>4, <3>2, <4>1
      <4>3. i > m /\ m \in Nat
        <5>1. i \in Nat \ {0} /\ m \in Nat
          BY <2>2 DEF Facts
        <5>2. QED
          BY <2>1, <2>2, <4>2, <5>1, LinkTyped DEF Facts
      <4>4. i = m + 1
        BY <4>3
      <4>5. QED
        BY <2>2, <4>1, <4>4 DEF Facts
    <3>3. QED
      BY <2>4, <3>1, <3>2
  <2>5. QED
    BY <1>2, <2>3, <2>4
<1>7. Len(out) = Least(len, Len(q))
  <2>1. Len(q) = Len(out) + Len(rest)
    BY <1>4, <1>6, ConcatProperties
  <2>2. op.left > 0 => Len(rest) = 0
    BY <1>6, EmptySeq
  <2>3. len \in Nat /\ Len(rest) \in Nat
    BY LenProperties, ChunkedBufferAssumption
  <2>4. QED
    BY <1>4, <1>5, <2>1, <2>2, <2>3 DEF Least
<1>8. FirstOf(q, Len(out)) = out /\ AllBut(q, Len(out)) = rest
  BY <1>4, <1>6, Join DEF Joined
<1>9. Holds(c, w, w[1])'
  <2>1. NowListed(c, w)
    BY <1>2, SameList DEF Holds
  <2>2. NoCall \in Op /\ NoCall.kind = "none"
    BY EmptySeq DEF NoCall, Op
  <2>3. QED
    BY <1>2, <1>3, <1>4, <2>1, <2>2 DEF Holds, NowListed, InCall, Represents
<1>10. Queue = q /\ Queue' = w[1]
  BY <1>3, <1>9, RepresentingNow DEF AlwaysRepresents, Represents
<1>11. /\ Fifo!Least(len, Len(Queue)) = Len(out)
       /\ Fifo!Prefix(Queue, Len(out)) = out /\ Fifo!Rest(Queue, Len(out)) = rest
  BY <1>7, <1>8, <1>10 DEF Fifo!Least, Least, Fifo!Prefix, FirstOf, Fifo!Rest, AllBut
<1>12. CASE kind = "read"
  <2>1. Fifo!Read(len)
    BY <1>2, <1>6, <1>10, <1>11, <1>12 DEF Fifo!Read
  <2>2. QED
    BY <1>9, <2>1 DEF Carried, Inv, Fifo!Next
<1>13. CASE kind = "skip"
  <2>1. Fifo!Skip(len)
    BY <1>2, <1>6, <1>10, <1>11, <1>13 DEF Fifo!Skip
  <2>2. QED
    BY <1>9, <2>1 DEF Carried, Inv, Fifo!Next
<1>14. CASE kind = "peek"
  <2>1. q = w[1]
    BY <1>1, <1>14 DEF Holds, InCall
  <2>2. Fifo!Peek(len)
    BY <1>2, <1>10, <1>11, <1>14, <2>1 DEF Fifo!Peek
  <2>3. QED
    BY <1>9, <2>2 DEF Carried, Inv, Fifo!Next
<1>15. QED
  BY <1>2, <1>12, <1>13, <1>14

(* All chunks go at once, when no call is under way. *)
LEMMA EmptyingStep ==
  ASSUME NEW c, NEW w, NEW q, Holds(c, w, q), op.kind = "none", op' = op,
         freed' \in BOOLEAN, freed => freed',
         IF freed THEN UNCHANGED <<list, total_available>> ELSE FreeAll
  PROVE  Inv' /\ Queue' = <<>>
<1>1. PICK c2, w2 : NowListed(c2, w2) /\ w2[1] = <<>>
  <2>1. CASE freed
    BY <2>1, SameList DEF Holds
  <2>2. CASE ~freed
    BY <2>2, AllFreed DEF Holds
  <2>3. QED
    BY <2>1, <2>2 DEF Holds
<1>2. total_available' <= MaxBytes
  BY ChunkedBufferAssumption DEF Holds, FreeAll
<1>3. Holds(c2, w2, <<>>)'
  BY <1>1, <1>2, EmptySeq DEF Holds, NowListed, InCall
<1>4. Queue' = <<>>
  BY <1>3, RepresentingNow DEF AlwaysRepresents, Represents
<1>5. QED
  BY <1>3, <1>4 DEF Inv

LEMMA ClearStep ==
  ASSUME NEW c, NEW w, NEW q, Holds(c, w, q), Clear
  PROVE  Carried
<1>1. /\ op.kind = "none" /\ op' = op /\ freed' = freed /\ call' = <<"clear", <<>>, 0>>
      /\ IF freed THEN UNCHANGED <<list, total_available>> ELSE FreeAll
  BY DEF Clear
<1>2. freed' \in BOOLEAN /\ (freed => freed')
  BY <1>1 DEF Holds
<1>3. Inv' /\ Queue' = <<>>
  BY <1>1, <1>2, EmptyingStep
<1>4. QED
  BY <1>1, <1>3 DEF Carried, Fifo!Next, Fifo!Clear

LEMMA DestroyStep ==
  ASSUME NEW c, NEW w, NEW q, Holds(c, w, q), Destroy
  PROVE  Carried
<1>1. /\ op.kind = "none" /\ op' = op /\ freed' = TRUE /\ call' = <<"destroy", <<>>, 0>>
      /\ IF freed THEN UNCHANGED <<list, total_available>> ELSE FreeAll
  BY DEF Destroy
<1>2. Inv' /\ Queue' = <<>>
  BY <1>1, EmptyingStep
<1>3. QED
  BY <1>1, <1>2 DEF Carried, Fifo!Next, Fifo!Destroy

LEMMA InvInitially == Init => Inv /\ Fifo!Init
<1> SUFFICES ASSUME Init PROVE Inv /\ Fifo!Init
  OBVIOUS
<1>1. PICK c, w : c = <<>> /\ w = [i \in 1 .. 1 |-> <<>>]
  OBVIOUS
<1>2. c \in Seq(Addrs) /\ Len(c) = 0 /\ <<>> \in Seq(Bytes)
  BY <1>1, EmptySeq
<1>3. /\ w \in [1 .. Len(c) + 1 -> Seq(Bytes)] /\ w[Len(c) + 1] = <<>>
      /\ w[1] = <<>> /\ Len(w[1]) = 0
  BY <1>1, <1>2, EmptySeq
<1>4. Range(c) = {} /\ LinkTo(c, 1) = Null
  <2>1. DOMAIN c = {}
    BY <1>2, LenProperties
  <2>2. QED
    BY <1>2, <2>1 DEF Range, LinkTo
<1>5. Listed(c, w)
  BY <1>2, <1>3, <1>4 DEF Init, Listed
<1>6. Types
  BY <1>2, EmptySeq, ChunkedBufferAssumption DEF Init, Types
<1>7. op \in Op /\ op.kind = "none"
  BY EmptySeq DEF Init, NoCall, Op
<1>8. Holds(c, w, <<>>)
  <2>1. /\ op \in Op /\ freed = FALSE /\ <<>> \in Seq(Bytes) /\ total_available <= MaxBytes
    BY <1>2, <1>7, ChunkedBufferAssumption DEF Init
  <2>2. InCall(c, w, <<>>)
    BY <1>3, <1>7 DEF InCall
  <2>3. QED
    BY <1>5, <1>6, <2>1, <2>2 DEF Holds
<1>9. Queue = <<>>
  BY <1>8, QueueIs DEF Represents
<1>10. QED
  BY <1>8, <1>9 DEF Inv, Fifo!Init, Init

LEMMA EachStep == Inv /\ [Next]_vars => Carried
<1> SUFFICES ASSUME Inv, [Next]_vars PROVE Carried
  OBVIOUS
<1>1. PICK c, w, q : Holds(c, w, q)
  BY DEF Inv
<1>2. CASE UNCHANGED vars
  <2>1. UNCHANGED <<list, total_available, freed, op, call>>
    BY <1>2 DEF vars
  <2>2. Inv' /\ Queue = q /\ Queue' = q
    BY <1>1, <2>1, Unmoved
  <2>3. QED
    BY <2>1, <2>2 DEF Carried, Fifo!vars
<1>3. CASE Next
  BY <1>1, <1>3, WriteBeginsStep, WriteChunkStep, WriteEndsStep, ReadBeginsStep,
     ReadChunkStep, ReadEndsStep, ClearStep, DestroyStep DEF Next
<1>4. QED
  BY <1>2, <1>3

LEMMA Inductive == Spec => []Inv
<1>1. Inv /\ [Next]_vars => Inv'
  BY EachStep DEF Carried
<1>2. QED
  BY <1>1, InvInitially, PTL DEF Spec

LEMMA InvGives == Inv => ListIntact
<1> SUFFICES ASSUME Inv PROVE ListIntact
  OBVIOUS
<1>1. PICK c, w, q : Holds(c, w, q)
  BY DEF Inv
<1>2. PICK m : m = Len(c)
  OBVIOUS
<1>3. Facts(c, w, m) /\ Chain = c
  BY <1>1, <1>2, ListFacts, ListedIsChain DEF Holds, ChainIs
<1>4. Represents(w, q)
  BY <1>1, QueueIs
<1>5. DOMAIN c = 1 .. m /\ m \in Nat
  BY <1>2, <1>3, LenProperties DEF Facts
<1>6. allocated \subseteq Addrs /\ head_chunk \in Addrs \cup {Null}
      /\ tail_chunk \in Addrs \cup {Null}
  <2>1. m # 0 => 1 \in 1 .. m /\ m \in 1 .. m
    BY <1>5
  <2>2. \A i \in 1 .. m : c[i] \in Addrs
    BY <1>3 DEF Facts
  <2>3. allocated \subseteq Addrs
    BY <1>3, <1>5, <2>2 DEF Facts, Range
  <2>4. QED
    BY <1>3, <2>1, <2>2, <2>3 DEF Facts
<1>7. TypeOK
  <2>1. total_available \in 0 .. MaxBytes
    BY <1>1, <1>4, LenProperties, ChunkedBufferAssumption DEF Represents, Holds
  <2>2. QED
    BY <1>1, <1>6, <2>1 DEF TypeOK, Holds, Types, Op
<1>8. tail_chunk = IF c = <<>> THEN Null ELSE Last(c)
  <2>1. c = <<>> <=> m = 0
    BY <1>2, <1>3, EmptySeq DEF Facts
  <2>2. QED
    BY <1>2, <1>3, <2>1 DEF Facts, Last
<1>9. \A i \in DOMAIN c :
        /\ bytes[c[i]] # <<>>
        /\ i \notin {1, Len(c)} => Len(bytes[c[i]]) = ChunkSize
  BY <1>2, <1>3, <1>5 DEF Facts
<1>10. QED
  BY <1>3, <1>4, <1>7, <1>8, <1>9 DEF ListIntact, Represents, Facts

(* ChunkedBuffer::write, read and clear: after every iteration of their loops
   the links lead over every chunk that is allocated from head_chunk to
   tail_chunk, total_available is what is in them, none is empty, and all but
   the first and the last are full, for any chunk size and any calls. *)
THEOREM ChunksStayIntact == Spec => []ListIntact
BY Inductive, InvGives, PTL

(* The list is a byte queue: whatever a write spreads over chunks and reads and
   skips take from drained and halved chunks comes out complete and in order,
   a peek shows what the next read would take and takes nothing, and the calls
   after a destroy find an empty queue. *)
THEOREM ListImplementsFifo == Spec => ImplementsByteFifo
<1>1. Inv /\ [Next]_vars => [Fifo!Next]_Fifo!vars
  BY EachStep DEF Carried
<1>2. Init => Fifo!Init
  BY InvInitially
<1>3. QED
  BY <1>1, <1>2, Inductive, PTL DEF Spec, ImplementsByteFifo, Fifo!Spec
=============================================================================
