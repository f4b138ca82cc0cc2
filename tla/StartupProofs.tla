--------------------------- MODULE StartupProofs ---------------------------
(***************************************************************************)
(* Proofs about TopologyDetector, for every set of topologies, every       *)
(* number of changes while the constructor runs and every set of failing   *)
(* calls, and then about Startup: whatever the rest of maintask does, it   *)
(* uses the topology detector as that is specified, so that what is proved *)
(* of the detector alone holds in the program.                             *)
(***************************************************************************)
EXTENDS Startup, FiniteSetTheorems, WellFoundedInduction, TLAPS

\* The loop of a has not been left. The one of "ex" is entered after the one of "std".
Asking(a) == tpc = "std" \/ (a = "ex" /\ tpc = "ex")

\* The buffer of a in each place of the constructor and the destructor. BufferFits
\* alone does not survive the step from one loop to the other, and DecodesWritten
\* needs to know where the length comes from.
BufferInv(a) ==
  /\ live[a] = IF room[a] > 0 /\ tpc # "freed" THEN 1 ELSE 0
  /\ Asking(a) => size[a] <= room[a]
  /\ a \notin apis => size[a] = 0
  /\ (~Asking(a) /\ ~failed /\ a \in apis) =>
       filled[a] /\ Len(entries[a]) = size[a] /\ size[a] <= room[a]

TopologyInv ==
  /\ TopologyTypeOK
  /\ entries \in [Apis -> {<<>>} \cup Topologies]
  /\ \A a \in Apis : BufferInv(a)

\* A list the system reports has a positive length.
LEMMA LengthOfList == ASSUME NEW m \in Topologies PROVE Len(m) \in Nat /\ Len(m) > 0
BY TopologyAssumption

\* Before the first query there is no buffer.
LEMMA TopologyInitial == TopologyInit => TopologyInv
<1> SUFFICES ASSUME TopologyInit PROVE TopologyInv
  OBVIOUS
<1> USE DEF TopologyInit
<1>1. TopologyTypeOK
  BY DEF TopologyTypeOK, Places
<1>2. entries \in [Apis -> {<<>>} \cup Topologies]
  OBVIOUS
<1>3. ASSUME NEW a \in Apis PROVE BufferInv(a)
  BY DEF BufferInv, Asking
<1> QED BY <1>1, <1>2, <1>3 DEF TopologyInv

\* Every call of the system, and every decoding, keeps the buffers in order.
LEMMA TopologyStep == TopologyInv /\ [TopologyNext]_topologyVars => TopologyInv'
<1> SUFFICES ASSUME TopologyInv, [TopologyNext]_topologyVars PROVE TopologyInv'
  OBVIOUS
<1> USE DEF TopologyInv, TopologyTypeOK
<1>len. Len(machine) \in Nat /\ Len(machine) > 0
  BY LengthOfList
<1>1. CASE MachineChanges
  BY <1>1 DEF MachineChanges, BufferInv, Asking, buffers
<1>2. ASSUME NEW a \in Apis, QueryAbsent(a) PROVE TopologyInv'
  BY <1>2 DEF QueryAbsent, Leave, BufferInv, Asking, Apis, Places, world, buffers
<1>3. ASSUME NEW a \in Apis, QueryFills(a) PROVE TopologyInv'
  <2>1. TopologyTypeOK' /\ entries' \in [Apis -> {<<>>} \cup Topologies]
    BY <1>3, <1>len DEF QueryFills, Leave, Apis, Places, world
  <2>2. ASSUME NEW b \in Apis, b # a PROVE BufferInv(b)'
    <3>1. /\ size'[b] = size[b] /\ filled'[b] = filled[b] /\ entries'[b] = entries[b]
          /\ UNCHANGED <<room, live, failed, apis>>
      BY <1>3, <2>2 DEF QueryFills, world
    <3>2. (Asking(b)' <=> Asking(b)) /\ ~(tpc = "freed") /\ ~(tpc' = "freed")
      <4>1. tpc = a /\ tpc' = IF a = "std" THEN "ex" ELSE "decode std"
        BY <1>3 DEF QueryFills, Leave
      <4>2. (a = "std" /\ b = "ex") \/ (a = "ex" /\ b = "std")
        BY <2>2 DEF Apis
      <4> QED BY <4>1, <4>2 DEF Asking
    <3> QED BY <3>1, <3>2 DEF BufferInv
  <2>3. BufferInv(a)'
    <3>1. /\ size'[a] = Len(machine) /\ Len(machine) <= size[a] /\ size[a] <= room[a]
          /\ filled'[a] /\ entries'[a] = machine
      BY <1>3 DEF QueryFills, BufferInv, Asking, Apis
    <3>2. size'[a] <= room'[a]
      BY <1>3, <1>len, <3>1 DEF QueryFills
    <3> QED BY <1>3, <1>len, <3>1, <3>2 DEF QueryFills, Leave, BufferInv, Asking, Apis, world
  <2> QED BY <2>1, <2>2, <2>3
<1>4. ASSUME NEW a \in Apis, QueryGrows(a) PROVE TopologyInv'
  <2> DEFINE rest == IF room[a] > 0 THEN live[a] - 1 ELSE live[a]
  <2>1. tpc = a /\ a \in apis /\ UNCHANGED <<world, filled, entries, summary>>
    BY <1>4 DEF QueryGrows
  <2>2. size' = [size EXCEPT ![a] = Len(machine)]
    BY <1>4 DEF QueryGrows
  <2>3. rest = 0
    BY <2>1 DEF BufferInv, Apis
  <2>4. CASE /\ room' = [room EXCEPT ![a] = Len(machine)]
             /\ live' = [live EXCEPT ![a] = rest + 1]
             /\ UNCHANGED <<tpc, failed>>
    <3>1. live' = [live EXCEPT ![a] = 1]
      <4>1. rest + 1 = 1
        BY <2>3
      <4> QED BY <2>4, <4>1
    <3>2. TopologyTypeOK'
      BY <2>1, <2>2, <2>4, <3>1, <1>len DEF world
    <3>3. ASSUME NEW b \in Apis PROVE BufferInv(b)'
      BY <2>1, <2>2, <2>4, <3>1, <3>3, <1>len DEF BufferInv, Asking, Apis, world
    <3> QED BY <2>1, <3>2, <3>3
  <2>5. CASE /\ room' = [room EXCEPT ![a] = 0]
             /\ live' = [live EXCEPT ![a] = rest]
             /\ Leave(a) /\ failed' = TRUE
    <3>1. live' = [live EXCEPT ![a] = 0]
      BY <2>3, <2>5
    <3>2. TopologyTypeOK'
      BY <2>1, <2>2, <2>5, <3>1, <1>len DEF Leave, Places, world
    <3>3. ASSUME NEW b \in Apis PROVE BufferInv(b)'
      <4>1. room'[b] = (IF b = a THEN 0 ELSE room[b]) /\ live'[b] = (IF b = a THEN 0 ELSE live[b])
        BY <2>5, <3>1
      <4>2. b # a => size'[b] = size[b]
        BY <2>2
      <4>3. failed' /\ ~(tpc' = "freed") /\ ~(tpc = "freed") /\ ~Asking(a)'
        BY <2>1, <2>5 DEF Leave, Asking, Apis
      <4>4. Asking(b)' => Asking(b) /\ b # a
        BY <2>1, <2>5, <4>3 DEF Leave, Asking, Apis
      <4>5. b # a \/ a \in apis
        BY <2>1
      <4> QED BY <2>1, <4>1, <4>2, <4>3, <4>4, <4>5 DEF BufferInv, world
    <3> QED BY <2>1, <3>2, <3>3
  <2> QED BY <1>4, <2>4, <2>5 DEF QueryGrows
<1>5. ASSUME NEW a \in Apis, QueryFails(a) PROVE TopologyInv'
  BY <1>5 DEF QueryFails, Leave, BufferInv, Asking, Apis, Places, world, buffers
<1>6. ASSUME NEW a \in Apis, Decode(a) PROVE TopologyInv'
  <2>1. UNCHANGED <<world, buffers, live, failed>>
    BY <1>6 DEF Decode
  <2>2. /\ tpc \in {"decode std", "decode ex"}
        /\ tpc' \in {"decode ex", "detected", "hung", "crashed"}
    BY <1>6 DEF Decode, DecodeGarbage, Proceed
  <2> QED BY <2>1, <2>2 DEF BufferInv, Asking, Places, world, buffers
<1>7. CASE FreeTopology
  BY <1>7 DEF FreeTopology, BufferInv, Asking, Apis, Places, world, buffers
<1>8. CASE UNCHANGED topologyVars
  BY <1>8 DEF topologyVars, world, buffers, BufferInv, Asking
<1> QED BY <1>1, <1>2, <1>3, <1>4, <1>5, <1>6, <1>7, <1>8 DEF TopologyNext, Detect

-----------------------------------------------------------------------------
(* What the decoding makes of the lists. The prover's library has          *)
(* induction over numbers for a formula only in a form the backends cannot *)
(* use; over a set of numbers it follows from the well-founded order.      *)

\* Every non-empty set of numbers has a least one.
LEMMA NatMin ==
  ASSUME NEW T, T \subseteq Nat, T # {}
  PROVE  \E x \in T : \A y \in T : x <= y
<1> DEFINE R == OpToRel(<, Nat)
<1>1. IsWellFoundedOn(R, Nat)
  BY NatLessThanWellFounded
<1>2. \A x, y \in Nat : x < y => <<x, y>> \in R
  BY DEF OpToRel
<1> HIDE DEF R
<1>3. PICK x \in T : \A y \in T : ~ (<<y, x>> \in R)
  BY <1>1, WFMin
<1>4. ASSUME NEW y \in T PROVE x <= y
  <2>1. x \in Nat /\ y \in Nat
    OBVIOUS
  <2>2. ~(y < x)
    BY <1>2, <1>3, <2>1, Zenon
  <2> QED BY <2>1, <2>2
<1> QED BY <1>4

\* Induction over the numbers, for a set instead of a formula.
LEMMA SetInduction ==
  ASSUME NEW S, 0 \in S, \A n \in Nat : n \in S => n + 1 \in S
  PROVE  Nat \subseteq S
<1> DEFINE T == Nat \ S
<1>1. SUFFICES ASSUME T # {} PROVE FALSE
  OBVIOUS
<1>2. PICK x \in T : \A y \in T : x <= y
  <2>1. T \subseteq Nat
    OBVIOUS
  <2> HIDE DEF T
  <2> QED BY <1>1, <2>1, NatMin
<1>3. x - 1 \in Nat /\ (x - 1) + 1 = x
  <2>1. x \in Nat /\ x # 0
    OBVIOUS
  <2> QED BY <2>1
<1>4. x - 1 \in T
  BY <1>3
<1> QED BY <1>2, <1>3, <1>4

\* A set of positions in a list has a last one.
LEMMA LastPosition ==
  ASSUME NEW k \in Nat, NEW C \in SUBSET (1..k), C # {}
  PROVE  \E i \in C : \A j \in C : j <= i
<1> DEFINE B == {n \in Nat : \A j \in C : j <= n}
<1>1. k \in B
  OBVIOUS
<1>2. PICK x \in B : \A y \in B : x <= y
  <2>1. B \subseteq Nat /\ B # {}
    BY <1>1
  <2> HIDE DEF B
  <2> QED BY <2>1, NatMin
<1>3. PICK c : c \in C
  OBVIOUS
<1>4. ASSUME x \notin C PROVE FALSE
  <2>1. x \in Nat /\ c \in Nat /\ 1 <= c /\ c <= x
    BY <1>3
  <2>2. x - 1 \in Nat
    BY <2>1
  <2>3. ASSUME NEW j \in C PROVE j <= x - 1
    BY <1>4, <2>1
  <2>4. x - 1 \in B
    BY <2>2, <2>3
  <2> QED BY <1>2, <2>1, <2>4
<1> QED BY <1>4

-----------------------------------------------------------------------------
\* The first k entries of a list.
First(list, k) == [i \in 1..k |-> list[i]]

\* The decoder's loop as a function, which exists.
LEMMA DecodedIsLoop ==
  ASSUME NEW s, NEW list \in Seq(Entries)
  PROVE  \E f : /\ f = [k \in 0..Len(list) |-> IF k = 0 THEN s ELSE Counted(f[k - 1], list[k])]
                /\ Decoded(s, list) = f[Len(list)]
<1> DEFINE Loop(n, f) == f = [k \in 0..n |-> IF k = 0 THEN s ELSE Counted(f[k - 1], list[k])]
           S == {n \in Nat : \E f : Loop(n, f)}
<1>1. 0 \in S
  <2>1. Loop(0, [k \in 0..0 |-> s])
    OBVIOUS
  <2> QED BY <2>1
<1>2. ASSUME NEW n \in Nat, n \in S PROVE n + 1 \in S
  <2>1. PICK f : Loop(n, f)
    BY <1>2
  <2> DEFINE g == [k \in 0..(n + 1) |-> IF k = n + 1 THEN Counted(f[n], list[n + 1]) ELSE f[k]]
  <2>2. ASSUME NEW k \in 0..(n + 1)
        PROVE  g[k] = IF k = 0 THEN s ELSE Counted(g[k - 1], list[k])
    <3>1. CASE k = n + 1
      <4>1. g[n + 1] = Counted(f[n], list[n + 1]) /\ g[n] = f[n]
        OBVIOUS
      <4> HIDE DEF g
      <4> QED BY <3>1, <4>1
    <3>2. CASE k = 0
      BY <2>1, <3>2
    <3>3. CASE k \in 1..n
      <4>1. g[k] = f[k] /\ g[k - 1] = f[k - 1] /\ k # 0
        BY <3>3
      <4>2. f[k] = Counted(f[k - 1], list[k])
        BY <2>1, <3>3
      <4> HIDE DEF g
      <4> QED BY <4>1, <4>2
    <3> QED BY <3>1, <3>2, <3>3
  <2>3. Loop(n + 1, g)
    <3>1. g = [k \in 0..(n + 1) |-> g[k]]
      OBVIOUS
    <3> HIDE DEF g
    <3> QED BY <2>2, <3>1
  <2>4. \E h : Loop(n + 1, h)
    <3> HIDE DEF g, Loop
    <3> QED BY <2>3
  <2>5. n + 1 \in Nat
    OBVIOUS
  <2> HIDE DEF Loop
  <2> QED BY <2>4, <2>5
<1>3. Nat \subseteq S
  <2> HIDE DEF S
  <2> QED BY <1>1, <1>2, SetInduction
<1>4. PICK f0 : Loop(Len(list), f0)
  <2>1. Len(list) \in Nat
    OBVIOUS
  <2> QED BY <1>3, <2>1
<1> DEFINE F == CHOOSE f : f = [k \in 0..Len(list) |->
                                IF k = 0 THEN s ELSE Counted(f[k - 1], list[k])]
<1>5. Loop(Len(list), F)
  BY <1>4
<1>6. Decoded(s, list) = F[Len(list)]
  BY DEF Decoded
<1> QED BY <1>5, <1>6

\* One more entry in a list: what the summary of the longer list has.
LEMMA NumberStep ==
  ASSUME NEW list \in Seq(Entries), NEW k \in Nat, k < Len(list), NEW rel
  PROVE  Number(First(list, k + 1), rel) =
           IF list[k + 1].rel = rel THEN Number(First(list, k), rel) + 1
                                    ELSE Number(First(list, k), rel)
<1> DEFINE A == {i \in 1..k : list[i].rel = rel}
           B == {i \in 1..(k + 1) : list[i].rel = rel}
<1>1. Number(First(list, k), rel) = Cardinality(A)
  <2>1. A = {i \in DOMAIN First(list, k) : First(list, k)[i].rel = rel}
    BY DEF First
  <2> QED BY <2>1 DEF Number
<1>2. Number(First(list, k + 1), rel) = Cardinality(B)
  <2>1. B = {i \in DOMAIN First(list, k + 1) : First(list, k + 1)[i].rel = rel}
    BY DEF First
  <2> QED BY <2>1 DEF Number
<1>3. IsFiniteSet(A)
  <2>1. IsFiniteSet(1..k) /\ A \subseteq 1..k
    BY FS_Interval
  <2> HIDE DEF A
  <2> QED BY <2>1, FS_Subset
<1>4. CASE list[k + 1].rel = rel
  <2>1. B = A \cup {k + 1} /\ k + 1 \notin A
    BY <1>4
  <2> HIDE DEF A, B
  <2>2. Cardinality(B) = Cardinality(A) + 1
    BY <1>3, <2>1, FS_AddElement
  <2> QED BY <1>1, <1>2, <1>4, <2>2
<1>5. CASE list[k + 1].rel # rel
  <2>1. B = A
    BY <1>5
  <2> QED BY <1>1, <1>2, <1>5, <2>1
<1> QED BY <1>4, <1>5

\* The caches whose size the decoder takes for level l.
IsCache(e, l) == e.rel = "cache" /\ e.type \in {"unified", "data"} /\ e.level = l
Caches(list, k, l) == {i \in 1..k : IsCache(list[i], l)}

\* LastCache is the size in the last entry of a cache of the level, or 0.
LEMMA LastCacheIs ==
  ASSUME NEW list \in Seq(Entries), NEW k \in 0..Len(list), NEW l
  PROVE  LastCache(First(list, k), l) =
           IF Caches(list, k, l) = {} THEN 0
           ELSE list[CHOOSE i \in Caches(list, k, l) : \A j \in Caches(list, k, l) : j <= i].bytes
<1> DEFINE m == First(list, k)
           C == Caches(list, k, l)
           D == {i \in DOMAIN m : m[i].rel = "cache" /\ m[i].level = l
                                  /\ m[i].type # "instruction" /\ m[i].type # "trace"}
<1>1. C = D
  <2>1. ASSUME NEW i \in 1..k
        PROVE  IsCache(list[i], l) <=>
                 (m[i].rel = "cache" /\ m[i].level = l
                    /\ m[i].type # "instruction" /\ m[i].type # "trace")
    <3>1. m[i] = list[i] /\ list[i] \in Entries
      BY DEF First
    <3> HIDE DEF m
    <3> QED BY <3>1 DEF IsCache, Entries
  <2>2. DOMAIN m = 1..k
    BY DEF First
  <2> HIDE DEF m
  <2> QED BY <2>1, <2>2 DEF Caches
<1>2. LastCache(m, l) = IF C = {} THEN 0 ELSE m[CHOOSE i \in C : \A j \in C : j <= i].bytes
  <2> HIDE DEF C
  <2> QED BY <1>1 DEF LastCache
<1>3. ASSUME C # {} PROVE m[CHOOSE i \in C : \A j \in C : j <= i] = list[CHOOSE i \in C : \A j \in C : j <= i]
  <2>1. C \in SUBSET (1..k) /\ k \in Nat
    BY DEF Caches
  <2> HIDE DEF C
  <2>2. \E i \in C : \A j \in C : j <= i
    BY <1>3, <2>1, LastPosition
  <2>3. (CHOOSE i \in C : \A j \in C : j <= i) \in 1..k
    BY <2>1, <2>2
  <2> QED BY <2>3 DEF First
<1> HIDE DEF m, C
<1>4. QED
  BY <1>2, <1>3 DEF m, C

\* One entry more changes the size of its own level only.
LEMMA LastCacheStep ==
  ASSUME NEW list \in Seq(Entries), NEW k \in Nat, k < Len(list), NEW l
  PROVE  LastCache(First(list, k + 1), l) =
           IF IsCache(list[k + 1], l) THEN list[k + 1].bytes ELSE LastCache(First(list, k), l)
<1> DEFINE C == Caches(list, k, l)
           D == Caches(list, k + 1, l)
<1>1. k \in 0..Len(list) /\ k + 1 \in 0..Len(list)
  OBVIOUS
<1>2. CASE IsCache(list[k + 1], l)
  <2>1. k + 1 \in D /\ \A j \in D : j <= k + 1
    BY <1>2 DEF Caches
  <2>2. \A j \in D : j \in Nat
    BY DEF Caches
  <2> HIDE DEF D
  <2>3. (CHOOSE i \in D : \A j \in D : j <= i) = k + 1
    <3>1. \A i \in D : (\A j \in D : j <= i) => i = k + 1
      BY <2>1, <2>2
    <3> QED BY <2>1, <3>1
  <2> QED BY <1>1, <1>2, <2>1, <2>3, LastCacheIs DEF D
<1>3. CASE ~IsCache(list[k + 1], l)
  <2>1. C = D
    BY <1>3 DEF Caches
  <2>2. LastCache(First(list, k + 1), l) =
          IF D = {} THEN 0 ELSE list[CHOOSE i \in D : \A j \in D : j <= i].bytes
    BY <1>1, LastCacheIs
  <2>3. LastCache(First(list, k), l) =
          IF C = {} THEN 0 ELSE list[CHOOSE i \in C : \A j \in C : j <= i].bytes
    BY <1>1, LastCacheIs
  <2> HIDE DEF C, D
  <2> QED BY <1>3, <2>1, <2>2, <2>3
<1> QED BY <1>2, <1>3


\* A core with threads among the first entries.
HasThreads(m) == \E i \in DOMAIN m : m[i].rel = "core" /\ m[i].smt

\* One entry more can only add threads to a core.
LEMMA ThreadsStep ==
  ASSUME NEW list \in Seq(Entries), NEW k \in Nat, k < Len(list)
  PROVE  HasThreads(First(list, k + 1)) <=>
           HasThreads(First(list, k)) \/ (list[k + 1].rel = "core" /\ list[k + 1].smt)
<1>1. DOMAIN First(list, k) = 1..k /\ DOMAIN First(list, k + 1) = 1..(k + 1)
  BY DEF First
<1>2. \A i \in 1..k : First(list, k)[i] = list[i] /\ First(list, k + 1)[i] = list[i]
  BY DEF First
<1>3. First(list, k + 1)[k + 1] = list[k + 1]
  BY DEF First
<1>4. 1..(k + 1) = 1..k \cup {k + 1}
  OBVIOUS
<1> QED BY <1>1, <1>2, <1>3, <1>4 DEF HasThreads

\* The summary in its parts.
LEMMA SummaryParts ==
  ASSUME NEW m
  PROVE  SummaryOf(m) = [point    |-> [l \in 1..4 |-> LastCache(m, l)],
                         cores    |-> Number(m, "core"),
                         nodes    |-> Number(m, "node"),
                         packages |-> Number(m, "package"),
                         ht       |-> HasThreads(m)]
BY DEF SummaryOf, HasThreads

\* One turn of the decoder's loop.
LEMMA SummaryStep ==
  ASSUME NEW list \in Seq(Entries), NEW k \in Nat, k < Len(list)
  PROVE  Counted(SummaryOf(First(list, k)), list[k + 1]) = SummaryOf(First(list, k + 1))
<1> DEFINE e == list[k + 1]
           m == First(list, k)
           n == First(list, k + 1)
           points(x) == [l \in 1..4 |-> LastCache(x, l)]
<1>1. e \in Entries
  OBVIOUS
<1>2. \A l : LastCache(n, l) = IF IsCache(e, l) THEN e.bytes ELSE LastCache(m, l)
  BY LastCacheStep
<1>3. \A rel : Number(n, rel) = IF e.rel = rel THEN Number(m, rel) + 1 ELSE Number(m, rel)
  BY NumberStep
<1>4. HasThreads(n) <=> HasThreads(m) \/ (e.rel = "core" /\ e.smt)
  BY ThreadsStep
<1>5. /\ SummaryOf(m) = [point |-> points(m), cores |-> Number(m, "core"), nodes |-> Number(m, "node"),
                         packages |-> Number(m, "package"), ht |-> HasThreads(m)]
      /\ SummaryOf(n) = [point |-> points(n), cores |-> Number(n, "core"), nodes |-> Number(n, "node"),
                         packages |-> Number(n, "package"), ht |-> HasThreads(n)]
  BY SummaryParts
<1>6. HasThreads(m) \in BOOLEAN /\ HasThreads(n) \in BOOLEAN /\ e.smt \in BOOLEAN
  BY <1>1 DEF HasThreads, Entries
<1>7. e.rel # "cache" => points(n) = points(m)
  BY <1>2 DEF IsCache
<1> SUFFICES Counted(SummaryOf(m), e) = SummaryOf(n)
  OBVIOUS
<1> HIDE DEF e, m, n
<1>8. CASE e.rel = "cache"
  <2>1. \A rel \in {"core", "node", "package"} : Number(n, rel) = Number(m, rel)
    BY <1>3, <1>8
  <2>2. HasThreads(n) = HasThreads(m)
    BY <1>4, <1>6, <1>8
  <2>3. CASE e.type \in {"unified", "data"} /\ e.level \in 1..4
    <3>1. points(n) = [points(m) EXCEPT ![e.level] = e.bytes]
      BY <1>2, <1>8, <2>3 DEF IsCache
    <3>2. Counted(SummaryOf(m), e) = [SummaryOf(m) EXCEPT !.point[e.level] = e.bytes]
      BY <1>8, <2>3 DEF Counted
    <3> HIDE DEF points
    <3> QED BY <1>5, <2>1, <2>2, <3>1, <3>2
  <2>4. CASE ~(e.type \in {"unified", "data"} /\ e.level \in 1..4)
    <3>1. points(n) = points(m)
      BY <1>2, <1>8, <2>4 DEF IsCache
    <3>2. Counted(SummaryOf(m), e) = SummaryOf(m)
      BY <1>8, <2>4 DEF Counted
    <3> HIDE DEF points
    <3> QED BY <1>5, <2>1, <2>2, <3>1, <3>2
  <2> QED BY <2>3, <2>4
<1> HIDE DEF points
<1>9. CASE e.rel = "core"
  <2>1. Counted(SummaryOf(m), e) =
          [SummaryOf(m) EXCEPT !.cores = @ + 1, !.ht = IF e.smt THEN TRUE ELSE @]
    BY <1>9 DEF Counted
  <2>2. HasThreads(n) = (HasThreads(m) \/ e.smt)
    BY <1>4, <1>6, <1>9
  <2>3. /\ Number(n, "core") = Number(m, "core") + 1
        /\ Number(n, "node") = Number(m, "node") /\ Number(n, "package") = Number(m, "package")
    BY <1>3, <1>9
  <2>4. Counted(SummaryOf(m), e) =
          [point |-> points(m), cores |-> Number(m, "core") + 1, nodes |-> Number(m, "node"),
           packages |-> Number(m, "package"), ht |-> IF e.smt THEN TRUE ELSE HasThreads(m)]
    <3>1. PICK r : r = SummaryOf(m)
      OBVIOUS
    <3>2. /\ r = [point |-> points(m), cores |-> Number(m, "core"), nodes |-> Number(m, "node"),
                  packages |-> Number(m, "package"), ht |-> HasThreads(m)]
          /\ Counted(SummaryOf(m), e) = [r EXCEPT !.cores = @ + 1, !.ht = IF e.smt THEN TRUE ELSE @]
      BY <1>5, <2>1, <3>1
    <3>3. CASE e.smt
      <4>1. Counted(SummaryOf(m), e) = [r EXCEPT !.cores = @ + 1, !.ht = TRUE]
        BY <3>2, <3>3
      <4> QED BY <3>2, <3>3, <4>1
    <3>4. CASE ~e.smt
      <4>1. Counted(SummaryOf(m), e) = [r EXCEPT !.cores = @ + 1]
        BY <3>2, <3>4
      <4> QED BY <3>2, <3>4, <4>1
    <3> QED BY <3>3, <3>4
  <2>6. (IF e.smt THEN TRUE ELSE HasThreads(m)) = HasThreads(n)
    BY <1>6, <2>2
  <2>5. points(n) = points(m)
    BY <1>7, <1>9
  <2> QED BY <1>5, <2>1, <2>3, <2>4, <2>5, <2>6
<1>10. CASE e.rel = "node"
  <2>1. Counted(SummaryOf(m), e) = [SummaryOf(m) EXCEPT !.nodes = @ + 1]
    BY <1>10 DEF Counted
  <2>2. HasThreads(n) = HasThreads(m)
    BY <1>4, <1>6, <1>10
  <2>3. /\ Number(n, "node") = Number(m, "node") + 1
        /\ Number(n, "core") = Number(m, "core") /\ Number(n, "package") = Number(m, "package")
    BY <1>3, <1>10
  <2> QED BY <1>5, <1>7, <1>10, <2>1, <2>2, <2>3
<1>11. CASE e.rel = "package"
  <2>1. Counted(SummaryOf(m), e) = [SummaryOf(m) EXCEPT !.packages = @ + 1]
    BY <1>11 DEF Counted
  <2>2. HasThreads(n) = HasThreads(m)
    BY <1>4, <1>6, <1>11
  <2>3. /\ Number(n, "package") = Number(m, "package") + 1
        /\ Number(n, "core") = Number(m, "core") /\ Number(n, "node") = Number(m, "node")
    BY <1>3, <1>11
  <2> QED BY <1>5, <1>7, <1>11, <2>1, <2>2, <2>3
<1>12. CASE e.rel = "group"
  <2>1. Counted(SummaryOf(m), e) = SummaryOf(m)
    BY <1>12 DEF Counted
  <2>2. HasThreads(n) = HasThreads(m)
    BY <1>4, <1>6, <1>12
  <2>3. \A rel \in {"core", "node", "package"} : Number(n, rel) = Number(m, rel)
    BY <1>3, <1>12
  <2> QED BY <1>5, <1>7, <1>12, <2>1, <2>2, <2>3
<1>13. QED
  <2>1. e.rel \in {"core", "node", "cache", "package", "group"}
    BY <1>1 DEF Entries
  <2> QED BY <1>8, <1>9, <1>10, <1>11, <1>12, <2>1

\* What the decoder's loop makes of a list, from a blank summary: its summary.
LEMMA DecodingSummarizes ==
  ASSUME NEW list \in Seq(Entries)
  PROVE  Decoded(BlankSummary, list) = SummaryOf(list)
<1>1. PICK f : /\ f = [k \in 0..Len(list) |->
                         IF k = 0 THEN BlankSummary ELSE Counted(f[k - 1], list[k])]
               /\ Decoded(BlankSummary, list) = f[Len(list)]
  BY DecodedIsLoop
<1> DEFINE S == {n \in Nat : n <= Len(list) => f[n] = SummaryOf(First(list, n))}
<1>2. 0 \in S
  <2>1. f[0] = BlankSummary
    BY <1>1
  <2>2. First(list, 0) = <<>>
    BY DEF First
  <2>3. \A rel : Number(<<>>, rel) = 0
    <3>1. \A rel : {i \in DOMAIN <<>> : <<>>[i].rel = rel} = {}
      OBVIOUS
    <3> QED BY <3>1, FS_EmptySet DEF Number
  <2>4. \A l : LastCache(<<>>, l) = 0
    BY DEF LastCache
  <2>5. HasThreads(<<>>) = FALSE
    BY DEF HasThreads
  <2>6. SummaryOf(<<>>) = BlankSummary
    BY <2>3, <2>4, <2>5, SummaryParts DEF BlankSummary
  <2> QED BY <2>1, <2>2, <2>6
<1>3. ASSUME NEW n \in Nat, n \in S PROVE n + 1 \in S
  <2>1. CASE n + 1 <= Len(list)
    <3>1. f[n + 1] = Counted(f[n], list[n + 1])
      <4>1. n + 1 \in 0..Len(list) /\ n + 1 # 0 /\ (n + 1) - 1 = n
        BY <2>1
      <4> QED BY <1>1, <4>1
    <3>2. f[n] = SummaryOf(First(list, n)) /\ n < Len(list)
      BY <1>3, <2>1
    <3>3. f[n + 1] = SummaryOf(First(list, n + 1))
      BY <3>1, <3>2, SummaryStep
    <3> QED BY <3>3
  <2> QED BY <2>1
<1>4. Len(list) \in S
  <2> HIDE DEF S
  <2>1. Nat \subseteq S
    BY <1>2, <1>3, SetInduction
  <2> QED BY <2>1
<1>5. First(list, Len(list)) = list
  BY DEF First
<1> QED BY <1>1, <1>4, <1>5

-----------------------------------------------------------------------------
\* The buffer of a has been decoded.
IsDecoded(a) == tpc \in {"detected", "freed"} \/ (a = "std" /\ tpc = "decode ex")

\* What has been written is a list the system reported; a summary is blank until its
\* list is decoded, and then that of one list; without the function it stays blank, and
\* only a failed call leads out of the decoding. That a decoded summary is true would not
\* survive the decoding alone, which takes the list from the buffer and adds to what is there.
SummaryInv ==
  /\ machine \in seen
  /\ summary \in [Apis -> {summary[a] : a \in Apis}]
  /\ \A a \in Apis : filled[a] => entries[a] \in seen
  /\ \A a \in Apis : (~IsDecoded(a) /\ tpc \notin {"hung", "crashed"}) => summary[a] = BlankSummary
  /\ \A a \in apis : (IsDecoded(a) /\ ~failed) => \E m \in seen : summary[a] = SummaryOf(m)
  /\ \A a \in Apis \ apis : summary[a] = BlankSummary
  /\ tpc \in {"hung", "crashed"} => failed

\* Before the decoding every summary is blank.
LEMMA SummaryInitial == TopologyInit => SummaryInv
<1> SUFFICES ASSUME TopologyInit PROVE SummaryInv
  OBVIOUS
<1>1. summary \in [Apis -> {summary[a] : a \in Apis}]
  BY DEF TopologyInit
<1> QED BY <1>1 DEF SummaryInv, TopologyInit, IsDecoded

\* A list that is written, one that is decoded, and everything else.
LEMMA SummaryInvStep == TopologyInv /\ SummaryInv /\ [TopologyNext]_topologyVars => SummaryInv'
<1> SUFFICES ASSUME TopologyInv, SummaryInv, [TopologyNext]_topologyVars PROVE SummaryInv'
  OBVIOUS
<1>t. apis \subseteq Apis /\ filled \in [Apis -> BOOLEAN] /\ DOMAIN entries = Apis
  BY DEF TopologyInv, TopologyTypeOK
<1>s. summary \in [Apis -> {summary[a] : a \in Apis}]
  BY DEF SummaryInv
<1> USE DEF SummaryInv
<1>1. CASE MachineChanges
  BY <1>1 DEF MachineChanges, IsDecoded, buffers
<1>2. ASSUME NEW a \in Apis, QueryAbsent(a) PROVE SummaryInv'
  BY <1>2, <1>t DEF QueryAbsent, Leave, IsDecoded, Apis, world, buffers
<1>3. ASSUME NEW a \in Apis, QueryFills(a) PROVE SummaryInv'
  <2>1. UNCHANGED <<machine, seen, apis, summary, failed>>
    BY <1>3 DEF QueryFills, world
  <2>2. \A b \in Apis : filled'[b] => entries'[b] \in seen
    BY <1>3, <1>t DEF QueryFills
  <2>3. /\ tpc = a /\ tpc' \in {"ex", "decode std"}
        /\ \A b \in Apis : ~IsDecoded(b) /\ ~IsDecoded(b)'
    BY <1>3 DEF QueryFills, Leave, IsDecoded, Apis
  <2>4. tpc \notin {"hung", "crashed"}
    BY <2>3 DEF Apis
  <2> QED BY <1>t, <2>1, <2>2, <2>3, <2>4
<1>4. ASSUME NEW a \in Apis, QueryGrows(a) PROVE SummaryInv'
  <2>1. UNCHANGED <<machine, seen, apis, filled, entries, summary>>
    BY <1>4 DEF QueryGrows, world
  <2>2. /\ tpc = a /\ tpc' \in {"std", "ex", "decode std"}
        /\ \A b \in Apis : ~IsDecoded(b) /\ ~IsDecoded(b)'
    BY <1>4 DEF QueryGrows, Leave, IsDecoded, Apis
  <2>3. tpc \notin {"hung", "crashed"}
    BY <2>2 DEF Apis
  <2> QED BY <1>t, <2>1, <2>2, <2>3
<1>5. ASSUME NEW a \in Apis, QueryFails(a) PROVE SummaryInv'
  BY <1>5, <1>t DEF QueryFails, Leave, IsDecoded, Apis, world, buffers
<1>6. ASSUME NEW a \in Apis, Decode(a) PROVE SummaryInv'
  <2>1. UNCHANGED <<machine, seen, apis, size, filled, entries, failed>>
    BY <1>6 DEF Decode, world, buffers
  <2>2. /\ tpc = IF a = "std" THEN "decode std" ELSE "decode ex"
        /\ tpc' \in {"decode ex", "detected", "hung", "crashed"}
        /\ tpc' \in {"decode ex", "detected"} => tpc' = IF a = "std" THEN "decode ex" ELSE "detected"
    BY <1>6 DEF Decode, DecodeGarbage, Proceed
  <2>3. CASE tpc' \in {"hung", "crashed"}
    <3>1. summary' = summary
      BY <1>6, <2>3 DEF Decode, DecodeGarbage, Proceed
    <3>2. \A b \in Apis : ~IsDecoded(b)'
      BY <2>3 DEF IsDecoded
    <3>3. failed
      <4>1. size[a] > 0 /\ (room[a] = 0 \/ (room[a] > 0 /\ ~filled[a]))
        BY <1>6, <2>3 DEF Decode, Proceed
      <4>2. (~failed /\ a \in apis) => filled[a] /\ size[a] <= room[a]
        BY <2>2 DEF TopologyInv, BufferInv, Asking, Apis
      <4>3. a \notin apis => size[a] = 0
        BY DEF TopologyInv, BufferInv
      <4>4. size[a] \in Nat /\ room[a] \in Nat
        BY DEF TopologyInv, TopologyTypeOK
      <4> QED BY <4>1, <4>2, <4>3, <4>4
    <3> QED BY <1>t, <2>1, <2>3, <3>1, <3>2, <3>3
  <2>4. CASE tpc' \in {"decode ex", "detected"}
    <3>1. /\ \A b \in Apis : IsDecoded(b)' <=> (b = a \/ IsDecoded(b))
          /\ ~IsDecoded(a) /\ tpc \notin {"hung", "crashed"}
      BY <2>2, <2>4 DEF IsDecoded, Apis
    <3>2. summary[a] = BlankSummary
      BY <3>1
    <3>3. \E s : summary' = [summary EXCEPT ![a] = s]
      <4>1. summary = [summary EXCEPT ![a] = summary[a]]
        BY <1>s
      <4> QED BY <1>6, <2>4, <4>1 DEF Decode, DecodeGarbage
    <3>4. \A b \in Apis : b # a => summary'[b] = summary[b]
      BY <1>s, <3>3
    <3>5. summary' \in [Apis -> {summary'[b] : b \in Apis}]
      BY <1>s, <3>3
    <3>6. ASSUME a \in apis, ~failed PROVE \E m \in seen : summary'[a] = SummaryOf(m)
      <4>1. filled[a] /\ Len(entries[a]) = size[a] /\ size[a] <= room[a] /\ room[a] \in Nat
        BY <2>2, <3>6 DEF TopologyInv, TopologyTypeOK, BufferInv, Asking, Apis
      <4>2. entries[a] \in seen /\ entries[a] \in Topologies
        BY <4>1 DEF TopologyInv, TopologyTypeOK
      <4>3. entries[a] \in Seq(Entries) /\ Len(entries[a]) \in Nat /\ Len(entries[a]) > 0
        BY <4>2, LengthOfList, TopologyAssumption
      <4>4. size[a] # 0 /\ ~(size[a] > 0 /\ room[a] = 0)
        BY <4>1, <4>3
      <4>5. summary' = [summary EXCEPT ![a] = Decoded(summary[a], entries[a])]
        BY <1>6, <4>1, <4>4 DEF Decode
      <4>6. summary'[a] = Decoded(BlankSummary, entries[a])
        BY <1>s, <3>2, <4>5
      <4> QED BY <4>2, <4>3, <4>6, DecodingSummarizes
    <3>7. ASSUME a \notin apis PROVE summary' = summary
      <4>1. size[a] = 0 /\ ~(size[a] > 0)
        BY <3>7 DEF TopologyInv, BufferInv
      <4> QED BY <1>6, <4>1 DEF Decode
    <3>8. \A b \in Apis \ apis : summary'[b] = BlankSummary
      BY <3>4, <3>7
    <3> QED BY <1>t, <2>1, <2>2, <2>4, <3>1, <3>2, <3>4, <3>5, <3>6, <3>8
  <2> QED BY <2>2, <2>3, <2>4
<1>7. CASE FreeTopology
  BY <1>7 DEF FreeTopology, IsDecoded, world, buffers
<1>8. CASE UNCHANGED topologyVars
  BY <1>8 DEF topologyVars, world, buffers, IsDecoded
<1> QED BY <1>1, <1>2, <1>3, <1>4, <1>5, <1>6, <1>7, <1>8 DEF TopologyNext, Detect

\* The buffers of the topology detector are in order at every moment.
THEOREM TopologyInvariance == TopologySpec => []TopologyInv
BY TopologyInitial, TopologyStep, PTL DEF TopologySpec

\* Type correctness of the detector.
THEOREM TopologyTypeCorrect == TopologySpec => []TopologyTypeOK
<1>1. TopologyInv => TopologyTypeOK
  BY DEF TopologyInv
<1> QED BY <1>1, TopologyInvariance, PTL

\* A call never gets a length beyond its buffer, however often the list of the
\* processors grows between two calls.
THEOREM CallsStayInside == TopologySpec => []BufferFits
<1>1. TopologyInv => BufferFits
  BY DEF TopologyInv, BufferInv, BufferFits, Asking, Apis
<1> QED BY <1>1, TopologyInvariance, PTL

\* Each buffer is freed exactly once, in the loop or by the destructor.
THEOREM BuffersAreOwned == TopologySpec => []BuffersOwned
<1>1. TopologyInv => BuffersOwned
  BY DEF TopologyInv, BufferInv, BuffersOwned
<1> QED BY <1>1, TopologyInvariance, PTL

\* The decoding reads what the system has written, unless a call has failed for
\* another reason than the length of the buffer.
THEOREM DecodingReadsWritten == TopologySpec => []DecodesWritten
<1>1. TopologyInv => DecodesWritten
  BY DEF TopologyInv, BufferInv, DecodesWritten, Asking, Apis
<1> QED BY <1>1, TopologyInvariance, PTL

\* The lists and the summaries are in order at every moment.
THEOREM SummaryInvariance == TopologySpec => []SummaryInv
BY SummaryInitial, SummaryInvStep, TopologyInvariance, PTL DEF TopologySpec

\* Each summary describes one topology the system has had, however often it changed
\* between and after the queries, when its function is there and no call has failed: the
\* benchmark never takes its cache sizes from one and its cores from another.
THEOREM SummariesAreTrue == TopologySpec => []SummaryIsTrue
<1>1. TopologyInv /\ SummaryInv => SummaryIsTrue
  BY DEF TopologyInv, TopologyTypeOK, SummaryInv, SummaryIsTrue, IsDecoded
<1> QED BY <1>1, TopologyInvariance, SummaryInvariance, PTL

-----------------------------------------------------------------------------
(* The start of the benchmark.                                             *)

\* Each step of maintask is a step of the detector or leaves it alone.
LEMMA StartStep == [StartNext]_vars => [TopologyNext]_topologyVars
<1> SUFFICES ASSUME [StartNext]_vars PROVE [TopologyNext]_topologyVars
  OBVIOUS
<1>1. CASE ParseArgument
  BY <1>1 DEF ParseArgument
<1>2. CASE DetectProcessor
  BY <1>2 DEF DetectProcessor
<1>3. CASE DetectTopology
  BY <1>3 DEF DetectTopology, TopologyNext
<1>4. CASE DetectPaging
  BY <1>4 DEF DetectPaging
<1>5. CASE Resolve \/ RunThreads \/ CountRows \/ Calibrate \/ Measure
  BY <1>5 DEF Resolve, RunThreads, CountRows, Calibrate, Measure
<1>6. CASE Delete
  BY <1>6 DEF Delete, TopologyNext
<1>7. CASE MachineMoves
  BY <1>7 DEF MachineMoves, TopologyNext
<1>8. CASE Stopped \/ UNCHANGED vars
  BY <1>8 DEF Stopped, vars
<1> QED BY <1>1, <1>2, <1>3, <1>4, <1>5, <1>6, <1>7, <1>8 DEF StartNext, Step

\* maintask implements the specification of the topology detector: it constructs it
\* once, deletes it at most once, and touches its buffers nowhere else.
THEOREM StartUsesDetector == StartSpec => TopologySpec
<1>1. StartInit => TopologyInit
  BY DEF StartInit
<1> QED BY <1>1, StartStep, PTL DEF StartSpec, TopologySpec

\* In the whole start of the benchmark no query of the topology is given a length
\* beyond its buffer, and no buffer of the detector leaks or is freed twice.
THEOREM StartKeepsBuffers == StartSpec => []BuffersSafe
<1>1. BufferFits /\ BuffersOwned => BuffersSafe
  BY DEF BuffersSafe
<1> QED BY <1>1, StartUsesDetector, CallsStayInside, BuffersAreOwned, PTL

\* The sizes and numbers execute() works with come from lists the system has written,
\* unless a call has failed.
THEOREM StartDecodesWritten == StartSpec => []DecodesWritten
BY StartUsesDetector, DecodingReadsWritten, PTL

\* The cache sizes and numbers of cores that execute() works with are those of one
\* topology the system has had while the benchmark started.
THEOREM StartSummarizes == StartSpec => []SummaryIsTrue
BY StartUsesDetector, SummariesAreTrue, PTL

-----------------------------------------------------------------------------
(* The parser.                                                             *)

\* The arguments among the first n that name an option, and what the option is after
\* they have been parsed.
NamingFirst(o, n) == {i \in 1..n : line[i][1] = o}
ValueAfter(o, n) ==
  IF NamingFirst(o, n) = {} THEN Defaults[o] ELSE Stored(o, line[Max(NamingFirst(o, n))][2])

\* n arguments are done: the others wait, the options are as the n make them, a rejected
\* line has an argument that is not understood next, and only a long argument stops the
\* parser without a word.
ParsedFirst(n) ==
  /\ args = SubSeq(line, n + 1, Len(line))
  /\ pc = "rejected" => n < Len(line) /\ ~Accepted(line[n + 1][1], line[n + 1][2])
  /\ pc \in {"parse", "rejected"} \/ n = Len(line)
       \/ (pc = "crashed" /\ \E i \in DOMAIN line : line[i][3])
  /\ parms = [o \in Options |-> ValueAfter(o, n)]
  /\ \A i \in 1..n : Accepted(line[i][1], line[i][2])

\* ParseIsExact speaks of the end of the parser only; this of each turn of its loop.
ParseInv == line \in CommandLines /\ \E n \in 0..Len(line) : ParsedFirst(n)

\* A command line is a list.
LEMMA LineIsList ==
  ASSUME NEW l \in CommandLines
  PROVE  Len(l) \in Nat /\ DOMAIN l = 1..Len(l) /\ \E S : l \in Seq(S)
<1>1. \E S : l \in Seq(S)
  BY LinesAssumption
<1> QED BY <1>1

\* One more argument sets the option it names.
LEMMA ValueStep ==
  ASSUME line \in CommandLines, NEW n \in 0..Len(line), n < Len(line), NEW o
  PROVE  ValueAfter(o, n + 1) =
           IF line[n + 1][1] = o THEN Stored(o, line[n + 1][2]) ELSE ValueAfter(o, n)
<1> DEFINE A == NamingFirst(o, n)
           B == NamingFirst(o, n + 1)
<1>0. n \in Nat
  BY LineIsList
<1>1. CASE line[n + 1][1] = o
  <2>1. n + 1 \in B /\ \A j \in B : j \in Nat /\ j <= n + 1
    BY <1>0, <1>1 DEF NamingFirst
  <2> HIDE DEF B
  <2>2. Max(B) = n + 1
    <3>1. \A i \in B : (\A j \in B : i >= j) => i = n + 1
      BY <1>0, <2>1
    <3>2. \A j \in B : n + 1 >= j
      BY <1>0, <2>1
    <3> QED BY <2>1, <3>1, <3>2 DEF Max
  <2> QED BY <1>1, <2>1, <2>2 DEF ValueAfter, B
<1>2. CASE line[n + 1][1] # o
  <2>1. A = B
    BY <1>0, <1>2 DEF NamingFirst
  <2> QED BY <1>2, <2>1 DEF ValueAfter
<1> QED BY <1>1, <1>2

\* Only an option of the tables is accepted.
LEMMA AcceptedIsOption == ASSUME NEW o, NEW v, Accepted(o, v) PROVE o \in Options
BY DEF Accepted, Options

\* Before the first argument every option has its default.
LEMMA ParseInitial == StartInit => ParseInv
<1> SUFFICES ASSUME StartInit PROVE ParseInv
  OBVIOUS
<1>1. line \in CommandLines /\ args = line /\ pc = "parse" /\ parms = Defaults
  BY DEF StartInit
<1>2. SubSeq(line, 0 + 1, Len(line)) = line
  BY <1>1, LineIsList
<1>3. \A o \in Options : ValueAfter(o, 0) = Defaults[o]
  <2>1. \A o : NamingFirst(o, 0) = {}
    BY DEF NamingFirst
  <2> QED BY <2>1 DEF ValueAfter
<1>4. parms = [o \in Options |-> ValueAfter(o, 0)]
  BY <1>1, <1>3 DEF Defaults
<1>5. 0 \in 0..Len(line)
  BY <1>1, LineIsList
<1> QED BY <1>1, <1>2, <1>4, <1>5 DEF ParseInv, ParsedFirst

\* When no argument waits, all of them are done.
LEMMA NothingWaits ==
  ASSUME line \in CommandLines, NEW n \in 0..Len(line), SubSeq(line, n + 1, Len(line)) = <<>>
  PROVE  n = Len(line)
<1>1. Len(line) \in Nat
  BY LineIsList
<1>2. PICK S : line \in Seq(S)
  BY LineIsList
<1>3. Len(SubSeq(line, n + 1, Len(line))) = Len(line) - n
  BY <1>1, <1>2
<1>4. Len(<<>>) = 0
  OBVIOUS
<1>5. Len(line) - n = 0
  BY <1>3, <1>4
<1> QED BY <1>1, <1>5

\* A step after the parser, which is never entered again.
LEMMA AfterParser ==
  ASSUME [StartNext]_vars, ~ParseArgument
  PROVE  /\ UNCHANGED <<parms, line, args>>
         /\ \/ pc = "parse" /\ args = <<>> /\ pc' \notin {"parse", "rejected"}
            \/ pc \notin {"parse", "rejected", "crashed"} /\ pc' \notin {"parse", "rejected"}
            \/ UNCHANGED pc
<1>1. CASE DetectProcessor
  BY <1>1 DEF DetectProcessor, Goto, options
<1>2. CASE DetectTopology
  BY <1>2 DEF DetectTopology, options
<1>3. CASE DetectPaging
  BY <1>3 DEF DetectPaging, Goto, options
<1>4. CASE Resolve
  BY <1>4 DEF Resolve, Goto, options
<1>5. CASE RunThreads
  BY <1>5 DEF RunThreads, Round, Goto, options
<1>6. CASE CountRows
  <2>1. pc = "rows" /\ UNCHANGED <<parms, line, args>>
    BY <1>6 DEF CountRows, options
  <2>2. pc' \in {"crashed", "delete", "calibrate"}
    BY <1>6 DEF CountRows, Goto
  <2> QED BY <2>1, <2>2
<1>7. CASE Calibrate
  BY <1>7 DEF Calibrate, Round, Goto, options
<1>8. CASE Measure
  <2>1. pc = "measure" /\ UNCHANGED <<parms, line, args>>
    BY <1>8 DEF Measure, options
  <2>2. pc' \in {"crashed", "delete", "row"}
    BY <1>8 DEF Measure, Goto
  <2> QED BY <2>1, <2>2
<1>9. CASE Delete
  BY <1>9 DEF Delete, Goto, options
<1>10. CASE MachineMoves \/ Stopped \/ UNCHANGED vars
  BY <1>10 DEF MachineMoves, Stopped, vars, startVars, options
<1> QED BY <1>1, <1>2, <1>3, <1>4, <1>5, <1>6, <1>7, <1>8, <1>9, <1>10 DEF StartNext, Step

\* The parser takes one argument more, and nothing after it changes an option.
LEMMA ParseStep == ParseInv /\ [StartNext]_vars => ParseInv'
<1> SUFFICES ASSUME ParseInv, [StartNext]_vars PROVE ParseInv'
  OBVIOUS
<1>1. line \in CommandLines /\ Len(line) \in Nat
  BY LineIsList DEF ParseInv
<1>2. PICK n \in 0..Len(line) : ParsedFirst(n)
  BY DEF ParseInv
<1>3. CASE ParseArgument
  <2>1. pc = "parse" /\ args # <<>> /\ line' = line
    BY <1>3 DEF ParseArgument
  <2>2. args = SubSeq(line, n + 1, Len(line)) /\ parms = [o \in Options |-> ValueAfter(o, n)]
    BY <1>2 DEF ParsedFirst
  <2>3. n < Len(line) /\ n \in Nat
    BY <1>1, <2>1, <2>2
  <2>4. Head(args) = line[n + 1] /\ Tail(args) = SubSeq(line, n + 2, Len(line))
    BY <1>1, <2>2, <2>3, LineIsList
  <2> DEFINE a == line[n + 1][1]
             v == line[n + 1][2]
  <2>5. CASE Accepted(a, v) /\ parms' = [parms EXCEPT ![a] = Stored(a, v)]
               /\ args' = Tail(args) /\ pc' = pc
    <3>1. parms' = [parms EXCEPT ![a] = Stored(a, v)] /\ args' = Tail(args) /\ pc' = pc
      BY <2>5
    <3>2. a \in Options
      BY <2>5, AcceptedIsOption
    <3>3. parms' = [o \in Options |-> ValueAfter(o, n + 1)]
      <4>1. \A o \in Options : parms'[o] = ValueAfter(o, n + 1)
        BY <1>1, <2>2, <2>3, <3>1, <3>2, ValueStep
      <4>2. parms' = [o \in Options |-> parms'[o]]
        BY <2>2, <3>1
      <4> QED BY <4>1, <4>2
    <3>4. n + 1 \in 0..Len(line) /\ (n + 1) + 1 = n + 2
      BY <1>1, <2>3
    <3>5. args' = SubSeq(line', (n + 1) + 1, Len(line'))
      BY <2>1, <2>4, <3>1, <3>4
    <3>6. parms' = [o \in Options |-> ValueAfter(o, n + 1)']
      BY <2>1, <3>3 DEF ValueAfter, NamingFirst
    <3>7. \A i \in 1..(n + 1) : Accepted(line'[i][1], line'[i][2])
      BY <1>2, <2>1, <2>3, <2>5 DEF ParsedFirst
    <3>8. ParsedFirst(n + 1)'
      BY <2>1, <3>1, <3>5, <3>6, <3>7 DEF ParsedFirst
    <3> QED BY <1>1, <2>1, <3>4, <3>8 DEF ParseInv
  <2>6. CASE ~Accepted(a, v) /\ pc' = "rejected" /\ parms' = parms /\ args' = args
    <3>1. ParsedFirst(n)'
      BY <1>2, <2>1, <2>3, <2>6 DEF ParsedFirst, ValueAfter, NamingFirst
    <3> QED BY <1>1, <2>1, <3>1 DEF ParseInv
  <2>7. CASE line[n + 1][3] /\ pc' = "crashed" /\ parms' = parms /\ args' = args
    <3>1. n + 1 \in DOMAIN line /\ n + 1 \in DOMAIN line'
      BY <1>1, <2>1, <2>3, LineIsList
    <3>2. ParsedFirst(n)'
      BY <1>2, <2>1, <2>7, <3>1 DEF ParsedFirst, ValueAfter, NamingFirst
    <3> QED BY <1>1, <2>1, <3>2 DEF ParseInv
  <2> QED BY <1>3, <2>4, <2>5, <2>6, <2>7 DEF ParseArgument, Goto
<1>4. CASE ~ParseArgument
  <2>1. UNCHANGED <<parms, line>>
    BY <1>4, AfterParser
  <2>2. args = <<>> => n = Len(line)
    BY <1>1, <1>2, NothingWaits DEF ParsedFirst
  <2>3. ParsedFirst(n)'
    BY <1>2, <1>4, <2>1, <2>2, AfterParser DEF ParsedFirst, ValueAfter, NamingFirst
  <2> QED BY <1>1, <2>1, <2>3 DEF ParseInv
<1> QED BY <1>3, <1>4

\* An option that no argument names has its default, and another the value of the last
\* argument that names it, which was accepted.
LEMMA OptionIsLast ==
  ASSUME ParseInv, NEW n \in 0..Len(line), ParsedFirst(n), NEW o \in Options
  PROVE  IF NamingFirst(o, n) = {} THEN parms[o] = Defaults[o]
         ELSE LET m == Max(NamingFirst(o, n))
              IN /\ m \in DOMAIN line /\ line[m][1] = o /\ Accepted(o, line[m][2])
                 /\ parms[o] = Stored(o, line[m][2])
<1>1. line \in CommandLines /\ Len(line) \in Nat /\ DOMAIN line = 1..Len(line)
  BY LineIsList DEF ParseInv
<1> DEFINE C == NamingFirst(o, n)
<1>2. parms[o] = IF C = {} THEN Defaults[o] ELSE Stored(o, line[Max(C)][2])
  BY DEF ParsedFirst, ValueAfter
<1>3. ASSUME C # {} PROVE Max(C) \in C
  <2>1. n \in Nat /\ C \in SUBSET (1..n)
    BY <1>1 DEF NamingFirst
  <2> HIDE DEF C
  <2>2. PICK x \in C : \A y \in C : y <= x
    BY <1>3, <2>1, LastPosition
  <2>3. \A y \in C : x >= y
    BY <2>1, <2>2
  <2> QED BY <2>2, <2>3 DEF Max
<1>4. ASSUME C # {} PROVE Max(C) \in DOMAIN line /\ line[Max(C)][1] = o /\ Max(C) \in 1..n
  <2>1. PICK m : m = Max(C)
    OBVIOUS
  <2>2. m \in 1..n /\ line[m][1] = o
    BY <1>3, <1>4, <2>1 DEF NamingFirst
  <2>3. m \in DOMAIN line
    BY <1>1, <2>2
  <2> QED BY <2>1, <2>2, <2>3
<1>5. ASSUME C # {} PROVE Accepted(o, line[Max(C)][2])
  BY <1>4, <1>5 DEF ParsedFirst
<1> QED BY <1>2, <1>4, <1>5

\* The value of an option is its default or that of an argument which was accepted.
LEMMA OptionValue ==
  ASSUME ParseInv, NEW o \in Options
  PROVE  \/ parms[o] = Defaults[o]
         \/ \E i \in DOMAIN line : /\ line[i][1] = o /\ Accepted(o, line[i][2])
                                   /\ parms[o] = Stored(o, line[i][2])
<1>1. PICK n \in 0..Len(line) : ParsedFirst(n)
  BY DEF ParseInv
<1> QED BY <1>1, OptionIsLast

\* The least element of a set of numbers is in it.
LEMMA LeastIsIn == ASSUME NEW S, S \subseteq Nat, S # {} PROVE Min(S) \in S
<1>1. \E x \in S : \A y \in S : x <= y
  BY NatMin
<1> QED BY <1>1 DEF Min

\* The value of an option with a table is the position of the word, counted from 0.
LEMMA KeyValue ==
  ASSUME NEW o \in DOMAIN Keys, NEW n \in Nat, DOMAIN Keys[o] = 1..n,
         NEW v, Accepted(o, v)
  PROVE  Stored(o, v) \in 0..(n - 1) /\ Keys[o][Stored(o, v) + 1] = v[2]
<1> DEFINE S == {j \in DOMAIN Keys[o] : Keys[o][j] = v[2]}
<1>1. o \notin Numbers /\ o \notin Memories
  BY DEF Keys, Numbers, Memories
<1>2. PICK t, w : t = Keys[o] /\ w = v[2]
  OBVIOUS
<1>3. v[1] = "key" /\ w \in {t[j] : j \in DOMAIN t}
  BY <1>1, <1>2 DEF Accepted, Range
<1>4. Stored(o, v) = Min(S) - 1
  BY <1>3 DEF Stored
<1>5. S # {} /\ S \subseteq Nat
  BY <1>2, <1>3
<1>6. ASSUME NEW j \in S PROVE j \in 1..n /\ Keys[o][j] = v[2]
  OBVIOUS
<1> HIDE DEF S
<1>7. PICK i \in 1..n : i = Min(S) /\ Keys[o][i] = v[2]
  BY <1>5, <1>6, LeastIsIn
<1>8. Stored(o, v) = i - 1 /\ (i - 1) + 1 = i /\ i - 1 \in 0..(n - 1)
  BY <1>4, <1>7
<1> QED BY <1>7, <1>8

\* The table of an option is a list.
LEMMA KeysAreLists == \A o \in DOMAIN Keys : \E n \in Nat : DOMAIN Keys[o] = 1..n
<1>1. /\ DOMAIN Keys["help"] = 1..2 /\ DOMAIN Keys["info"] = 1..9 /\ DOMAIN Keys["test"] = 1..6
      /\ DOMAIN Keys["out"] = 1..2 /\ DOMAIN Keys["asm"] = 1..51 /\ DOMAIN Keys["memory"] = 1..5
      /\ DOMAIN Keys["page"] = 1..2 /\ DOMAIN Keys["ht"] = 1..2 /\ DOMAIN Keys["numa"] = 1..3
  BY DEF Keys
<1>2. DOMAIN Keys = {"help", "info", "test", "out", "asm", "memory", "page", "ht", "numa"}
  BY DEF Keys
<1> QED BY <1>1, <1>2

\* A number is stored as it is written if an int has room for it, and as the largest int
\* otherwise.
LEMMA StoredIs ==
  ASSUME NEW l \in CommandLines, NEW i \in DOMAIN l, NEW o \in Options, Accepted(o, l[i][2])
  PROVE  LET v == l[i][2]
             n == IF Fits(v) THEN v[2] ELSE IntModulus \div 2 - 1
         IN CASE v[1] = "num"  -> Stored(o, v) = n
              [] v[1] = "size" -> Stored(o, v) = n * Unit(v[3])
              [] v[1] = "key"  -> Keys[o][Stored(o, v) + 1] = v[2]
<1> DEFINE v == l[i][2]
           n == IF Fits(v) THEN v[2] ELSE IntModulus \div 2 - 1
<1>1. ASSUME v[1] \in {"num", "size"} PROVE AsciiToInt(v[2]) = n
  <2>1. v[2] \in Nat
    BY <1>1, LinesAssumption
  <2>2. PICK h \in Int : h = IntModulus \div 2
    BY PlatformAssumption
  <2> QED BY <1>1, <2>1, <2>2 DEF AsciiToInt, MaxInt, Fits
<1>2. CASE v[1] = "num"
  BY <1>1, <1>2 DEF Stored
<1>3. CASE v[1] = "size"
  BY <1>1, <1>3 DEF Stored
<1>4. CASE v[1] = "key"
  <2>1. o \in DOMAIN Keys
    BY <1>4 DEF Accepted, Options
  <2>2. PICK k \in Nat : DOMAIN Keys[o] = 1..k
    BY <2>1, KeysAreLists
  <2>3. PICK w : w = v
    OBVIOUS
  <2>4. Keys[o][Stored(o, w) + 1] = w[2]
    BY <2>1, <2>2, <2>3, KeyValue
  <2> QED BY <1>4, <2>3, <2>4
<1>5. v[1] \in {"num", "size", "key"}
  BY DEF Accepted, Options
<1> QED BY <1>2, <1>3, <1>4, <1>5

\* For every command line: the parser refuses it only for an argument it does not
\* understand. When it has got to the end, it has understood all of them, and each option
\* has the value that is written in its last argument; a number beyond an int is cut.
THEOREM ParsingIsExact == StartSpec => []ParseIsExact
<1>1. ParseInv => ParseIsExact
  <2> SUFFICES ASSUME ParseInv PROVE ParseIsExact
    OBVIOUS
  <2>1. line \in CommandLines /\ Len(line) \in Nat /\ DOMAIN line = 1..Len(line)
    BY LineIsList DEF ParseInv
  <2>2. PICK n \in 0..Len(line) : ParsedFirst(n)
    BY DEF ParseInv
  <2>3. pc = "rejected" => \E i \in DOMAIN line : ~Accepted(line[i][1], line[i][2])
    BY <2>1, <2>2 DEF ParsedFirst
  <2>4. ASSUME args = <<>> PROVE n = Len(line)
    BY <2>1, <2>2, <2>4, NothingWaits DEF ParsedFirst
  <2>5. ASSUME args = <<>>, NEW i \in DOMAIN line PROVE Accepted(line[i][1], line[i][2])
    BY <2>1, <2>2, <2>4, <2>5 DEF ParsedFirst
  <2>6. ASSUME args = <<>>, NEW o \in Options, Naming(o) = {} PROVE parms[o] = Defaults[o]
    <3>1. NamingFirst(o, n) = {}
      BY <2>1, <2>4, <2>6 DEF NamingFirst, Naming
    <3> QED BY <2>2, <2>6, <3>1, OptionIsLast
  <2>7. ASSUME args = <<>>, NEW o \in Options, Naming(o) # {}
        PROVE  LET v == Written(o)
                   k == IF Fits(v) THEN v[2] ELSE IntModulus \div 2 - 1
               IN CASE v[1] = "num"  -> parms[o] = k
                    [] v[1] = "size" -> parms[o] = k * Unit(v[3])
                    [] v[1] = "key"  -> Keys[o][parms[o] + 1] = v[2]
    <3>1. NamingFirst(o, n) = Naming(o)
      BY <2>1, <2>4, <2>7 DEF NamingFirst, Naming
    <3>2. PICK m \in DOMAIN line : /\ m = Max(Naming(o)) /\ Accepted(o, line[m][2])
                                   /\ parms[o] = Stored(o, line[m][2])
      BY <2>2, <2>7, <3>1, OptionIsLast
    <3>3. PICK p : p = Stored(o, line[m][2])
      OBVIOUS
    <3> QED BY <2>1, <3>2, <3>3, StoredIs DEF Written
  <2> QED BY <2>3, <2>5, <2>6, <2>7 DEF ParseIsExact
<1> QED BY <1>1, ParseInitial, ParseStep, PTL DEF StartSpec

-----------------------------------------------------------------------------
(* The tables of the processor. A bitmap is followed as the set of the     *)
(* classes whose methods it has.                                           *)

Names == DOMAIN Class
Methods(P) == UNION {Class[c] : c \in P}

\* What a row of a table does to the set of classes.
PatchedNames(have, P, row) ==
  CASE row[1] = "uncond" -> P \cup {row[3]}
    [] row[1] = "or"     -> IF row[2] \subseteq have THEN P \cup {row[3]} ELSE P
    [] row[1] = "and"    -> IF row[2] \subseteq have THEN P ELSE P \ {row[3]}

IsRow(row) == row[1] \in {"uncond", "or", "and"} /\ row[3] \in Names

\* No method belongs to two classes.
LEMMA ClassesDisjoint ==
  ASSUME NEW c \in Names, NEW d \in Names, NEW m, m \in Class[c], m \in Class[d]
  PROVE  c = d
BY DEF Names, Class

\* The methods of common classes are the common methods.
LEMMA MethodsMeet ==
  ASSUME NEW P \in SUBSET Names, NEW Q \in SUBSET Names
  PROVE  Methods(P) \cap Methods(Q) = Methods(P \cap Q)
BY ClassesDisjoint DEF Methods

\* A row of a table adds the methods of its class, takes them away or does nothing.
LEMMA RowPatches ==
  ASSUME NEW have, NEW P \in SUBSET Names, NEW row, IsRow(row)
  PROVE  /\ PatchedNames(have, P, row) \in SUBSET Names
         /\ Patched(have, Methods(P), row) = Methods(PatchedNames(have, P, row))
<1> DEFINE c == row[3]
<1>1. c \in Names
  BY DEF IsRow
<1>2. Methods(P) \cup Class[c] = Methods(P \cup {c})
  BY DEF Methods
<1>3. Methods(P) \ Class[c] = Methods(P \ {c})
  BY <1>1, ClassesDisjoint DEF Methods
<1>4. CASE row[1] = "uncond"
  BY <1>1, <1>2, <1>4 DEF Patched, PatchedNames
<1>5. CASE row[1] = "or"
  BY <1>1, <1>2, <1>5 DEF Patched, PatchedNames, HasFeature
<1>6. CASE row[1] = "and"
  BY <1>1, <1>3, <1>6 DEF Patched, PatchedNames, HasFeature
<1> QED BY <1>4, <1>5, <1>6 DEF IsRow

\* The loop over a table as a function of the number of its turns, in classes.
LEMMA BitmapIsLoop ==
  ASSUME NEW have, NEW map, Len(map) \in Nat, \A i \in 1..Len(map) : IsRow(map[i])
  PROVE  \E P : /\ P[0] = {}
                /\ \A i \in 1..Len(map) : P[i] = PatchedNames(have, P[i - 1], map[i])
                /\ BuildBitmap(map, have) = Methods(P[Len(map)])
                /\ P[Len(map)] \in SUBSET Names
<1> DEFINE Loop(n, f) == /\ f[0] = {}
                         /\ \A i \in 1..n : f[i] = PatchedNames(have, f[i - 1], map[i])
                         /\ \A i \in 0..n : f[i] \in SUBSET Names
           S == {n \in Nat : n <= Len(map) => \E f : Loop(n, f)}
<1>1. 0 \in S
  <2>1. Loop(0, [k \in 0..0 |-> {}])
    OBVIOUS
  <2>2. \E f : Loop(0, f)
    <3> HIDE DEF Loop
    <3> QED BY <2>1
  <2> HIDE DEF Loop
  <2> QED BY <2>2
<1>2. ASSUME NEW n \in Nat, n \in S PROVE n + 1 \in S
  <2>1. CASE n + 1 <= Len(map)
    <3>1. PICK f : Loop(n, f)
      <4> HIDE DEF Loop
      <4> QED BY <1>2, <2>1
    <3> DEFINE g == [k \in 0..(n + 1) |-> IF k = n + 1 THEN PatchedNames(have, f[n], map[n + 1])
                                                       ELSE f[k]]
    <3>2. \A k \in 0..n : g[k] = f[k]
      OBVIOUS
    <3>3. g[n + 1] = PatchedNames(have, f[n], map[n + 1])
      OBVIOUS
    <3>4. g[n + 1] \in SUBSET Names
      <4>1. f[n] \in SUBSET Names /\ IsRow(map[n + 1])
        BY <2>1, <3>1
      <4> HIDE DEF g
      <4> QED BY <3>3, <4>1, RowPatches
    <3> HIDE DEF g
    <3>5. ASSUME NEW i \in 1..(n + 1) PROVE g[i] = PatchedNames(have, g[i - 1], map[i])
      <4>1. CASE i = n + 1
        <5>1. g[n] = f[n] /\ (n + 1) - 1 = n
          BY <3>2
        <5> QED BY <3>3, <4>1, <5>1
      <4>2. CASE i # n + 1
        <5>1. i \in 1..n /\ i - 1 \in 0..n /\ i \in 0..n
          BY <4>2
        <5>2. f[i] = PatchedNames(have, f[i - 1], map[i])
          BY <3>1, <5>1
        <5> QED BY <3>2, <5>1, <5>2
      <4> QED BY <4>1, <4>2
    <3>6. Loop(n + 1, g)
      BY <3>1, <3>2, <3>4, <3>5, SMTT(30)
    <3>7. \E h : Loop(n + 1, h)
      <4> HIDE DEF Loop
      <4> QED BY <3>6
    <3> HIDE DEF Loop
    <3> QED BY <3>7
  <2>2. CASE ~(n + 1 <= Len(map))
    <3> HIDE DEF Loop
    <3> QED BY <2>2
  <2> QED BY <2>1, <2>2
<1>3. PICK P : Loop(Len(map), P)
  <2>1. Nat \subseteq S
    <3> HIDE DEF S
    <3> QED BY <1>1, <1>2, SetInduction
  <2>2. Len(map) \in S
    <3> HIDE DEF S
    <3> QED BY <2>1
  <2> HIDE DEF Loop
  <2> QED BY <2>2
<1> DEFINE Bits(f) == f = [i \in 0..Len(map) |-> IF i = 0 THEN {} ELSE Patched(have, f[i - 1], map[i])]
           F == CHOOSE f : f = [i \in 0..Len(map) |->
                                IF i = 0 THEN {} ELSE Patched(have, f[i - 1], map[i])]
           b == [i \in 0..Len(map) |-> Methods(P[i])]
<1>4. Bits(b)
  <2>1. ASSUME NEW i \in 0..Len(map)
        PROVE  b[i] = IF i = 0 THEN {} ELSE Patched(have, b[i - 1], map[i])
    <3>1. CASE i = 0
      BY <1>3, <3>1 DEF Methods
    <3>2. CASE i # 0
      <4>1. i \in 1..Len(map) /\ i - 1 \in 0..Len(map)
        BY <3>2
      <4>2. b[i] = Methods(P[i]) /\ b[i - 1] = Methods(P[i - 1])
        BY <4>1
      <4>3. P[i] = PatchedNames(have, P[i - 1], map[i]) /\ P[i - 1] \in SUBSET Names
        BY <1>3, <4>1
      <4> HIDE DEF b
      <4> QED BY <3>2, <4>1, <4>2, <4>3, RowPatches
    <3> QED BY <3>1, <3>2
  <2>2. b = [i \in 0..Len(map) |-> b[i]]
    OBVIOUS
  <2> HIDE DEF b
  <2> QED BY <2>1, <2>2
<1>5. Bits(F)
  <2> HIDE DEF b
  <2> QED BY <1>4
<1>6. BuildBitmap(map, have) = F[Len(map)]
  BY DEF BuildBitmap
<1> HIDE DEF F
<1>7. F[Len(map)] = Methods(P[Len(map)])
  <2> DEFINE R == {n \in Nat : n <= Len(map) => F[n] = Methods(P[n])}
  <2>1. 0 \in R
    BY <1>3, <1>5 DEF Methods
  <2>2. ASSUME NEW n \in Nat, n \in R PROVE n + 1 \in R
    <3>1. CASE n + 1 <= Len(map)
      <4>1. n + 1 \in 1..Len(map) /\ n + 1 \in 0..Len(map) /\ (n + 1) - 1 = n /\ n \in 0..Len(map)
        BY <3>1
      <4>2. F[n + 1] = Patched(have, F[n], map[n + 1])
        BY <1>5, <4>1, SMTT(30)
      <4>3. P[n + 1] = PatchedNames(have, P[n], map[n + 1]) /\ P[n] \in SUBSET Names
        BY <1>3, <4>1
      <4>4. F[n] = Methods(P[n])
        BY <2>2, <4>1
      <4>5. IsRow(map[n + 1])
        BY <4>1
      <4>6. F[n + 1] = Methods(P[n + 1])
        BY <4>2, <4>3, <4>4, <4>5, RowPatches
      <4> QED BY <4>6
    <3> QED BY <3>1
  <2> HIDE DEF R
  <2>3. Len(map) \in R
    BY <2>1, <2>2, SetInduction
  <2> QED BY <2>3 DEF R
<1> QED BY <1>3, <1>6, <1>7

\* Membership of one class after one row.
LEMMA RowIn ==
  ASSUME NEW have, NEW P, NEW row, IsRow(row), NEW d
  PROVE  d \in PatchedNames(have, P, row) <=>
           IF d = row[3]
           THEN \/ row[1] = "uncond"
                \/ row[1] = "or"  /\ (row[2] \subseteq have \/ d \in P)
                \/ row[1] = "and" /\ row[2] \subseteq have /\ d \in P
           ELSE d \in P
BY DEF PatchedNames, IsRow

\* The classes the processor has, after the fourteen rows of its table.
CpuHas(F) ==
  {"UNCONDITIONAL"}
    \cup {c \in {"MMX64"} : "mmx" \in F} \cup {c \in {"SSE128"} : "sse" \in F}
    \cup {c \in {"AVX256"} : {"osxsave", "avx"} \subseteq F}
    \cup {c \in {"AVX512"} : {"osxsave", "avx512f"} \subseteq F}
    \cup {c \in {"FMA256"} : {"osxsave", "avx", "fma"} \subseteq F}
    \cup {c \in {"FMA512"} : {"osxsave", "avx512f", "fma"} \subseteq F}
    \cup {c \in {"SSE_4_1"} : "sse4.1" \in F} \cup {c \in {"AVX_2"} : "avx2" \in F}
    \cup {c \in {"RDRAND"} : "rdrand" \in F} \cup {c \in {"CLZERO"} : "clzero" \in F}
OsHas(X) ==
  {"UNCONDITIONAL", "MMX64", "SSE128", "SSE_4_1", "RDRAND", "CLZERO"}
    \cup {c \in {"AVX256", "FMA256", "AVX_2"} : YMM \subseteq X}
    \cup {c \in {"AVX512", "FMA512"} : ZMM \subseteq X}

\* The bitmap of the processor has the classes that CPUID shows, row by row.
LEMMA CpuBitmap == ASSUME NEW F PROVE BuildBitmap(mapCpu, F) = Methods(CpuHas(F))
<1>1. Len(mapCpu) = 14
  BY DEF mapCpu
<1>2. \A i \in 1..14 : IsRow(mapCpu[i])
  BY DEF mapCpu, IsRow, Names, Class
<1>3. PICK P : /\ P[0] = {}
               /\ \A i \in 1..14 : P[i] = PatchedNames(F, P[i - 1], mapCpu[i])
               /\ BuildBitmap(mapCpu, F) = Methods(P[14])
               /\ P[14] \in SUBSET Names
  <2>1. \A i \in 1..Len(mapCpu) : IsRow(mapCpu[i])
    BY <1>1, <1>2
  <2>2. \E P : /\ P[0] = {}
               /\ \A i \in 1..Len(mapCpu) : P[i] = PatchedNames(F, P[i - 1], mapCpu[i])
               /\ BuildBitmap(mapCpu, F) = Methods(P[Len(mapCpu)])
               /\ P[Len(mapCpu)] \in SUBSET Names
    <3>1. Len(mapCpu) \in Nat
      BY <1>1
    <3> QED BY <2>1, <3>1, BitmapIsLoop, Zenon
  <2> QED BY <1>1, <2>2
<1>4. ASSUME NEW i \in 1..14, NEW d
      PROVE  d \in P[i] <=> IF d = mapCpu[i][3]
           THEN \/ mapCpu[i][1] = "uncond"
                \/ mapCpu[i][1] = "or"  /\ (mapCpu[i][2] \subseteq F \/ d \in P[i - 1])
                \/ mapCpu[i][1] = "and" /\ mapCpu[i][2] \subseteq F /\ d \in P[i - 1]
           ELSE d \in P[i - 1]
  BY <1>2, <1>3, RowIn
<1>5. ASSUME NEW d
      PROVE  /\ d \in P[1] <=> d = "UNCONDITIONAL"
             /\ d \in P[2] <=> d \in P[1] \/ (d = "MMX64" /\ "mmx" \in F)
             /\ d \in P[3] <=> d \in P[2] \/ (d = "SSE128" /\ "sse" \in F)
             /\ d \in P[4] <=> d \in P[3] \/ (d = "AVX256" /\ {"osxsave", "avx"} \subseteq F)
             /\ d \in P[5] <=> d \in P[4] \/ (d = "AVX512" /\ "avx512f" \in F)
             /\ d \in P[6] <=> d \in P[5] /\ (d = "AVX512" => "osxsave" \in F)
             /\ d \in P[7] <=> d \in P[6] \/ (d = "FMA256" /\ {"osxsave", "avx", "fma"} \subseteq F)
             /\ d \in P[8] <=> d \in P[7] \/ (d = "FMA512" /\ "avx512f" \in F)
             /\ d \in P[9] <=> d \in P[8] /\ (d = "FMA512" => {"osxsave", "fma"} \subseteq F)
             /\ d \in P[10] <=> d \in P[9] \/ (d = "SSE_4_1" /\ "sse4.1" \in F)
             /\ d \in P[11] <=> d \in P[10] \/ (d = "AVX_2" /\ "avx2" \in F)
             /\ d \in P[12] <=> d \in P[11] /\ (d = "AVX512" => "osxsave" \in F)
             /\ d \in P[13] <=> d \in P[12] \/ (d = "RDRAND" /\ "rdrand" \in F)
             /\ d \in P[14] <=> d \in P[13] \/ (d = "CLZERO" /\ "clzero" \in F)
  <2>1. d \in P[1] <=> d = "UNCONDITIONAL"
    BY <1>3, <1>4 DEF mapCpu
  <2>2. d \in P[2] <=> d \in P[1] \/ (d = "MMX64" /\ "mmx" \in F)
    BY <1>4 DEF mapCpu
  <2>3. d \in P[3] <=> d \in P[2] \/ (d = "SSE128" /\ "sse" \in F)
    BY <1>4 DEF mapCpu
  <2>4. d \in P[4] <=> d \in P[3] \/ (d = "AVX256" /\ {"osxsave", "avx"} \subseteq F)
    BY <1>4 DEF mapCpu
  <2>5. d \in P[5] <=> d \in P[4] \/ (d = "AVX512" /\ "avx512f" \in F)
    BY <1>4 DEF mapCpu
  <2>6. d \in P[6] <=> d \in P[5] /\ (d = "AVX512" => "osxsave" \in F)
    BY <1>4 DEF mapCpu
  <2>7. d \in P[7] <=> d \in P[6] \/ (d = "FMA256" /\ {"osxsave", "avx", "fma"} \subseteq F)
    BY <1>4 DEF mapCpu
  <2>8. d \in P[8] <=> d \in P[7] \/ (d = "FMA512" /\ "avx512f" \in F)
    BY <1>4 DEF mapCpu
  <2>9. d \in P[9] <=> d \in P[8] /\ (d = "FMA512" => {"osxsave", "fma"} \subseteq F)
    BY <1>4 DEF mapCpu
  <2>10. d \in P[10] <=> d \in P[9] \/ (d = "SSE_4_1" /\ "sse4.1" \in F)
    BY <1>4 DEF mapCpu
  <2>11. d \in P[11] <=> d \in P[10] \/ (d = "AVX_2" /\ "avx2" \in F)
    BY <1>4 DEF mapCpu
  <2>12. d \in P[12] <=> d \in P[11] /\ (d = "AVX512" => "osxsave" \in F)
    BY <1>4 DEF mapCpu
  <2>13. d \in P[13] <=> d \in P[12] \/ (d = "RDRAND" /\ "rdrand" \in F)
    BY <1>4 DEF mapCpu
  <2>14. d \in P[14] <=> d \in P[13] \/ (d = "CLZERO" /\ "clzero" \in F)
    BY <1>4 DEF mapCpu
  <2> QED BY <2>1, <2>2, <2>3, <2>4, <2>5, <2>6, <2>7, <2>8, <2>9, <2>10, <2>11, <2>12, <2>13, <2>14
<1>6. \A d : d \in P[14] <=> d \in CpuHas(F)
  BY <1>5 DEF CpuHas
<1> QED BY <1>3, <1>6

\* The bitmap of the system has the classes whose states XGETBV shows, row by row.
LEMMA OsBitmap == ASSUME NEW X PROVE BuildBitmap(mapOs, X) = Methods(OsHas(X))
<1>1. Len(mapOs) = 11
  BY DEF mapOs
<1>2. \A i \in 1..Len(mapOs) : IsRow(mapOs[i])
  BY <1>1 DEF mapOs, IsRow, Names, Class
<1>3. PICK P : /\ P[0] = {}
               /\ \A i \in 1..11 : P[i] = PatchedNames(X, P[i - 1], mapOs[i])
               /\ BuildBitmap(mapOs, X) = Methods(P[11])
  <2>1. \E P : /\ P[0] = {}
               /\ \A i \in 1..Len(mapOs) : P[i] = PatchedNames(X, P[i - 1], mapOs[i])
               /\ BuildBitmap(mapOs, X) = Methods(P[Len(mapOs)])
               /\ P[Len(mapOs)] \in SUBSET Names
    <3>1. Len(mapOs) \in Nat
      BY <1>1
    <3> QED BY <1>2, <3>1, BitmapIsLoop, Zenon
  <2> QED BY <1>1, <2>1
<1>4. ASSUME NEW i \in 1..11, NEW d
      PROVE  d \in P[i] <=> IF d = mapOs[i][3]
           THEN \/ mapOs[i][1] = "uncond"
                \/ mapOs[i][1] = "or"  /\ (mapOs[i][2] \subseteq X \/ d \in P[i - 1])
                \/ mapOs[i][1] = "and" /\ mapOs[i][2] \subseteq X /\ d \in P[i - 1]
           ELSE d \in P[i - 1]
  BY <1>1, <1>2, <1>3, RowIn
<1>5. ASSUME NEW d PROVE d \in P[11] <=> d \in OsHas(X)
  <2>1. d \in P[1] <=> d = "UNCONDITIONAL"
    BY <1>3, <1>4 DEF mapOs
  <2>2. d \in P[2] <=> d \in P[1] \/ d = "MMX64"
    BY <1>4 DEF mapOs
  <2>3. d \in P[3] <=> d \in P[2] \/ d = "SSE128"
    BY <1>4 DEF mapOs
  <2>4. d \in P[4] <=> d \in P[3] \/ d = "SSE_4_1"
    BY <1>4 DEF mapOs
  <2>5. d \in P[5] <=> d \in P[4] \/ (d = "AVX256" /\ YMM \subseteq X)
    BY <1>4 DEF mapOs
  <2>6. d \in P[6] <=> d \in P[5] \/ (d = "AVX512" /\ ZMM \subseteq X)
    BY <1>4 DEF mapOs
  <2>7. d \in P[7] <=> d \in P[6] \/ (d = "FMA256" /\ YMM \subseteq X)
    BY <1>4 DEF mapOs
  <2>8. d \in P[8] <=> d \in P[7] \/ (d = "FMA512" /\ ZMM \subseteq X)
    BY <1>4 DEF mapOs
  <2>9. d \in P[9] <=> d \in P[8] \/ (d = "AVX_2" /\ YMM \subseteq X)
    BY <1>4 DEF mapOs
  <2>10. d \in P[10] <=> d \in P[9] \/ d = "RDRAND"
    BY <1>4 DEF mapOs
  <2>11. d \in P[11] <=> d \in P[10] \/ d = "CLZERO"
    BY <1>4 DEF mapOs
  <2> QED BY <2>1, <2>2, <2>3, <2>4, <2>5, <2>6, <2>7, <2>8, <2>9, <2>10, <2>11 DEF OsHas
<1> QED BY <1>3, <1>5

\* The states XGETBV shows, and the classes whose requirements are met.
States(F, X) == IF "osxsave" \in F THEN X ELSE {}
Fulfilled(F, X) == {d \in Names : Requirement[d] \subseteq F /\ StatesOf(d) \subseteq X}

\* Together the tables have the classes whose requirements are met.
LEMMA BitmapsMeet ==
  ASSUME NEW F, NEW X
  PROVE  CpuHas(F) \cap OsHas(States(F, X)) = Fulfilled(F, X)
<1> DEFINE Y == States(F, X)
<1>1. /\ YMM \subseteq Y <=> "osxsave" \in F /\ YMM \subseteq X
      /\ ZMM \subseteq Y <=> "osxsave" \in F /\ ZMM \subseteq X
  BY DEF YMM, ZMM, States
<1>2. Names = {"UNCONDITIONAL", "RDRAND", "MMX64", "SSE128", "AVX256", "AVX512",
               "FMA256", "FMA512", "SSE_4_1", "AVX_2", "CLZERO"}
  BY DEF Names, Class
<1> HIDE DEF Y
<1>3. ASSUME NEW d \in Names PROVE d \in CpuHas(F) /\ d \in OsHas(Y) <=> d \in Fulfilled(F, X)
  <2>1. CASE d = "UNCONDITIONAL"
    BY <1>1, <1>3, <2>1 DEF CpuHas, OsHas, Requirement, StatesOf, Fulfilled
  <2>2. CASE d = "RDRAND"
    BY <1>1, <1>3, <2>2 DEF CpuHas, OsHas, Requirement, StatesOf, Fulfilled
  <2>3. CASE d = "MMX64"
    BY <1>1, <1>3, <2>3 DEF CpuHas, OsHas, Requirement, StatesOf, Fulfilled
  <2>4. CASE d = "SSE128"
    BY <1>1, <1>3, <2>4 DEF CpuHas, OsHas, Requirement, StatesOf, Fulfilled
  <2>5. CASE d = "AVX256"
    BY <1>1, <1>3, <2>5 DEF CpuHas, OsHas, Requirement, StatesOf, Fulfilled
  <2>6. CASE d = "AVX512"
    BY <1>1, <1>3, <2>6 DEF CpuHas, OsHas, Requirement, StatesOf, Fulfilled
  <2>7. CASE d = "FMA256"
    BY <1>1, <1>3, <2>7 DEF CpuHas, OsHas, Requirement, StatesOf, Fulfilled
  <2>8. CASE d = "FMA512"
    BY <1>1, <1>3, <2>8 DEF CpuHas, OsHas, Requirement, StatesOf, Fulfilled
  <2>9. CASE d = "SSE_4_1"
    BY <1>1, <1>3, <2>9 DEF CpuHas, OsHas, Requirement, StatesOf, Fulfilled
  <2>10. CASE d = "AVX_2"
    BY <1>1, <1>3, <2>10 DEF CpuHas, OsHas, Requirement, StatesOf, Fulfilled
  <2>11. CASE d = "CLZERO"
    BY <1>1, <1>3, <2>11 DEF CpuHas, OsHas, Requirement, StatesOf, Fulfilled
  <2> QED BY <1>2, <2>1, <2>2, <2>3, <2>4, <2>5, <2>6, <2>7, <2>8, <2>9, <2>10, <2>11
<1>4. CpuHas(F) \subseteq Names
  BY <1>2 DEF CpuHas
<1> QED BY <1>3, <1>4 DEF Y, Fulfilled

-----------------------------------------------------------------------------
(* The methods.                                                            *)

\* A method that is chosen automatically is a candidate in both bitmaps.
LEMMA FindMaxFits ==
  ASSUME NEW candidates, Len(candidates) = 5, DOMAIN candidates = 1..5,
         FindMax(candidates) # NotSet
  PROVE  FindMax(candidates) \in cpuBits \cap osBits /\ \E i \in 1..5 : FindMax(candidates) = candidates[i]
<1> DEFINE fit == {i \in DOMAIN candidates : candidates[i] \in cpuBits \cap osBits}
<1>1. fit # {} /\ FindMax(candidates) = candidates[Min(fit)]
  BY DEF FindMax
<1>2. fit \subseteq 1..5
  OBVIOUS
<1> HIDE DEF fit
<1>3. \E x \in fit : \A y \in fit : x <= y
  <2>1. fit \subseteq Nat
    BY <1>2
  <2> QED BY <1>1, <2>1, NatMin
<1>4. Min(fit) \in fit
  BY <1>3 DEF Min
<1> QED BY <1>1, <1>2, <1>4 DEF fit

\* Neither list of candidates has a method that builds or walks a chain.
LEMMA ChosenMethod ==
  ASSUME parms.asm = NotSet, Method # NotSet
  PROVE  Method \in (cpuBits \cap osBits) \ (WalkMethods \cup BuildMethods)
<1>1. CASE parms.memory = DRAM
  <2> DEFINE c == <<44, 38, 31, 6, 0>>
  <2>1. Method = FindMax(c)
    BY <1>1 DEF Method
  <2>2. Len(c) = 5 /\ DOMAIN c = 1..5 /\ \A i \in 1..5 : c[i] \in {44, 38, 31, 6, 0}
    OBVIOUS
  <2> HIDE DEF c
  <2>3. Method \in cpuBits \cap osBits /\ Method \in {44, 38, 31, 6, 0}
    BY <2>1, <2>2, FindMaxFits
  <2> QED BY <2>3 DEF WalkMethods, BuildMethods
<1>2. CASE parms.memory # DRAM
  <2> DEFINE c == <<15, 12, 9, 6, 0>>
  <2>1. Method = FindMax(c)
    BY <1>2 DEF Method
  <2>2. Len(c) = 5 /\ DOMAIN c = 1..5 /\ \A i \in 1..5 : c[i] \in {15, 12, 9, 6, 0}
    OBVIOUS
  <2> HIDE DEF c
  <2>3. Method \in cpuBits \cap osBits /\ Method \in {15, 12, 9, 6, 0}
    BY <2>1, <2>2, FindMaxFits
  <2> QED BY <2>3 DEF WalkMethods, BuildMethods
<1> QED BY <1>1, <1>2

\* The bitmaps and the method, in each place of maintask. MethodsAreExact says nothing of
\* a processor without CPUID, whose bitmap stays empty, so that no method is taken.
MethodsInv ==
  /\ pc \in {"parse", "rejected", "topology", "paging", "resolve"} => plan = NoPlan
  /\ DOMAIN plan = DOMAIN NoPlan
  /\ "cpuid" \notin chip.flags => cpuBits = {}
  /\ pc \in {"parse", "rejected"} => chip.flags = {} /\ cpuBits = {} /\ osBits = {}
  /\ "cpuid" \in chip.flags => cpuBits \cap osBits = Executable
  /\ plan.method # NotSet =>
       /\ plan.method \in cpuBits
       /\ parms.asm = NotSet => plan.method \in Executable \ (WalkMethods \cup BuildMethods)

\* Before the detection the bitmaps are empty and there is no method.
LEMMA MethodsInitial == StartInit => MethodsInv
<1> SUFFICES ASSUME StartInit PROVE MethodsInv
  OBVIOUS
<1>1. plan = NoPlan /\ NoPlan.method = NotSet /\ chip.flags = {} /\ cpuBits = {} /\ osBits = {}
  BY DEF StartInit, NoPlan
<1> QED BY <1>1 DEF MethodsInv

\* The detection of the processor fills both bitmaps exactly.
LEMMA DetectionStep ==
  ASSUME MethodsInv, DetectProcessor PROVE MethodsInv'
<1>1. plan' = plan /\ plan = NoPlan /\ NoPlan.method = NotSet /\ DOMAIN plan = DOMAIN NoPlan
  BY DEF MethodsInv, DetectProcessor, NoPlan
<1>2. CASE pc' = "topology" /\ chip' \in Processors
           /\ LET states == IF "osxsave" \in chip'.flags THEN chip'.xcr0 ELSE {}
              IN IF "cpuid" \in chip'.flags
                 THEN cpuBits' = BuildBitmap(mapCpu, chip'.flags) /\ osBits' = BuildBitmap(mapOs, states)
                 ELSE UNCHANGED <<cpuBits, osBits>>
  <2>1. CASE "cpuid" \in chip'.flags
    <3>1. PICK F, X : F = chip'.flags /\ X = chip'.xcr0
      OBVIOUS
    <3>2. cpuBits' = BuildBitmap(mapCpu, F) /\ osBits' = BuildBitmap(mapOs, States(F, X))
      BY <1>2, <2>1, <3>1 DEF States
    <3>3. cpuBits' = Methods(CpuHas(F)) /\ osBits' = Methods(OsHas(States(F, X)))
      BY <3>2, CpuBitmap, OsBitmap
    <3>4. CpuHas(F) \in SUBSET Names /\ OsHas(States(F, X)) \in SUBSET Names
      BY DEF CpuHas, OsHas, Names, Class
    <3>5. cpuBits' \cap osBits' = Methods(Fulfilled(F, X))
      BY <3>3, <3>4, MethodsMeet, BitmapsMeet
    <3>6. Executable' = Methods(Fulfilled(F, X))
      BY <3>1 DEF Executable, Methods, Names, Fulfilled
    <3>7. cpuBits' \cap osBits' = Executable'
      BY <3>5, <3>6
    <3> QED BY <1>1, <1>2, <2>1, <3>7 DEF MethodsInv
  <2>2. CASE "cpuid" \notin chip'.flags
    <3>1. cpuBits' = {}
      BY <1>2, <2>2 DEF MethodsInv, DetectProcessor
    <3> QED BY <1>1, <1>2, <2>2, <3>1 DEF MethodsInv
  <2> QED BY <2>1, <2>2
<1>3. CASE pc' = "delete" /\ UNCHANGED <<chip, cpuBits, osBits>>
  <2>1. chip'.flags = {} /\ cpuBits' = {}
    BY <1>3 DEF MethodsInv, DetectProcessor
  <2> QED BY <1>1, <1>3, <2>1 DEF MethodsInv
<1> QED BY <1>2, <1>3 DEF DetectProcessor, Goto

\* A step that leaves the processor, the options and the method alone.
LEMMA MethodStays ==
  ASSUME MethodsInv, UNCHANGED <<chip, cpuBits, osBits, parms>>,
         plan'.method = plan.method, DOMAIN plan' = DOMAIN plan,
         pc' \in {"parse", "rejected"} => pc \in {"parse", "rejected"},
         pc' \in {"parse", "rejected", "topology", "paging", "resolve"} => plan' = NoPlan
  PROVE  MethodsInv'
BY DEF MethodsInv, Executable

\* Every other step keeps the bitmaps, and Resolve takes a method from them.
LEMMA MethodsStep == MethodsInv /\ [StartNext]_vars => MethodsInv'
<1> SUFFICES ASSUME MethodsInv, [StartNext]_vars PROVE MethodsInv'
  OBVIOUS
<1>1. DOMAIN plan = {"method", "start", "stop", "delta", "repeats", "threads", "counter", "rows"}
  BY DEF MethodsInv, NoPlan
<1>2. CASE ParseArgument
  <2>1. UNCHANGED <<chip, cpuBits, osBits, plan>> /\ pc = "parse" /\ plan = NoPlan
    BY <1>2 DEF ParseArgument, processor, MethodsInv
  <2>2. pc' \in {"parse", "rejected", "crashed"} /\ NoPlan.method = NotSet
    BY <1>2 DEF ParseArgument, Goto, NoPlan
  <2> QED BY <2>1, <2>2 DEF MethodsInv
<1>3. CASE DetectProcessor
  BY <1>3, DetectionStep
<1>4. CASE DetectTopology
  <2>1. UNCHANGED <<chip, cpuBits, osBits, parms, plan>> /\ pc = "topology"
        /\ pc' \in {"topology", "paging", "hung", "crashed"}
    BY <1>4 DEF DetectTopology, processor, options
  <2> QED BY <2>1, MethodStays DEF MethodsInv
<1>5. CASE DetectPaging
  <2>1. UNCHANGED <<chip, cpuBits, osBits, parms, plan>> /\ pc = "paging"
        /\ pc' \in {"resolve", "delete"}
    BY <1>5 DEF DetectPaging, Goto, processor, options
  <2> QED BY <2>1, MethodStays DEF MethodsInv
<1>6. CASE Resolve
  <2>1. UNCHANGED <<chip, cpuBits, osBits, parms>> /\ pc = "resolve" /\ plan = NoPlan
    BY <1>6 DEF Resolve, processor, options, MethodsInv
  <2>2. CASE Refused
    <3>1. plan' = plan /\ pc' = "delete"
      BY <1>6, <2>2 DEF Resolve, Goto
    <3> QED BY <2>1, <3>1, MethodStays
  <2>3. CASE ~Refused
    <3>1. pc' = "run" /\ plan'.method = Method /\ DOMAIN plan' = DOMAIN NoPlan
      BY <1>6, <2>3 DEF Resolve, Goto, NoPlan
    <3>2. Method # NotSet /\ Method \in cpuBits
      BY <2>3 DEF Refused
    <3>3. "cpuid" \in chip.flags
      BY <3>2 DEF MethodsInv
    <3>4. parms.asm = NotSet => Method \in Executable \ (WalkMethods \cup BuildMethods)
      BY <3>2, <3>3, ChosenMethod DEF MethodsInv
    <3>5. Executable' = Executable
      BY <2>1 DEF Executable
    <3>6. PICK m : m = Method
      OBVIOUS
    <3> QED BY <2>1, <3>1, <3>2, <3>3, <3>4, <3>5, <3>6 DEF MethodsInv
  <2> QED BY <2>2, <2>3
<1>7. CASE RunThreads
  <2>1. UNCHANGED <<chip, cpuBits, osBits, parms, plan>> /\ pc' \in {"delete", "rows", "crashed"}
    BY <1>7 DEF RunThreads, Round, Goto, processor, options
  <2> QED BY <2>1, MethodStays
<1>8. CASE CountRows
  <2>1. UNCHANGED <<chip, cpuBits, osBits, parms>> /\ pc' \in {"delete", "calibrate", "crashed"}
    BY <1>8 DEF CountRows, Goto, processor, options
  <2>2. plan' = plan \/ \E r : plan' = [plan EXCEPT !.rows = r]
    BY <1>8 DEF CountRows
  <2>3. plan'.method = plan.method /\ DOMAIN plan' = DOMAIN plan
    BY <1>1, <2>2
  <2> QED BY <2>1, <2>3, MethodStays
<1>9. CASE Calibrate
  <2>1. UNCHANGED <<chip, cpuBits, osBits, parms>> /\ pc' \in {"delete", "measure", "crashed"}
    BY <1>9 DEF Calibrate, Round, Goto, processor, options
  <2>2. plan' = plan \/ \E r : plan' = [plan EXCEPT !.counter = r]
    BY <1>9 DEF Calibrate
  <2>3. plan'.method = plan.method /\ DOMAIN plan' = DOMAIN plan
    BY <1>1, <2>2
  <2> QED BY <2>1, <2>3, MethodStays
<1>10. CASE Measure
  <2>1. UNCHANGED <<chip, cpuBits, osBits, parms, plan>>
    BY <1>10 DEF Measure, processor, options
  <2>2. pc' \in {"delete", "row", "crashed"}
    BY <1>10 DEF Measure, Goto
  <2> QED BY <2>1, <2>2, MethodStays
<1>11. CASE Delete
  <2>1. UNCHANGED <<chip, cpuBits, osBits, parms, plan>> /\ pc' = "exit"
    BY <1>11 DEF Delete, Goto, processor, options
  <2> QED BY <2>1, MethodStays
<1>12. CASE MachineMoves \/ Stopped \/ UNCHANGED vars
  <2>1. UNCHANGED <<chip, cpuBits, osBits, parms, plan, pc>>
    BY <1>12 DEF MachineMoves, Stopped, vars, startVars, processor, options
  <2> QED BY <2>1, MethodStays DEF MethodsInv
<1> QED BY <1>2, <1>3, <1>4, <1>5, <1>6, <1>7, <1>8, <1>9, <1>10, <1>11, <1>12 DEF StartNext, Step

\* For every processor and system: the bitmaps offer exactly the methods that can be
\* executed, and the method a session runs is one of them unless the user named it.
THEOREM MethodsMatch == StartSpec => []MethodsAreExact
<1>1. MethodsInv => MethodsAreExact
  BY DEF MethodsInv, MethodsAreExact
<1> QED BY <1>1, MethodsInitial, MethodsStep, PTL DEF StartSpec

-----------------------------------------------------------------------------
(* The settings of a session.                                              *)

\* A number below the width is kept as it is.
LEMMA ModSmall == ASSUME NEW n \in Nat, NEW m \in Nat, m > n PROVE n % m = n
<1> DEFINE q == n \div m
           t == n % m
<1>1. n = m * q + t /\ t \in 0..(m - 1) /\ q \in Int
  OBVIOUS
<1> HIDE DEF q, t
<1>2. ~(q >= 1)
  BY <1>1
<1>3. ~(q <= -1)
  BY <1>1
<1> QED BY <1>1, <1>2, <1>3 DEF t

\* A number that is cut to a width does not grow.
LEMMA ModBound == ASSUME NEW n \in Nat, NEW m \in Nat \ {0} PROVE n % m \in Nat /\ n % m <= n
<1> DEFINE q == n \div m
           t == n % m
<1>1. n = m * q + t /\ t \in 0..(m - 1) /\ q \in Int
  OBVIOUS
<1> HIDE DEF q, t
<1>2. ~(q <= -1)
  BY <1>1
<1>3. m * q >= 0
  BY <1>1, <1>2
<1> QED BY <1>1, <1>3 DEF t

\* From an eighth of a size to twice the size there are sixteen rows, although neither
\* division need be exact.
LEMMA Fifteen ==
  ASSUME NEW s \in Nat, s >= 512
  PROVE  /\ s \div 8 \in Nat /\ s \div 8 >= 64 /\ s \div 8 <= s * 2
         /\ (s * 2 - s \div 8) \div (s \div 8) = 15
<1> DEFINE k == s \div 8
           r == s % 8
<1>1. s = 8 * k + r /\ r \in 0..7 /\ k \in Nat
  OBVIOUS
<1> HIDE DEF k, r
<1>2. k >= 64 /\ k <= s * 2 /\ s * 2 - k = 15 * k + 2 * r
  BY <1>1
<1>3. (15 * k + 2 * r) \div k = 15
  <2> DEFINE q == (15 * k + 2 * r) \div k
             t == (15 * k + 2 * r) % k
  <2>1. 15 * k + 2 * r = k * q + t /\ t \in 0..(k - 1) /\ q \in Int
    BY <1>1, <1>2
  <2> HIDE DEF q, t
  <2>2. q * k = k * q /\ 2 * r < k /\ 0 <= 2 * r
    BY <1>1, <1>2, <2>1
  <2>3. ~(q <= 14)
    BY <1>1, <1>2, <2>1, <2>2
  <2>4. ~(q >= 16)
    BY <1>1, <1>2, <2>1, <2>2
  <2> QED BY <2>1, <2>3, <2>4 DEF q
<1> QED BY <1>1, <1>2, <1>3 DEF k

\* The numbers of rows and of bytes for them are not cut by the width of an int.
LEMMA SixteenRows == AsInt(15) = 15 /\ AsInt(128) = 128
<1>1. IntModulus \in Nat /\ IntModulus >= 512 /\ IntModulus \div 2 >= 256
  BY PlatformAssumption
<1>2. 15 % IntModulus = 15 /\ 128 % IntModulus = 128
  BY <1>1, ModSmall
<1> QED BY <1>1, <1>2 DEF AsInt

\* What the options can be, and where a size that is not the default comes from.
LEMMA OptionFacts ==
  ASSUME ParseInv
  PROVE  /\ parms["memory"] \in {NotSet} \cup 0..4 /\ parms["asm"] \in {NotSet} \cup Nat
         /\ \A o \in {"threads", "repeats", "adaptive"} : parms[o] \in {NotSet} \cup Nat
         /\ \A o \in {"start", "end", "step"} :
              /\ parms[o] \in Nat
              /\ parms[o] # Defaults[o] => \E i \in DOMAIN line : line[i][1] = o
<1>1. line \in CommandLines
  BY DEF ParseInv
<1>2. ASSUME NEW o \in Numbers \cup Memories, NEW i \in DOMAIN line, Accepted(o, line[i][2])
      PROVE  Stored(o, line[i][2]) \in Nat
  <2> DEFINE v == line[i][2]
  <2>1. o \notin DOMAIN Keys
    BY <1>2 DEF Keys, Numbers, Memories
  <2>2. v[1] \in {"num", "size"}
    BY <1>2, <2>1 DEF Accepted, Numbers, Memories
  <2>3. v[2] \in Nat /\ (v[1] = "size" => v[3] \in {"K", "M", "G"})
    BY <1>1, <1>2, <2>2, LinesAssumption
  <2> HIDE DEF v
  <2>6. AsciiToInt(v[2]) \in Nat
    <3>1. PICK k \in Nat : k = v[2]
      BY <2>3
    <3>2. IntModulus \div 2 - 1 \in Nat
      BY PlatformAssumption
    <3> QED BY <3>1, <3>2 DEF AsciiToInt, MaxInt
  <2>4. CASE v[1] = "num"
    BY <2>4, <2>6 DEF Stored, v
  <2>5. CASE v[1] = "size"
    <3>1. Unit(v[3]) \in Nat
      BY <2>3, <2>5 DEF Unit
    <3>2. Stored(o, v) = AsciiToInt(v[2]) * Unit(v[3])
      BY <2>5 DEF Stored
    <3> QED BY <2>6, <3>1, <3>2 DEF v
  <2> QED BY <2>2, <2>4, <2>5
<1>3. Numbers \cup Memories \subseteq Options
  BY DEF Options
<1>4. ASSUME NEW o \in Numbers \cup Memories
      PROVE  /\ parms[o] = Defaults[o] \/ parms[o] \in Nat
             /\ parms[o] # Defaults[o] => \E i \in DOMAIN line : line[i][1] = o
  BY <1>2, <1>3, OptionValue
<1>5. /\ Defaults["threads"] = NotSet /\ Defaults["repeats"] = NotSet /\ Defaults["adaptive"] = NotSet
      /\ Defaults["start"] = 4096 /\ Defaults["step"] = 4096 /\ Defaults["end"] = 65536
      /\ Defaults["memory"] = NotSet /\ Defaults["asm"] = NotSet
  BY DEF Defaults, Options, Numbers, Memories, Keys
<1>6. parms["memory"] \in {NotSet} \cup 0..4
  <2>1. "memory" \in DOMAIN Keys /\ DOMAIN Keys["memory"] = 1..5
    BY DEF Keys
  <2>2. PICK n \in Nat : n = 5
    OBVIOUS
  <2>3. \A v : Accepted("memory", v) => Stored("memory", v) \in 0..(n - 1)
    BY <2>1, <2>2, KeyValue
  <2> QED BY <1>5, <2>1, <2>2, <2>3, OptionValue DEF Options
<1>7. parms["asm"] \in {NotSet} \cup Nat
  <2>1. "asm" \in DOMAIN Keys /\ DOMAIN Keys["asm"] = 1..51
    BY DEF Keys
  <2>2. PICK n \in Nat : n = 51
    OBVIOUS
  <2>3. \A v : Accepted("asm", v) => Stored("asm", v) \in 0..(n - 1)
    BY <2>1, <2>2, KeyValue
  <2> QED BY <1>5, <2>1, <2>2, <2>3, OptionValue DEF Options
<1>8. {"threads", "repeats", "adaptive", "start", "end", "step"} \subseteq Numbers \cup Memories
  BY DEF Numbers, Memories
<1> QED BY <1>4, <1>5, <1>6, <1>7, <1>8

\* The sizes and cores of a topology the system had.
LEMMA CacheSize ==
  ASSUME NEW m \in Topologies, NEW l
  PROVE  LastCache(m, l) = 0 \/ (LastCache(m, l) \in Nat /\ LastCache(m, l) >= 512)
<1> DEFINE C == {i \in DOMAIN m : m[i].rel = "cache" /\ m[i].level = l
                                  /\ m[i].type # "instruction" /\ m[i].type # "trace"}
<1>1. m \in Seq(Entries)
  BY TopologyAssumption
<1>2. CASE C = {}
  BY <1>2 DEF LastCache
<1>3. CASE C # {}
  <2> DEFINE c == CHOOSE i \in C : \A j \in C : j <= i
  <2>1. Len(m) \in Nat /\ C \in SUBSET (1..Len(m))
    BY <1>1
  <2>2. c \in C
    <3> HIDE DEF C
    <3>1. \E i \in C : \A j \in C : j <= i
      BY <1>3, <2>1, LastPosition
    <3> QED BY <3>1
  <2>3. LastCache(m, l) = m[c].bytes
    BY <1>3 DEF LastCache
  <2> HIDE DEF c
  <2>4. m[c] \in Entries /\ m[c].rel = "cache" /\ c \in DOMAIN m
    BY <1>1, <2>2
  <2>5. m[c].bytes \in Nat /\ m[c].bytes >= 512
    BY <2>4, PlatformAssumption DEF Entries
  <2> QED BY <2>3, <2>5
<1> QED BY <1>2, <1>3

\* Two threads on each core fit into the program's list.
LEMMA CoreCount ==
  ASSUME NEW m \in Topologies
  PROVE  Number(m, "core") \in Nat /\ 2 * Number(m, "core") <= MaximumThreads
<1> DEFINE C == {i \in DOMAIN m : m[i].rel = "core"}
<1>1. m \in Seq(Entries) /\ Len(m) \in Nat
  BY TopologyAssumption
<1>2. IsFiniteSet(C)
  <2>1. C \subseteq 1..Len(m)
    BY <1>1
  <2> HIDE DEF C
  <2>2. PICK n \in Nat : n = Len(m)
    BY <1>1
  <2>3. IsFiniteSet(1..n)
    BY FS_Interval
  <2> QED BY <2>1, <2>2, <2>3, FS_Subset
<1>3. Cardinality(C) \in Nat
  <2> HIDE DEF C
  <2> QED BY <1>2, FS_CardinalityType
<1> QED BY <1>3, PlatformAssumption DEF Number

\* The numbers that execute() takes from the topology, unless a call failed: a size of 0
\* stands for a cache the machine does not have, or a query the system does not have.
LEMMA PlatformFacts ==
  ASSUME TopologyInv, SummaryInv, tpc = "detected", ~failed
  PROVE  /\ \A l \in 1..4 : \/ platform.point[l] = 0
                            \/ platform.point[l] \in Nat /\ platform.point[l] >= 512
         /\ platform.cores \in Nat /\ 2 * platform.cores <= MaximumThreads
<1>1. MaximumThreads \in Nat
  BY PlatformAssumption
<1>2. CASE "std" \notin apis
  <2>1. summary["std"] = BlankSummary
    BY <1>2 DEF SummaryInv, Apis
  <2> QED BY <1>1, <2>1 DEF platform, BlankSummary
<1>3. CASE "std" \in apis
  <2>1. PICK m \in seen : summary["std"] = SummaryOf(m)
    BY <1>3 DEF SummaryInv, IsDecoded
  <2>2. m \in Topologies
    BY DEF TopologyInv, TopologyTypeOK
  <2>3. /\ platform.cores = Number(m, "core")
        /\ \A l \in 1..4 : platform.point[l] = LastCache(m, l)
    BY <2>1 DEF platform, SummaryOf
  <2> QED BY <2>2, <2>3, CacheSize, CoreCount
<1> QED BY <1>2, <1>3

\* The settings of a session, from the moment they are made. PlanIsLegal and
\* CrashIsAskedFor need to know for each of them whether the user, the topology or
\* neither has set it.
PlanFrom ==
  /\ parms.asm # NotSet => plan.method = parms.asm
  /\ parms.memory = NotSet =>
       plan.start = parms.start /\ plan.stop = parms.end /\ plan.delta = parms.step
  /\ (parms.memory # NotSet /\ ~failed) =>
       \E s \in Nat : /\ s >= 512 /\ plan.start = s \div 8
                      /\ plan.stop = s * 2 /\ plan.delta = s \div 8
  /\ parms.repeats # NotSet => plan.repeats = parms.repeats
  /\ parms.repeats = NotSet => plan.repeats > 0
  /\ parms.threads # NotSet => plan.threads = parms.threads
  /\ (parms.threads = NotSet /\ ~failed) => plan.threads \in 0..MaximumThreads

RowsAreSixteen ==
  (pc \in {"calibrate", "measure", "row"} /\ parms.memory # NotSet /\ ~failed) => plan.rows = 16

CounterIsFilled ==
  (pc = "measure" /\ plan.counter = 0) =>
    \/ parms.repeats = 0
    \/ parms.repeats = NotSet /\ (~clock \/ \E ms \in PassTimes : ms > 1000)

PlanInv ==
  /\ pc \in {"paging", "resolve"} => tpc = "detected"
  /\ pc \in {"run", "rows", "calibrate", "measure"} => plan.method # NotSet
  /\ plan.method # NotSet => PlanFrom /\ RowsAreSixteen
  /\ CounterIsFilled

\* Neither a kind of memory nor a size is named on the command line.
NoSizesNamed ==
  parms.memory = NotSet =>
    \A o \in {"start", "end", "step"} : \A i \in DOMAIN line : line[i][1] # o

\* The sizes are the program's own or those of a cache: each row has an instruction.
LEMMA SizesFrom ==
  ASSUME ParseInv, PlanFrom, ~failed, NoSizesNamed
  PROVE  /\ plan.start \in Nat /\ plan.start >= 64 /\ plan.delta \in Nat /\ plan.delta >= 64
         /\ plan.stop \in Nat /\ plan.start <= plan.stop
         /\ (plan.stop - plan.start) \div plan.delta = 15
<1>1. CASE parms.memory = NotSet
  <2>1. Defaults["start"] = 4096 /\ Defaults["step"] = 4096 /\ Defaults["end"] = 65536
    BY DEF Defaults, Options, Numbers, Memories, Keys
  <2>2. parms["start"] = 4096 /\ parms["step"] = 4096 /\ parms["end"] = 65536
    BY <1>1, <2>1, OptionFacts DEF NoSizesNamed
  <2>3. plan.start = 4096 /\ plan.delta = 4096 /\ plan.stop = 65536
    BY <1>1, <2>2 DEF PlanFrom
  <2> QED BY <2>3
<1>2. CASE parms.memory # NotSet
  <2>1. PICK s \in Nat : /\ s >= 512 /\ plan.start = s \div 8
                         /\ plan.stop = s * 2 /\ plan.delta = s \div 8
    BY <1>2 DEF PlanFrom
  <2> QED BY <2>1, Fifteen
<1> QED BY <1>1, <1>2

\* 64 bytes are an instruction of every method.
LEMMA OneInstruction ==
  ASSUME NEW s \in Nat, s >= 64
  PROVE  Instructions(s) \in Nat /\ Instructions(s) >= 1
<1>1. PICK b \in {8, 16, 32, 64} : b = BytesPerInstruction(plan.method)
  BY DEF BytesPerInstruction
<1>2. s \div b \in Nat /\ s \div b >= 1
  <2>1. CASE b = 8
    BY <2>1
  <2>2. CASE b = 16
    BY <2>2
  <2>3. CASE b = 32
    BY <2>3
  <2>4. CASE b = 64
    BY <2>4
  <2> QED BY <1>1, <2>1, <2>2, <2>3, <2>4
<1> QED BY <1>1, <1>2 DEF Instructions

\* The arithmetic of the rows, as CountRows does it.
Span == Larger(plan.start, plan.stop) - Min({plan.start, plan.stop})

\* A start below the end is subtracted from it.
LEMMA SpanIs ==
  ASSUME plan.start \in Nat, plan.stop \in Nat, plan.start <= plan.stop
  PROVE  Span = plan.stop - plan.start
<1>1. PICK a \in Nat, b \in Nat : a = plan.start /\ b = plan.stop
  OBVIOUS
<1>2. a <= b
  BY <1>1
<1>3. Min({a, b}) = a
  <2>1. a \in {a, b} /\ \A y \in {a, b} : a <= y
    BY <1>2
  <2>2. \A x \in {a, b} : (\A y \in {a, b} : x <= y) => x = a
    BY <1>2
  <2> QED BY <2>1, <2>2 DEF Min
<1>4. Larger(a, b) = b
  BY <1>2 DEF Larger
<1> QED BY <1>1, <1>3, <1>4 DEF Span

\* At the start there are no settings.
LEMMA PlanInitial == StartInit => PlanInv
<1> SUFFICES ASSUME StartInit PROVE PlanInv
  OBVIOUS
<1>1. plan = NoPlan /\ pc = "parse" /\ NoPlan.method = NotSet
  BY DEF StartInit, NoPlan
<1> QED BY <1>1 DEF PlanInv, CounterIsFilled

\* The repeats the program chooses itself.
LEMMA RepeatsChosen ==
  ASSUME parms.memory \in {NotSet} \cup 0..4
  PROVE  /\ parms.repeats # NotSet => Repeats = parms.repeats
         /\ parms.repeats = NotSet => Repeats > 0
<1>1. PICK g : g = IF parms.memory = NotSet THEN 2000000 ELSE ApproximationRepeats[parms.memory + 1]
  OBVIOUS
<1>2. g \in {2000000, 500000, 10000, 1000, 200}
  <2>1. CASE parms.memory = NotSet
    BY <1>1, <2>1
  <2>2. CASE parms.memory \in 0..4
    <3>1. parms.memory + 1 \in 1..5 /\ parms.memory # NotSet
      BY <2>2 DEF NotSet
    <3>2. PICK k \in 1..5 : k = parms.memory + 1
      BY <3>1
    <3>3. ApproximationRepeats[k] \in {2000000, 500000, 10000, 1000, 200}
      BY DEF ApproximationRepeats
    <3> QED BY <1>1, <3>1, <3>2, <3>3
  <2> QED BY <2>1, <2>2
<1>3. g > 0 /\ g \div 20 > 0
  <2>1. /\ 2000000 \div 20 > 0 /\ 500000 \div 20 > 0 /\ 10000 \div 20 > 0
        /\ 1000 \div 20 > 0 /\ 200 \div 20 > 0
    OBVIOUS
  <2> QED BY <1>2, <2>1
<1>4. Repeats = IF parms.repeats # NotSet THEN parms.repeats
                ELSE IF Method \in BuildMethods THEN g \div 20 ELSE g
  BY <1>1 DEF Repeats
<1> HIDE DEF Method
<1>5. parms.repeats = NotSet => Repeats = g \div 20 \/ Repeats = g
  BY <1>4
<1> QED BY <1>3, <1>4, <1>5

\* So are the threads: at most two for each core.
LEMMA ThreadsChosen ==
  ASSUME platform.cores \in Nat, 2 * platform.cores <= MaximumThreads
  PROVE  /\ parms.threads # NotSet => Threads = parms.threads
         /\ parms.threads = NotSet => Threads \in 0..MaximumThreads
<1>1. PICK c \in Nat : c = platform.cores
  OBVIOUS
<1>2. 2 * c <= MaximumThreads /\ MaximumThreads \in Nat /\ 1 <= MaximumThreads
  BY <1>1, PlatformAssumption
<1>3. parms.threads = NotSet => Threads = c * 2 \/ Threads = c * 1 \/ Threads = 1
  BY <1>1 DEF Threads
<1>4. c * 2 \in 0..MaximumThreads /\ c * 1 \in 0..MaximumThreads /\ 1 \in 0..MaximumThreads
  BY <1>2
<1>5. parms.threads # NotSet => Threads = parms.threads
  BY DEF Threads
<1> QED BY <1>3, <1>4, <1>5

\* The settings are made from the options and the platform.
LEMMA ResolveStep ==
  ASSUME TopologyInv, SummaryInv, ParseInv, PlanInv, Resolve
  PROVE  PlanInv'
<1>1. UNCHANGED <<parms, failed, clock>> /\ pc = "resolve" /\ tpc = "detected"
  BY DEF Resolve, options, topologyVars, PlanInv
<1>2. CASE Refused
  <2>1. plan' = plan /\ pc' = "delete"
    BY <1>2 DEF Resolve, Goto
  <2>2. PlanFrom' <=> PlanFrom
    BY <1>1, <2>1 DEF PlanFrom
  <2> QED BY <1>1, <2>1, <2>2 DEF PlanInv, RowsAreSixteen, CounterIsFilled
<1>3. CASE ~Refused
  <2> DEFINE Start == IF parms.memory = NotSet THEN parms.start ELSE ObjectSize \div 8
             Stop  == IF parms.memory = NotSet THEN parms.end   ELSE ObjectSize * 2
             Delta == IF parms.memory = NotSet THEN parms.step  ELSE ObjectSize \div 8
  <2>1. pc' = "run" /\ plan' = [NoPlan EXCEPT !.method = Method, !.repeats = Repeats,
                                 !.threads = Threads, !.start = Start, !.stop = Stop, !.delta = Delta]
    BY <1>3 DEF Resolve, Goto
  <2>2. /\ plan'.method = Method /\ plan'.repeats = Repeats /\ plan'.threads = Threads
        /\ plan'.start = Start /\ plan'.stop = Stop /\ plan'.delta = Delta
    <3> HIDE DEF Start, Stop, Delta
    <3> QED BY <2>1 DEF NoPlan
  <2>3. Method # NotSet
    BY <1>3 DEF Refused
  <2>4. parms.asm # NotSet => Method = parms.asm
    BY DEF Method
  <2>5. parms.memory \in {NotSet} \cup 0..4
    BY OptionFacts
  <2>6. ASSUME parms.memory # NotSet, ~failed PROVE ObjectSize \in Nat /\ ObjectSize >= 512
    <3>1. CASE parms.memory = DRAM
      BY <2>6, <3>1 DEF ObjectSize, DramBlock
    <3>2. CASE parms.memory # DRAM
      <4>1. parms.memory + 1 \in 1..4
        BY <2>5, <2>6, <3>2 DEF DRAM
      <4>2. PICK l \in 1..4 : l = parms.memory + 1
        BY <4>1
      <4>3. ObjectSize = platform.point[l] /\ ObjectSize # 0
        BY <1>3, <2>6, <3>2, <4>2 DEF ObjectSize, Refused
      <4>4. platform.point[l] = 0 \/ (platform.point[l] \in Nat /\ platform.point[l] >= 512)
        BY <1>1, <2>6, PlatformFacts
      <4> QED BY <4>3, <4>4
    <3> QED BY <3>1, <3>2
  <2>7. /\ parms.repeats # NotSet => Repeats = parms.repeats
        /\ parms.repeats = NotSet => Repeats > 0
    BY <2>5, RepeatsChosen
  <2>8. ~failed => /\ parms.threads # NotSet => Threads = parms.threads
                   /\ parms.threads = NotSet => Threads \in 0..MaximumThreads
    BY <1>1, PlatformFacts, ThreadsChosen
  <2>9. parms.threads # NotSet => Threads = parms.threads
    BY DEF Threads
  <2>10. PlanFrom'
    <3>1. (parms.asm # NotSet => plan.method = parms.asm)'
      BY <1>1, <2>2, <2>4
    <3>2. (parms.memory = NotSet =>
             plan.start = parms.start /\ plan.stop = parms.end /\ plan.delta = parms.step)'
      BY <1>1, <2>2
    <3>3. ((parms.memory # NotSet /\ ~failed) =>
             \E s \in Nat : /\ s >= 512 /\ plan.start = s \div 8
                            /\ plan.stop = s * 2 /\ plan.delta = s \div 8)'
      <4>1. PICK o : o = ObjectSize
        OBVIOUS
      <4> QED BY <1>1, <2>2, <2>6, <4>1
    <3>4. (parms.repeats # NotSet => plan.repeats = parms.repeats)'
      BY <1>1, <2>2, <2>7
    <3>5. (parms.repeats = NotSet => plan.repeats > 0)'
      BY <1>1, <2>2, <2>7
    <3>6. (parms.threads # NotSet => plan.threads = parms.threads)'
      BY <1>1, <2>2, <2>9
    <3>7. ((parms.threads = NotSet /\ ~failed) => plan.threads \in 0..MaximumThreads)'
      BY <1>1, <2>2, <2>8
    <3> QED BY <3>1, <3>2, <3>3, <3>4, <3>5, <3>6, <3>7 DEF PlanFrom
  <2> QED BY <2>1, <2>2, <2>3, <2>10 DEF PlanInv, RowsAreSixteen, CounterIsFilled
<1> QED BY <1>2, <1>3

\* The rows of a session whose sizes are not the user's, in the arithmetic of CountRows.
LEMMA RowsCounted ==
  ASSUME ParseInv, PlanFrom, ~failed, NoSizesNamed
  PROVE  AsInt(Span \div plan.delta) + 1 = 16 /\ AsInt(8 * (AsInt(Span \div plan.delta) + 1)) = 128
<1>1. Span = plan.stop - plan.start
  BY SizesFrom, SpanIs
<1>2. Span \div plan.delta = 15
  BY <1>1, SizesFrom
<1>3. AsInt(Span \div plan.delta) = 15
  BY <1>2, SixteenRows
<1>4. 8 * (AsInt(Span \div plan.delta) + 1) = 128
  BY <1>3
<1> QED BY <1>3, <1>4, SixteenRows

\* The rows are counted for the sizes the settings have.
LEMMA CountRowsStep ==
  ASSUME ParseInv, PlanInv, MethodsInv, CountRows
  PROVE  PlanInv'
<1>1. UNCHANGED <<parms, failed, clock>> /\ pc = "rows" /\ pc' \in {"crashed", "delete", "calibrate"}
  BY DEF CountRows, Goto, options, topologyVars
<1>2. PlanFrom /\ plan.method # NotSet
  BY <1>1 DEF PlanInv
<1> DEFINE rows == AsInt(Span \div plan.delta) + 1
<1>3. \/ plan' = plan /\ pc' = "crashed"
      \/ plan' = [plan EXCEPT !.rows = rows]
  BY DEF CountRows, Goto, Span
<1>4. CASE plan' = plan /\ pc' = "crashed"
  <2>1. PlanFrom'
    BY <1>1, <1>2, <1>4 DEF PlanFrom
  <2> QED BY <1>4, <2>1 DEF PlanInv, RowsAreSixteen, CounterIsFilled
<1>5. CASE plan' = [plan EXCEPT !.rows = rows]
  <2>1. PICK r : r = rows
    OBVIOUS
  <2>2. /\ plan'.method = plan.method /\ plan'.start = plan.start /\ plan'.stop = plan.stop
        /\ plan'.delta = plan.delta /\ plan'.repeats = plan.repeats /\ plan'.threads = plan.threads
    BY <1>5, <2>1
  <2>3. plan'.rows = r
    BY <1>5, <2>1 DEF MethodsInv, NoPlan
  <2>4. PlanFrom'
    BY <1>1, <1>2, <2>2 DEF PlanFrom
  <2>5. RowsAreSixteen'
    <3>1. ASSUME parms.memory # NotSet, ~failed PROVE r = 16
      BY <1>2, <2>1, <3>1, RowsCounted DEF NoSizesNamed
    <3> QED BY <1>1, <2>3, <3>1 DEF RowsAreSixteen
  <2>6. CounterIsFilled'
    BY <1>1 DEF CounterIsFilled
  <2> QED BY <1>1, <1>2, <2>2, <2>4, <2>5, <2>6 DEF PlanInv
<1> QED BY <1>3, <1>4, <1>5

\* A counter that is not the user's fills a second, unless one repeat takes longer.
LEMMA CalibrateStep ==
  ASSUME PlanInv, MethodsInv, Calibrate
  PROVE  PlanInv'
<1>1. UNCHANGED <<parms, failed, clock>> /\ pc = "calibrate" /\ pc' \in {"delete", "measure", "crashed"}
  BY DEF Calibrate, Round, Goto, options, topologyVars
<1>2. PlanFrom /\ plan.method # NotSet /\ RowsAreSixteen
  BY <1>1 DEF PlanInv
<1>3. plan' = plan \/ \E r : plan' = [plan EXCEPT !.counter = r]
  BY DEF Calibrate
<1>4. /\ plan'.method = plan.method /\ plan'.start = plan.start /\ plan'.stop = plan.stop
      /\ plan'.delta = plan.delta /\ plan'.repeats = plan.repeats /\ plan'.threads = plan.threads
      /\ plan'.rows = plan.rows
  BY <1>3 DEF MethodsInv, NoPlan
<1>5. PlanFrom'
  BY <1>1, <1>2, <1>4 DEF PlanFrom
<1>6. RowsAreSixteen'
  BY <1>1, <1>2, <1>4 DEF RowsAreSixteen
<1>7. CounterIsFilled'
  <2> SUFFICES ASSUME pc' = "measure", plan'.counter = 0
               PROVE  \/ parms.repeats = 0
                      \/ parms.repeats = NotSet /\ (~clock \/ \E ms \in PassTimes : ms > 1000)
    BY <1>1 DEF CounterIsFilled
  <2>1. CASE parms.repeats = NotSet /\ parms.adaptive = NotSet
    <3>1. PICK ms \in PassTimes : plan' = [plan EXCEPT !.counter = IF clock THEN 1000 \div ms ELSE 0]
      BY <2>1 DEF Calibrate
    <3>2. CASE clock
      <4>1. PICK q : q = 1000 \div ms
        OBVIOUS
      <4>2. plan'.counter = q
        BY <3>1, <3>2, <4>1 DEF MethodsInv, NoPlan
      <4>3. ms \in Nat /\ ms > 0
        BY PlatformAssumption
      <4>4. ~(ms <= 1000)
        <5> SUFFICES ASSUME ms <= 1000 PROVE FALSE
          OBVIOUS
        <5> DEFINE t == 1000 % ms
        <5>1. 1000 = ms * q + t /\ t \in 0..(ms - 1)
          BY <4>1, <4>3
        <5> HIDE DEF t
        <5>2. q = 0
          BY <4>2
        <5>3. ms * q = 0
          BY <4>3, <5>2
        <5> QED BY <4>3, <5>1, <5>3
      <4> QED BY <2>1, <4>3, <4>4
    <3> QED BY <2>1, <3>2
  <2>2. CASE ~(parms.repeats = NotSet /\ parms.adaptive = NotSet)
    <3>1. plan' = [plan EXCEPT !.counter = plan.repeats]
      BY <2>2 DEF Calibrate
    <3>2. plan'.counter = plan.repeats
      <4>1. PICK r : r = plan.repeats
        OBVIOUS
      <4> QED BY <3>1, <4>1 DEF MethodsInv, NoPlan
    <3>3. plan.repeats = 0
      BY <3>2
    <3> QED BY <1>2, <3>3 DEF PlanFrom
  <2> QED BY <2>1, <2>2
<1> QED BY <1>1, <1>2, <1>4, <1>5, <1>6, <1>7 DEF PlanInv

\* A step that leaves the settings alone.
LEMMA PlanStays ==
  ASSUME PlanInv, UNCHANGED <<plan, parms, failed, clock>>,
         pc' \in {"paging", "resolve"} => tpc' = "detected",
         pc' = "rows" => pc \in {"run", "rows"}, pc' = "measure" => pc = "measure",
         pc' \notin {"run", "calibrate"} \/ pc' = pc,
         pc' = "row" => pc \in {"measure", "row"}
  PROVE  PlanInv'
<1>1. PlanFrom' <=> PlanFrom
  BY DEF PlanFrom
<1>2. RowsAreSixteen => RowsAreSixteen'
  BY DEF RowsAreSixteen
<1>3. CounterIsFilled'
  BY DEF PlanInv, CounterIsFilled
<1>4. pc' \in {"run", "rows", "calibrate", "measure"} => plan'.method # NotSet
  BY DEF PlanInv
<1> QED BY <1>1, <1>2, <1>3, <1>4 DEF PlanInv

\* A step before there are settings.
LEMMA NoPlanYet ==
  ASSUME plan' = NoPlan, pc' \in {"parse", "rejected", "topology", "delete", "resolve", "paging",
                                  "hung", "crashed"},
         pc' \in {"paging", "resolve"} => tpc' = "detected"
  PROVE  PlanInv'
<1>1. plan'.method = NotSet
  BY DEF NoPlan
<1> QED BY <1>1 DEF PlanInv, CounterIsFilled

\* The settings are made by Resolve and completed by CountRows and Calibrate.
LEMMA PlanStep ==
  TopologyInv /\ SummaryInv /\ ParseInv /\ MethodsInv /\ PlanInv /\ [StartNext]_vars => PlanInv'
<1> SUFFICES ASSUME TopologyInv, SummaryInv, ParseInv, MethodsInv, PlanInv, [StartNext]_vars
             PROVE  PlanInv'
  OBVIOUS
<1>1. CASE ParseArgument
  <2>1. plan' = NoPlan /\ pc' \in {"parse", "rejected", "crashed"}
    BY <1>1 DEF ParseArgument, Goto, MethodsInv
  <2> QED BY <2>1, NoPlanYet
<1>2. CASE DetectProcessor
  <2>1. plan' = NoPlan /\ pc' \in {"topology", "delete"}
    BY <1>2 DEF DetectProcessor, Goto, MethodsInv
  <2> QED BY <2>1, NoPlanYet
<1>3. CASE DetectTopology
  <2>1. plan' = NoPlan /\ pc = "topology"
    BY <1>3 DEF DetectTopology, MethodsInv
  <2>2. /\ pc' \in {"topology", "paging", "hung", "crashed"}
        /\ pc' = "paging" => tpc' = "detected"
    BY <1>3, <2>1 DEF DetectTopology
  <2> QED BY <2>1, <2>2, NoPlanYet
<1>4. CASE DetectPaging
  <2>1. plan' = NoPlan /\ pc' \in {"resolve", "delete"} /\ tpc' = tpc /\ pc = "paging"
    BY <1>4 DEF DetectPaging, Goto, MethodsInv, topologyVars
  <2>2. tpc = "detected"
    BY <2>1 DEF PlanInv
  <2> QED BY <2>1, <2>2, NoPlanYet
<1>5. CASE Resolve
  BY <1>5, ResolveStep
<1>6. CASE RunThreads
  <2>1. UNCHANGED <<plan, parms, failed, clock>> /\ pc = "run" /\ pc' \in {"delete", "rows", "crashed"}
    BY <1>6 DEF RunThreads, Round, Goto, options, topologyVars
  <2> QED BY <2>1, PlanStays
<1>7. CASE CountRows
  BY <1>7, CountRowsStep
<1>8. CASE Calibrate
  BY <1>8, CalibrateStep
<1>9. CASE Measure
  <2>1. UNCHANGED <<plan, parms, failed, clock>> /\ pc = "measure"
    BY <1>9 DEF Measure, options, topologyVars
  <2>2. pc' \in {"delete", "row", "crashed"}
    BY <1>9 DEF Measure, Goto
  <2> QED BY <2>1, <2>2, PlanStays
<1>10. CASE Delete
  <2>1. UNCHANGED <<plan, parms, failed, clock>> /\ pc' = "exit"
    BY <1>10 DEF Delete, Goto, options, FreeTopology, topologyVars
  <2> QED BY <2>1, PlanStays
<1>11. CASE MachineMoves
  <2>1. UNCHANGED <<plan, parms, failed, clock, pc>> /\ pc = "topology"
    BY <1>11 DEF MachineMoves, MachineChanges, startVars, options
  <2> QED BY <2>1, PlanStays
<1>12. CASE Stopped \/ UNCHANGED vars
  <2>1. UNCHANGED <<plan, parms, failed, clock, pc, tpc>>
    BY <1>12 DEF Stopped, vars, startVars, options, topologyVars
  <2>2. pc \in {"paging", "resolve"} => tpc = "detected"
    BY DEF PlanInv
  <2> QED BY <2>1, <2>2, PlanStays
<1> QED BY <1>1, <1>2, <1>3, <1>4, <1>5, <1>6, <1>7, <1>8, <1>9, <1>10, <1>11, <1>12
        DEF StartNext, Step

\* What the user has not done when a crash has not been asked for.
LEMMA NotAsked ==
  ASSUME pc' \in {"crashed", "hung"}, ~CrashIsAskedFor', UNCHANGED <<parms, line>>
  PROVE  /\ ~failed' /\ NoSizesNamed /\ \A i \in DOMAIN line : ~line[i][3]
         /\ ~(parms.threads > MaximumThreads) /\ parms.asm \notin WalkMethods
         /\ UNCHANGED <<cpuBits, osBits>> => parms.asm \notin cpuBits \ osBits
BY DEF CrashIsAskedFor, NoSizesNamed

\* The method of a session can be executed, unless the user names one that the system
\* has not enabled.
LEMMA MethodRuns ==
  ASSUME MethodsInv, PlanFrom, plan.method # NotSet, parms.asm \notin cpuBits \ osBits
  PROVE  plan.method \in Executable
<1>1. CASE parms.asm = NotSet
  BY <1>1 DEF MethodsInv
<1>2. CASE parms.asm # NotSet
  <2>1. plan.method \in cpuBits \cap osBits
    BY <1>2 DEF MethodsInv, PlanFrom
  <2>2. "cpuid" \in chip.flags
    BY <2>1 DEF MethodsInv
  <2> QED BY <2>1, <2>2 DEF MethodsInv
<1> QED BY <1>1, <1>2

\* No round crashes that nobody has asked to crash: there are threads for its list, an
\* instruction in each block, no chain to follow and a method the system has enabled.
LEMMA RoundIsSafe ==
  ASSUME ParseInv, MethodsInv, PlanFrom, plan.method # NotSet, ~failed, NoSizesNamed,
         ~(parms.threads > MaximumThreads), parms.asm \notin WalkMethods,
         parms.asm \notin cpuBits \ osBits,
         NEW bytes \in Nat, bytes >= 64, NEW repeats, NEW next, next \notin {"crashed", "hung"},
         Round(plan.threads % ThreadModulus, bytes, repeats, next)
  PROVE  pc' \notin {"crashed", "hung"}
<1>2. MaximumThreads \in Nat /\ ThreadModulus \in Nat \ {0}
  BY PlatformAssumption
<1>3. plan.threads \in Nat /\ plan.threads <= MaximumThreads
  <2>1. CASE parms.threads = NotSet
    BY <1>2, <2>1 DEF PlanFrom
  <2>2. CASE parms.threads # NotSet
    <3>1. parms["threads"] \in Nat
      BY <2>2, OptionFacts
    <3> QED BY <1>2, <2>2, <3>1 DEF PlanFrom
  <2> QED BY <2>1, <2>2
<1>4. plan.threads % ThreadModulus <= MaximumThreads /\ plan.threads % ThreadModulus \in Nat
  <2>1. PICK t \in Nat : t = plan.threads
    BY <1>3
  <2>2. t % ThreadModulus \in Nat /\ t % ThreadModulus <= t
    BY <1>2, ModBound
  <2> QED BY <1>2, <1>3, <2>1, <2>2
<1>5. plan.method \notin WalkMethods
  BY DEF PlanFrom, MethodsInv
<1>6. Instructions(bytes) # 0
  BY OneInstruction
<1>7. plan.method \in Executable
  BY MethodRuns
<1>8. PICK n : n = plan.threads % ThreadModulus
  OBVIOUS
<1>9. Round(n, bytes, repeats, next)
  BY <1>8
<1>10. ~(n > MaximumThreads)
  BY <1>2, <1>4, <1>8
<1> QED BY <1>5, <1>6, <1>7, <1>9, <1>10 DEF Round, Goto

\* The next argument is one of the line.
LEMMA HeadIsArgument ==
  ASSUME ParseInv, pc = "parse", args # <<>>
  PROVE  \E i \in DOMAIN line : Head(args) = line[i]
<1>1. line \in CommandLines /\ Len(line) \in Nat /\ DOMAIN line = 1..Len(line)
  BY LineIsList DEF ParseInv
<1>2. PICK n \in 0..Len(line) : args = SubSeq(line, n + 1, Len(line))
  BY DEF ParseInv, ParsedFirst
<1>3. n < Len(line) /\ n \in Nat
  BY <1>1, <1>2
<1>4. Head(args) = line[n + 1]
  BY <1>1, <1>2, <1>3, LineIsList
<1> QED BY <1>1, <1>3, <1>4

\* CrashIsAskedFor is inductive with the other invariants: who crashes stays there.
LEMMA CrashStep ==
  TopologyInv /\ SummaryInv /\ ParseInv /\ MethodsInv /\ PlanInv /\ CrashIsAskedFor
    /\ SummaryInv' /\ [StartNext]_vars => CrashIsAskedFor'
<1> SUFFICES ASSUME TopologyInv, SummaryInv, ParseInv, MethodsInv, PlanInv, CrashIsAskedFor,
                    SummaryInv', [StartNext]_vars, pc' \in {"crashed", "hung"}, ~CrashIsAskedFor'
             PROVE  FALSE
  BY DEF CrashIsAskedFor
<1>1. CASE DetectTopology
  <2>1. UNCHANGED <<parms, line>> /\ pc = "topology"
    BY <1>1 DEF DetectTopology, options
  <2>2. tpc' \in {"crashed", "hung"}
    BY <1>1, <2>1 DEF DetectTopology
  <2>3. failed'
    BY <2>2 DEF SummaryInv
  <2> QED BY <2>1, <2>3, NotAsked
<1>2. CASE RunThreads
  <2>1. UNCHANGED <<parms, line, failed, cpuBits, osBits>> /\ pc = "run"
    BY <1>2 DEF RunThreads, options, processor, topologyVars
  <2>2. PlanFrom /\ plan.method # NotSet
    BY <2>1 DEF PlanInv
  <2>3. PICK bytes \in Nat : bytes = plan.start /\ bytes >= 64
    BY <2>1, <2>2, NotAsked, SizesFrom
  <2>4. PICK repeats : repeats = plan.repeats
    OBVIOUS
  <2>5. Round(plan.threads % ThreadModulus, bytes, repeats, "rows")
    BY <1>2, <2>3, <2>4 DEF RunThreads
  <2> QED BY <2>1, <2>2, <2>3, <2>5, NotAsked, RoundIsSafe
<1>3. CASE CountRows
  <2>1. UNCHANGED <<parms, line, failed>> /\ pc = "rows"
    BY <1>3 DEF CountRows, options, topologyVars
  <2>2. PlanFrom /\ ~failed /\ NoSizesNamed
    BY <2>1, NotAsked DEF PlanInv
  <2>3. plan.delta # 0
    <3>1. plan.delta \in Nat /\ plan.delta >= 64
      BY <2>2, SizesFrom
    <3> QED BY <3>1
  <2>4. PICK rows, ma : rows = AsInt(Span \div plan.delta) + 1 /\ ma = AsInt(8 * rows)
    OBVIOUS
  <2>5. rows = 16 /\ ma = 128
    BY <2>2, <2>4, RowsCounted
  <2>6. pc' = CASE ma < 0 -> "delete" [] ma \in 0..8 * rows - 1 -> "crashed" [] OTHER -> "calibrate"
    BY <1>3, <2>3, <2>4 DEF CountRows, Goto, Span
  <2> QED BY <2>5, <2>6
<1>4. CASE Measure
  <2>1. UNCHANGED <<parms, line, failed>> /\ pc = "measure"
    BY <1>4 DEF Measure, options, topologyVars
  <2>2. PlanFrom /\ ~failed /\ NoSizesNamed
    BY <2>1, NotAsked DEF PlanInv
  <2>3. Instructions(plan.start) # 0
    <3>1. plan.start \in Nat /\ plan.start >= 64
      BY <2>2, SizesFrom
    <3> QED BY <3>1, OneInstruction
  <2>4. pc' \in {"delete", "row"}
    BY <1>4, <2>3 DEF Measure, Goto
  <2> QED BY <2>4
<1>5. CASE ParseArgument
  <2>1. pc = "parse" /\ args # <<>> /\ line' = line
    BY <1>5 DEF ParseArgument
  <2>2. \/ pc' \in {"parse", "rejected"}
        \/ Head(args)[3] /\ UNCHANGED <<parms, line>>
    BY <1>5 DEF ParseArgument, Goto
  <2>3. \E i \in DOMAIN line : Head(args) = line[i]
    BY <2>1, HeadIsArgument
  <2> QED BY <2>2, <2>3, NotAsked
<1>6. CASE DetectProcessor \/ DetectPaging \/ Delete
  <2>1. pc' \in {"topology", "resolve", "delete", "exit"}
    BY <1>6 DEF DetectProcessor, DetectPaging, Delete, Goto
  <2> QED BY <2>1
<1>10. CASE Calibrate
  <2>1. UNCHANGED <<parms, line, failed, cpuBits, osBits>> /\ pc = "calibrate"
    BY <1>10 DEF Calibrate, options, processor, topologyVars
  <2>2. PlanFrom /\ plan.method # NotSet
    BY <2>1 DEF PlanInv
  <2>3. CASE parms.repeats = NotSet /\ parms.adaptive = NotSet
    <3>1. plan.start \in Nat /\ plan.stop \in Nat /\ plan.start >= 64 /\ plan.start <= plan.stop
      BY <2>1, <2>2, NotAsked, SizesFrom
    <3>2. PICK bytes \in Nat : bytes = Larger(plan.start, plan.stop) /\ bytes >= 64
      <4>1. PICK a \in Nat, b \in Nat : a = plan.start /\ b = plan.stop
        BY <3>1
      <4> QED BY <3>1, <4>1 DEF Larger
    <3>3. PICK repeats : repeats = plan.repeats
      OBVIOUS
    <3>4. Round(plan.threads % ThreadModulus, bytes, repeats, "measure")
      BY <1>10, <2>3, <3>2, <3>3 DEF Calibrate
    <3> QED BY <2>1, <2>2, <3>2, <3>4, NotAsked, RoundIsSafe
  <2>4. CASE ~(parms.repeats = NotSet /\ parms.adaptive = NotSet)
    BY <1>10, <2>4 DEF Calibrate, Goto
  <2> QED BY <2>3, <2>4
<1>7. CASE Resolve
  <2>1. pc' \in {"delete", "run"}
    BY <1>7 DEF Resolve, Goto
  <2> QED BY <2>1
<1>8. CASE MachineMoves
  BY <1>8 DEF MachineMoves, startVars
<1>9. CASE Stopped \/ UNCHANGED vars
  <2>1. UNCHANGED <<pc, parms, line, failed, cpuBits, osBits>>
    BY <1>9 DEF Stopped, vars, startVars, options, processor, topologyVars
  <2> QED BY <2>1 DEF CrashIsAskedFor
<1> QED BY <1>1, <1>2, <1>3, <1>4, <1>5, <1>6, <1>7, <1>8, <1>9, <1>10 DEF StartNext, Step

\* What the proofs of the settings and of the crashes need together.
SettingsInv == TopologyInv /\ SummaryInv /\ ParseInv /\ MethodsInv /\ PlanInv /\ CrashIsAskedFor

\* They hold at the start,
LEMMA SettingsInitial == StartInit => SettingsInv
<1>1. StartInit => TopologyInit
  BY DEF StartInit
<1>2. StartInit => CrashIsAskedFor
  BY DEF StartInit, CrashIsAskedFor
<1> QED BY <1>1, <1>2, TopologyInitial, SummaryInitial, ParseInitial, MethodsInitial, PlanInitial
        DEF SettingsInv

\* and in every step of maintask.
LEMMA SettingsStep == SettingsInv /\ [StartNext]_vars => SettingsInv'
<1> SUFFICES ASSUME SettingsInv, [StartNext]_vars PROVE SettingsInv'
  OBVIOUS
<1> USE DEF SettingsInv
<1>1. [TopologyNext]_topologyVars
  BY StartStep
<1>2. TopologyInv' /\ SummaryInv'
  BY <1>1, TopologyStep, SummaryInvStep
<1>3. ParseInv' /\ MethodsInv' /\ PlanInv'
  BY ParseStep, MethodsStep, PlanStep
<1>4. CrashIsAskedFor'
  BY <1>2, CrashStep
<1> QED BY <1>2, <1>3, <1>4

\* For every command line, processor and topology: the sizes the program derives from
\* the caches give sixteen rows with work in each, and a counter of 0 has a reason.
THEOREM PlansAreLegal == StartSpec => []PlanIsLegal
<1>1. SettingsInv => PlanIsLegal
  <2> SUFFICES ASSUME SettingsInv PROVE PlanIsLegal
    OBVIOUS
  <2>1. ASSUME plan.method # NotSet, parms.memory # NotSet, ~failed
        PROVE  /\ 0 < plan.delta /\ plan.start <= plan.stop
               /\ Instructions(plan.start) >= 1
               /\ pc \in {"calibrate", "measure", "row"} => plan.rows = 16
    <3>1. ParseInv /\ PlanFrom /\ RowsAreSixteen
      BY <2>1 DEF SettingsInv, PlanInv
    <3>2. /\ plan.start \in Nat /\ plan.start >= 64 /\ plan.delta \in Nat /\ plan.delta >= 64
          /\ plan.start <= plan.stop
      BY <2>1, <3>1, SizesFrom DEF NoSizesNamed
    <3> QED BY <2>1, <3>1, <3>2, OneInstruction DEF RowsAreSixteen
  <2>2. CounterIsFilled
    BY DEF SettingsInv, PlanInv
  <2> QED BY <2>1, <2>2 DEF PlanIsLegal, CounterIsFilled
<1> QED BY <1>1, SettingsInitial, SettingsStep, PTL DEF StartSpec

\* For every command line, processor and topology: a crash of the start has been asked
\* for, or a call of the topology detector has failed.
THEOREM CrashesAreAskedFor == StartSpec => []CrashIsAskedFor
<1>1. SettingsInv => CrashIsAskedFor
  BY DEF SettingsInv
<1> QED BY <1>1, SettingsInitial, SettingsStep, PTL DEF StartSpec
=============================================================================
