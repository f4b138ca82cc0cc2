-------------------------- MODULE TopologyDetector --------------------------
(***************************************************************************)
(* The constructor and destructor of TopologyDetector                      *)
(* (memory_performance_framework/cpp/TopologyDetector.cpp). It asks two    *)
(* functions of the system for the list of processors and caches, each in  *)
(* a loop that enlarges the buffer until the list fits, and decodes both   *)
(* lists into summaries from which the benchmark takes cache sizes and     *)
(* numbers of threads.                                                     *)
(*                                                                         *)
(* Between two calls the system may report another topology: processors of *)
(* a virtual machine are added while it runs. Lengths count entries.       *)
(***************************************************************************)
EXTENDS Naturals, Sequences, FiniteSets

CONSTANTS
  Topologies,        \* the lists of entries the system can report
  Garbage,           \* the summaries that decoding uninitialized memory can give
  MaxChanges,        \* bound on the changes of the topology
  TopologyFailures   \* the calls that may fail

\* An entry: its Relationship, and of a cache the level, the type and the size, of a
\* core the flag of its threads.
Entries == [rel   : {"core", "node", "cache", "package", "group"},
            level : Nat, type : {"unified", "instruction", "data", "trace"},
            bytes : Nat, smt  : BOOLEAN]

ASSUME TopologyAssumption ==
  /\ Topologies # {} /\ Topologies \subseteq Seq(Entries) \ {<<>>}
  /\ MaxChanges \in Nat
  /\ TopologyFailures \subseteq {"query", "malloc"}

Apis == {"std", "ex"}   \* GetLogicalProcessorInformation and its Ex version

VARIABLES
  machine,   \* the list the system reports now
  seen,      \* history: the lists it has reported since the start
  changes,   \* history: the number of its changes
  apis,      \* the functions the system has
  tpc,       \* where the constructor is
  room,      \* the length of each allocated buffer, 0 for a null pointer
  size,      \* topologySize, topologySizeEx
  filled,    \* whether a call has written the buffer
  entries,   \* what it has written
  summary,   \* topologyData, topologyDataEx
  live,      \* history: allocated blocks of each buffer that have not been freed
  failed     \* history: a call has failed for another reason than the length

world        == <<machine, seen, changes, apis>>
buffers      == <<room, size, filled, entries>>
topologyVars == <<world, tpc, buffers, summary, live, failed>>

BlankSummary == [point |-> [l \in 1..4 |-> 0], cores |-> 0, nodes |-> 0,
                 packages |-> 0, ht |-> FALSE]

TopologyInit ==
  /\ machine \in Topologies /\ seen = {machine} /\ changes = 0
  /\ apis \in SUBSET Apis
  /\ tpc = "std"
  /\ room = [a \in Apis |-> 0] /\ size = [a \in Apis |-> 0]
  /\ filled = [a \in Apis |-> FALSE] /\ entries = [a \in Apis |-> <<>>]
  /\ summary = [a \in Apis |-> BlankSummary]
  /\ live = [a \in Apis |-> 0] /\ failed = FALSE

-----------------------------------------------------------------------------
(* The loops of calls: first the standard function, then the extended one. *)

MachineChanges ==
  /\ changes < MaxChanges
  /\ machine' \in Topologies \ {machine}
  /\ seen' = seen \cup {machine'} /\ changes' = changes + 1
  /\ UNCHANGED <<apis, tpc, buffers, summary, live, failed>>

Leave(a) == tpc' = IF a = "std" THEN "ex" ELSE "decode std"

\* Mutant: the loop goes on without the function.
QueryAbsentStays(a) ==
  /\ tpc = a /\ a \notin apis
  /\ UNCHANGED topologyVars

\* The pointer to the function is null.
QueryAbsent(a) ==
  /\ tpc = a /\ a \notin apis
  /\ Leave(a)
  /\ UNCHANGED <<world, buffers, summary, live, failed>>

\* The list fits into the length that was passed.
QueryFills(a) ==
  /\ tpc = a /\ a \in apis /\ Len(machine) <= size[a]
  /\ filled' = [filled EXCEPT ![a] = TRUE]
  /\ entries' = [entries EXCEPT ![a] = machine]
  /\ size' = [size EXCEPT ![a] = Len(machine)]
  /\ Leave(a)
  /\ UNCHANGED <<world, room, summary, live, failed>>

\* Mutant: a buffer that exists is used again although the list has become longer.
QueryGrowsKeeps(a) ==
  /\ tpc = a /\ a \in apis /\ Len(machine) > size[a]
  /\ size' = [size EXCEPT ![a] = Len(machine)]
  /\ room' = [room EXCEPT ![a] = IF room[a] = 0 THEN Len(machine) ELSE @]
  /\ live' = [live EXCEPT ![a] = 1]
  /\ UNCHANGED <<world, tpc, filled, entries, summary, failed>>

\* ERROR_INSUFFICIENT_BUFFER: the call has set the length it needs. The old buffer
\* is freed and one of that length allocated for the next turn of the loop.
QueryGrows(a) ==
  /\ tpc = a /\ a \in apis /\ Len(machine) > size[a]
  /\ size' = [size EXCEPT ![a] = Len(machine)]
  /\ LET rest == IF room[a] > 0 THEN live[a] - 1 ELSE live[a] IN
     \/ /\ room' = [room EXCEPT ![a] = Len(machine)]
        /\ live' = [live EXCEPT ![a] = rest + 1]
        /\ UNCHANGED <<tpc, failed>>
     \/ /\ "malloc" \in TopologyFailures
        /\ room' = [room EXCEPT ![a] = 0]
        /\ live' = [live EXCEPT ![a] = rest]
        /\ Leave(a) /\ failed' = TRUE
  /\ UNCHANGED <<world, filled, entries, summary>>

\* Any other error ends the loop and leaves the buffer as it is.
QueryFails(a) ==
  /\ tpc = a /\ a \in apis /\ "query" \in TopologyFailures
  /\ Leave(a) /\ failed' = TRUE
  /\ UNCHANGED <<world, buffers, summary, live>>

-----------------------------------------------------------------------------
(* The decoding of the buffers, whatever the calls have returned.          *)

\* Mutant: instruction caches are taken for data caches.
CountedAnyType(s, e) ==
  CASE e.rel = "cache" -> [s EXCEPT !.point[e.level] = e.bytes]
    [] e.rel = "core"    -> [s EXCEPT !.cores = @ + 1, !.ht = IF e.smt THEN TRUE ELSE @]
    [] e.rel = "node"    -> [s EXCEPT !.nodes = @ + 1]
    [] e.rel = "package" -> [s EXCEPT !.packages = @ + 1]
    [] OTHER             -> s

\* One entry. The last data or unified cache of a level gives the level's size.
Counted(s, e) ==
  CASE e.rel = "cache" /\ e.type \in {"unified", "data"} /\ e.level \in 1..4
                         -> [s EXCEPT !.point[e.level] = e.bytes]
    [] e.rel = "core"    -> [s EXCEPT !.cores = @ + 1, !.ht = IF e.smt THEN TRUE ELSE @]
    [] e.rel = "node"    -> [s EXCEPT !.nodes = @ + 1]
    [] e.rel = "package" -> [s EXCEPT !.packages = @ + 1]
    [] OTHER             -> s

\* The loop over the entries of a list.
Decoded(s, list) ==
  LET after[k \in 0..Len(list)] ==
        IF k = 0 THEN s ELSE Counted(after[k - 1], list[k])
  IN after[Len(list)]

Proceed(a) == tpc' = IF a = "std" THEN "decode ex" ELSE "detected"

\* Reading a buffer that was never written: the standard loop takes steps of a fixed
\* length; the extended one steps by a length it reads from the buffer, which may be
\* 0 or lead out of it.
DecodeGarbage(a) ==
  \/ /\ \E s \in Garbage : summary' = [summary EXCEPT ![a] = s]
     /\ Proceed(a)
  \/ a = "ex" /\ tpc' \in {"hung", "crashed"} /\ UNCHANGED summary

Decode(a) ==
  /\ tpc = IF a = "std" THEN "decode std" ELSE "decode ex"
  /\ CASE size[a] = 0 -> UNCHANGED summary /\ Proceed(a)
       [] size[a] > 0 /\ room[a] = 0 -> tpc' = "crashed" /\ UNCHANGED summary
       [] size[a] > 0 /\ room[a] > 0 /\ ~filled[a] -> DecodeGarbage(a)
       [] OTHER ->
            /\ summary' = [summary EXCEPT ![a] = Decoded(@, entries[a])]
            /\ Proceed(a)
  /\ UNCHANGED <<world, buffers, live, failed>>

Detect ==
  \E a \in Apis :
    QueryAbsent(a) \/ QueryFills(a) \/ QueryGrows(a) \/ QueryFails(a) \/ Decode(a)

\* ~TopologyDetector.
FreeTopology ==
  /\ tpc = "detected"
  /\ live' = [a \in Apis |-> IF room[a] > 0 THEN live[a] - 1 ELSE live[a]]
  /\ tpc' = "freed"
  /\ UNCHANGED <<world, buffers, summary, failed>>

TopologyNext == MachineChanges \/ Detect \/ FreeTopology
TopologySpec == TopologyInit /\ [][TopologyNext]_topologyVars

-----------------------------------------------------------------------------
Places == {"std", "ex", "decode std", "decode ex", "detected", "freed", "hung", "crashed"}

\* Types of the detector's state.
TopologyTypeOK ==
  /\ machine \in Topologies /\ seen \subseteq Topologies /\ changes \in Nat
  /\ apis \subseteq Apis /\ tpc \in Places
  /\ room \in [Apis -> Nat] /\ size \in [Apis -> Nat] /\ filled \in [Apis -> BOOLEAN]
  /\ live \in [Apis -> {0, 1}] /\ failed \in BOOLEAN

\* The length passed to a call is never more than the buffer has, also when the
\* topology has grown between two calls: the call writes inside the buffer.
BufferFits == \A a \in Apis : tpc = a => size[a] <= room[a]

\* No loop or failure loses or frees twice a buffer: one block for each pointer that
\* is not null, none after the destructor.
BuffersOwned ==
  \A a \in Apis : live[a] = IF room[a] > 0 /\ tpc # "freed" THEN 1 ELSE 0

\* Both, whatever the system answers and however often the topology changes
\* (TopologyDetector.cpp:62).
BuffersSafe == BufferFits /\ BuffersOwned

\* What is decoded has been written by the system, unless a call has failed for another
\* reason than the length.
DecodesWritten ==
  (tpc \in {"decode std", "decode ex", "detected"} /\ ~failed) =>
    \A a \in Apis : IF a \in apis THEN filled[a] /\ Len(entries[a]) = size[a]
                                  ELSE size[a] = 0

\* The size of the caches of level l, counted without the decoder's loop.
LastCache(m, l) ==
  LET caches == {i \in DOMAIN m : m[i].rel = "cache" /\ m[i].level = l
                                  /\ m[i].type # "instruction" /\ m[i].type # "trace"}
  IN IF caches = {} THEN 0
     ELSE m[CHOOSE i \in caches : \A j \in caches : j <= i].bytes
Number(m, rel) == Cardinality({i \in DOMAIN m : m[i].rel = rel})
SummaryOf(m) ==
  [point    |-> [l \in 1..4 |-> LastCache(m, l)],
   cores    |-> Number(m, "core"),
   nodes    |-> Number(m, "node"),
   packages |-> Number(m, "package"),
   ht       |-> \E i \in DOMAIN m : m[i].rel = "core" /\ m[i].smt]

\* Each summary describes a topology the system has had since the start, and no mixture
\* of two, when its function is there and no call has failed.
SummaryIsTrue ==
  (tpc \in {"detected", "freed"} /\ ~failed) =>
    \A a \in apis : \E m \in seen : summary[a] = SummaryOf(m)
=============================================================================
