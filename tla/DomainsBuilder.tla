--------------------------- MODULE DomainsBuilder ---------------------------
(***************************************************************************)
(* Where the workers' memory comes from and how it is dealt out            *)
(* (memory_performance_framework/cpp): DomainsBuilder detects the NUMA     *)
(* nodes, allocates one area per node (or a single one), exchanges areas   *)
(* between nodes for numa=remote and frees them; buildThreadsList cuts two *)
(* regions per thread out of the areas. The threads themselves are the     *)
(* subject of ThreadsBuilder.                                              *)
(***************************************************************************)
EXTENDS Integers, FiniteSets, Sequences

CONSTANTS
  MaxNodes,       \* MAXIMUM_NODES: length of the node list
  ThreadCounts,   \* the values of the option threads
  NumaOptions,    \* the values of the option numa that are tried
  NumaAllocation, \* VirtualAllocExNuma was found in KERNEL32
  MayFail         \* allocations and thread creations may fail

ASSUME DomainsAssumption ==
  /\ MaxNodes \in Nat \ {0}
  /\ ThreadCounts \subseteq Nat \ {0}
  /\ NumaOptions \subseteq {"unaware", "local", "remote"}
  /\ NumaAllocation \in BOOLEAN /\ MayFail \in BOOLEAN

Node     == 0..(MaxNodes - 1)
NoBlock  == -1
AnyNode  == MaxNodes            \* the area allocated without a node
Block    == Node \cup {AnyNode} \* an area is named by the node it was taken from
Entry    == [id : Node, base : Block \cup {NoBlock}, trueBase : Block \cup {NoBlock}]
Blank    == [id |-> 0, base |-> NoBlock, trueBase |-> NoBlock]

VARIABLES
  present,  \* the nodes the system reports with a non-empty processor mask
  numa, n,  \* options numa and threads
  pc,       \* what the program is doing
  i, j,     \* its loop indices
  nodes,    \* numaData.nodeList
  count,    \* numaData.nodeCount
  simple,   \* simpleEntry
  heap,     \* the areas that are allocated
  threads,  \* the entries written to the threads list
  status    \* the status buildThreadsList will return

domainVars == <<present, numa, n, pc, i, j, nodes, count, simple, heap, threads, status>>

Aware == numa # "unaware"
\* The list handed to buildThreadsList, and its length.
DomainCount  == IF Aware THEN count ELSE 1
Domain(d)    == IF Aware THEN nodes[d] ELSE simple

DomainsInit ==
  /\ present \in SUBSET Node
  /\ numa \in NumaOptions /\ n \in ThreadCounts
  /\ pc = "detect" /\ i = 0 /\ j = 0
  /\ nodes = [d \in Node |-> Blank] /\ count = 0 /\ simple = Blank
  /\ heap = {} /\ threads = <<>> /\ status = TRUE

Goto(s) == pc' = s /\ i' = 0 /\ j' = 0
Stay    == pc' = pc /\ i' = i + 1 /\ j' = j

-----------------------------------------------------------------------------
\* Mutant: a node without processors takes an entry as well.
DetectNodeEmpty ==
  /\ pc = "detect" /\ i < MaxNodes
  /\ nodes' = [nodes EXCEPT ![count] = IF i \in present THEN [Blank EXCEPT !.id = i] ELSE Blank]
  /\ count' = count + 1
  /\ Stay
  /\ UNCHANGED <<present, numa, n, simple, heap, threads, status>>

\* One round of the constructor's loop: a node without processors leaves no entry.
DetectNode ==
  /\ pc = "detect" /\ i < MaxNodes
  /\ nodes' = [nodes EXCEPT ![count] = IF i \in present THEN [Blank EXCEPT !.id = i] ELSE Blank]
  /\ count' = IF i \in present THEN count + 1 ELSE count
  /\ Stay
  /\ UNCHANGED <<present, numa, n, simple, heap, threads, status>>

DetectEnd ==
  /\ pc = "detect" /\ i = MaxNodes
  /\ Goto(IF ~Aware THEN "allocateSimple" ELSE IF count > 0 THEN "allocate" ELSE "returned")
  /\ UNCHANGED <<present, numa, n, nodes, count, simple, heap, threads, status>>

\* Mutant: the address to free is not recorded.
AllocateNodeUnrecorded ==
  /\ pc = "allocate"
  /\ \/ /\ NumaAllocation /\ i < count
        /\ heap' = heap \cup {nodes[i].id}
        /\ nodes' = [nodes EXCEPT ![i].base = nodes[i].id]
        /\ Stay
     \/ /\ i = count
        /\ Goto(IF numa = "remote" THEN "swap" ELSE "build")
        /\ UNCHANGED <<heap, nodes>>
  /\ UNCHANGED <<present, numa, n, count, simple, threads, status>>

\* allocateNodesList: a failure at one node leaves the areas of the nodes before it.
\* Without VirtualAllocExNuma the whole part is skipped and TRUE is returned.
AllocateNode ==
  /\ pc = "allocate"
  /\ \/ /\ NumaAllocation /\ i < count
        /\ heap' = heap \cup {nodes[i].id}
        /\ nodes' = [nodes EXCEPT ![i].base = nodes[i].id, ![i].trueBase = nodes[i].id]
        /\ Stay
     \/ /\ NumaAllocation /\ i < count /\ MayFail
        /\ Goto("returned") /\ UNCHANGED <<heap, nodes>>
     \/ /\ ~NumaAllocation \/ i = count
        /\ Goto(IF NumaAllocation /\ numa = "remote" THEN "swap" ELSE "build")
        /\ UNCHANGED <<heap, nodes>>
  /\ UNCHANGED <<present, numa, n, count, simple, threads, status>>

\* Mutant: the exchange writes one side only.
SwapPairOneSided ==
  /\ pc = "swap"
  /\ \/ /\ i < count - 1
        /\ nodes' = [nodes EXCEPT ![i].base     = nodes[i + 1].base,
                                 ![i].trueBase = nodes[i + 1].trueBase]
        /\ Stay
     \/ /\ i >= count - 1
        /\ Goto("build") /\ UNCHANGED nodes
  /\ UNCHANGED <<present, numa, n, count, simple, heap, threads, status>>

\* numa=remote: entry i and entry i + 1 exchange their areas, for each i in turn.
SwapPair ==
  /\ pc = "swap"
  /\ \/ /\ i < count - 1
        /\ nodes' = [nodes EXCEPT
             ![i].base     = nodes[i + 1].base,     ![i + 1].base     = nodes[i].base,
             ![i].trueBase = nodes[i + 1].trueBase, ![i + 1].trueBase = nodes[i].trueBase]
        /\ Stay
     \/ /\ i >= count - 1
        /\ Goto("build") /\ UNCHANGED nodes
  /\ UNCHANGED <<present, numa, n, count, simple, heap, threads, status>>

AllocateSimple ==
  /\ pc = "allocateSimple"
  /\ \/ /\ heap' = heap \cup {AnyNode}
        /\ simple' = [simple EXCEPT !.base = AnyNode, !.trueBase = AnyNode]
        /\ Goto("build")
     \/ MayFail /\ Goto("returned") /\ UNCHANGED <<heap, simple>>
  /\ UNCHANGED <<present, numa, n, nodes, count, threads, status>>

\* buildThreadsList: the loop over the domains (j) and, within it, over all n
\* threads (i). Thread i of a domain gets the regions 2i and 2i+1 of its area.
CheckRatio ==
  /\ pc = "build"
  /\ Goto(IF n % DomainCount # 0 THEN "returned" ELSE "threads")
  /\ UNCHANGED <<present, numa, n, nodes, count, simple, heap, threads, status>>

\* Mutant: regions that overlap.
ThreadRegionsOverlap(t) == {t, t + 1}

\* bsrc and bdst: two blocks after those of the threads before.
ThreadRegions(t) == {2 * t, 2 * t + 1}

NextDomain == j' = j + 1 /\ i' = 0 /\ pc' = pc

BuildThread ==
  /\ pc = "threads" /\ j < DomainCount
  /\ \/ /\ i < n
        /\ threads' = Append(threads, [domain |-> j, block |-> Domain(j).base,
                                       regions |-> ThreadRegions(i)])
        /\ Stay /\ UNCHANGED status
     \/ /\ i < n /\ MayFail
        /\ status' = FALSE /\ NextDomain /\ UNCHANGED threads
     \/ /\ i = n
        /\ NextDomain /\ UNCHANGED <<status, threads>>
  /\ UNCHANGED <<present, numa, n, nodes, count, simple, heap>>

\* The session: the first n entries of the list run. After an error the program
\* returns without giving anything back.
RunThreads ==
  /\ pc = "threads" /\ j = DomainCount
  /\ Goto(IF status THEN "running" ELSE "returned")
  /\ UNCHANGED <<present, numa, n, nodes, count, simple, heap, threads, status>>

FinishRun ==
  /\ pc = "running"
  /\ Goto("free")
  /\ UNCHANGED <<present, numa, n, nodes, count, simple, heap, threads, status>>

\* freeNodesList and freeSimpleList.
Release(e) == heap' = heap \ {e.trueBase}
Emptied(e) == [e EXCEPT !.base = NoBlock, !.trueBase = NoBlock]

FreeDomain ==
  /\ pc = "free" /\ i < DomainCount
  /\ Release(Domain(i))
  /\ IF Aware
     THEN nodes' = [nodes EXCEPT ![i] = Emptied(@)] /\ UNCHANGED simple
     ELSE simple' = Emptied(simple) /\ UNCHANGED nodes
  /\ Stay
  /\ UNCHANGED <<present, numa, n, count, threads, status>>

FreeEnd ==
  /\ pc = "free" /\ i = DomainCount
  /\ Goto("done")
  /\ UNCHANGED <<present, numa, n, nodes, count, simple, heap, threads, status>>

Ended == pc \in {"done", "returned"} /\ UNCHANGED domainVars

DomainsNext ==
  \/ DetectNode \/ DetectEnd \/ AllocateNode \/ SwapPair \/ AllocateSimple
  \/ CheckRatio \/ BuildThread \/ RunThreads \/ FinishRun \/ FreeDomain \/ FreeEnd
  \/ Ended

DomainsSpec == DomainsInit /\ [][DomainsNext]_domainVars

-----------------------------------------------------------------------------
InUse == pc \in {"threads", "running"}

\* The detected list names every node that has processors once, without gaps.
NodesAreDetected ==
  (pc # "detect") =>
    /\ count = Cardinality(present)
    /\ {nodes[d].id : d \in 0..(count - 1)} = present

\* The areas are dealt to the nodes one to one; with numa=local each node has its
\* own, and with numa=remote, given a second node, none has.
AreasMatchOption ==
  (InUse /\ Aware /\ NumaAllocation) =>
    /\ \A d, e \in 0..(count - 1) : d # e => nodes[d].base # nodes[e].base
    /\ \A d \in 0..(count - 1) :
         IF numa = "local" THEN nodes[d].base = nodes[d].id
         ELSE count > 1 => nodes[d].base # nodes[d].id

\* No two threads of the list share a region of an area, and every region handed out
\* lies among the 2n of an area that is allocated (allThreadsSrcDstMemory).
RegionsAreOwn ==
  /\ \A s, t \in DOMAIN threads :
       (s # t /\ threads[s].block = threads[t].block) =>
         threads[s].regions \cap threads[t].regions = {}
  /\ InUse => \A t \in DOMAIN threads :
                threads[t].block \in heap /\ threads[t].regions \subseteq 0..(2 * n - 1)

\* The list always records exactly the areas that are allocated, through failing
\* allocations and exchanges; so the release, which follows it, frees each area once and
\* leaves none. But the program returns from an error without the release: the areas the
\* list records then stay allocated, all of them if a thread could not be created.
Recorded == {Domain(d).trueBase : d \in 0..(DomainCount - 1)} \ {NoBlock}
FreesExactly ==
  /\ heap = Recorded
  /\ pc = "free" => \A d \in i..(DomainCount - 1) : Domain(d).trueBase \in heap
  /\ pc = "done" => heap = {}
  /\ (pc = "returned" /\ ~status) => \A d \in 0..(DomainCount - 1) : Domain(d).trueBase \in heap

\* The threads that run are spread evenly over the domains: n / m on each.
ThreadsPerDomain ==
  pc = "running" =>
    \A d \in 0..(DomainCount - 1) :
      Cardinality({t \in 1..n : threads[t].domain = d}) = n \div DomainCount
=============================================================================
