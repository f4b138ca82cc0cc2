------------------------ MODULE DomainsBuilderProofs ------------------------
(***************************************************************************)
(* Proofs about DomainsBuilder, for every number of nodes, every subset of *)
(* them that has processors, every number of threads and every failure of  *)
(* an allocation or of a thread's creation. What is said of the areas      *)
(* holds where the system can allocate memory on a node.                   *)
(***************************************************************************)
EXTENDS DomainsBuilder, FiniteSetTheorems, TLAPS

-----------------------------------------------------------------------------
(* What is known at each stage of the program.                             *)

Stages == {"detect", "allocate", "swap", "allocateSimple", "build", "threads", "running",
           "free", "done", "returned"}

ThreadEntry == [domain : Nat, block : Block \cup {NoBlock}, regions : SUBSET Nat]

DomainsTypeOK ==
  /\ present \subseteq Node
  /\ numa \in NumaOptions /\ n \in ThreadCounts
  /\ pc \in Stages /\ i \in Nat /\ j \in Nat
  /\ nodes \in [Node -> Entry] /\ count \in 0..MaxNodes /\ simple \in Entry
  /\ heap \subseteq Block
  /\ threads \in Seq(ThreadEntry) /\ status \in BOOLEAN

\* The nodes the constructor's loop has passed and found processors on.
Found == {m \in present : m < i}

Listed == 0..(count - 1)

\* While the list is filled, it names the nodes found so far, in ascending order.
DetectInv ==
  pc = "detect" =>
    /\ i <= MaxNodes /\ count <= i
    /\ count = Cardinality(Found)
    /\ {nodes[d].id : d \in Listed} = Found
    /\ heap = {}

\* Afterwards it names every node of the system once.
DetectedInv ==
  /\ pc # "detect" => count = Cardinality(present) /\ {nodes[d].id : d \in Listed} = present
  /\ \A d, e \in Listed : d # e => nodes[d].id # nodes[e].id

\* The program follows the option: nodes are only used for numa=local and remote, and
\* areas are only exchanged for numa=remote.
OptionInv ==
  /\ pc \in {"allocate", "swap"} => Aware /\ count > 0
  /\ pc = "swap" => numa = "remote"
  /\ pc = "allocateSimple" => ~Aware
  /\ (pc \in {"build", "threads", "running", "free"} /\ Aware) => count > 0

\* Node by node an area is allocated, and recorded as the address to use and to free.
AllocateInv ==
  /\ pc = "allocate" =>
       /\ i <= count
       /\ \A d \in 0..(i - 1) : nodes[d].base = nodes[d].id /\ nodes[d].trueBase = nodes[d].id
       /\ heap = {nodes[d].id : d \in 0..(i - 1)}
  /\ pc = "allocateSimple" => heap = {}

\* Once they are dealt, each node has one of the areas and no two have the same. The
\* address to free stays with the address to use.
DealInv ==
  /\ (pc \in {"swap", "build", "threads", "running"} /\ Aware) =>
       /\ \A d \in Listed : nodes[d].base = nodes[d].trueBase
       /\ \A d, e \in Listed : d # e => nodes[d].base # nodes[e].base
       /\ heap = {nodes[d].base : d \in Listed}
  /\ (pc \in {"build", "threads", "running"} /\ ~Aware) =>
       simple.base = AnyNode /\ simple.trueBase = AnyNode /\ heap = {AnyNode}

\* The exchanges hand every area down by one node, and the first node's to the last.
Handed(d, upto) ==
  nodes[d].base = IF d < upto THEN nodes[d + 1].id ELSE IF d = upto THEN nodes[0].id
                                                                     ELSE nodes[d].id

ExchangeInv ==
  /\ pc = "swap" => i <= count - 1 /\ \A d \in Listed : Handed(d, i)
  /\ (InUse \/ pc = "build") /\ Aware =>
       \A d \in Listed : IF numa = "local" THEN nodes[d].base = nodes[d].id
                                           ELSE Handed(d, count - 1)

\* A thread's blocks lie in the area of its domain, behind those of the threads before.
ThreadsInv ==
  /\ pc \in {"detect", "allocate", "swap", "allocateSimple", "build"} => threads = <<>>
  /\ pc = "threads" =>
       /\ i <= n /\ j <= DomainCount
       /\ \A t \in DOMAIN threads :
            /\ threads[t].domain <= j
            /\ threads[t].domain = j => threads[t].regions \subseteq 0..(2 * i - 1)
  /\ InUse =>
       \A t \in DOMAIN threads :
         /\ threads[t].domain \in 0..(DomainCount - 1)
         /\ threads[t].block = Domain(threads[t].domain).base
         /\ threads[t].regions \subseteq 0..(2 * n - 1)

\* What is not freed yet is still listed, once.
FreeInv ==
  /\ pc = "free" =>
       /\ i <= DomainCount
       /\ \A d, e \in i..(DomainCount - 1) : d # e => Domain(d).trueBase # Domain(e).trueBase
       /\ heap = {Domain(d).trueBase : d \in i..(DomainCount - 1)}
  /\ pc = "done" => heap = {}

\* The detection of the nodes, which needs nothing of the allocation.
DetectionInv == DomainsTypeOK /\ DetectInv /\ DetectedInv /\ OptionInv

\* What becomes of the areas.
AreasInv ==
  /\ AllocateInv /\ DealInv /\ ExchangeInv /\ ThreadsInv /\ FreeInv
  /\ RegionsAreOwn

-----------------------------------------------------------------------------
(* The detection.                                                          *)

\* An entry of the list is an entry of a list of nodes: the count never exceeds them.
LEMMA ListedAreNodes ==
  ASSUME count \in 0..MaxNodes
  PROVE  Listed \subseteq Node
BY DomainsAssumption DEF Listed, Node

\* The nodes found so far are finitely many.
LEMMA FoundIsFinite ==
  ASSUME present \subseteq Node
  PROVE  IsFiniteSet(present) /\ IsFiniteSet(Found)
<1>1. IsFiniteSet(Node)
  BY FS_Interval, DomainsAssumption DEF Node
<1>2. IsFiniteSet(present)
  BY <1>1, FS_Subset
<1>. QED
  BY <1>2, FS_Subset DEF Found

\* The constructor starts with an empty list.
LEMMA DetectionInit == DomainsInit => DetectionInv
<1>. SUFFICES ASSUME DomainsInit PROVE DetectionInv
  OBVIOUS
<1>. USE DEF DomainsInit
<1>1. DomainsTypeOK
  <2>1. nodes \in [Node -> Entry] /\ simple \in Entry
    BY DomainsAssumption DEF Blank, Entry, Node
  <2>. QED
    BY <2>1, DomainsAssumption DEF DomainsTypeOK, Stages
<1>2. Found = {} /\ Listed = {}
  <2>1. \A m \in present : ~(m < 0)
    BY DomainsAssumption DEF Node
  <2>2. 0..(0 - 1) = {}
    OBVIOUS
  <2>. QED
    BY <2>1, <2>2 DEF Found, Listed
<1>3. DetectInv
  BY <1>2, FS_EmptySet, DomainsAssumption DEF DetectInv
<1>4. DetectedInv
  BY <1>2 DEF DetectedInv
<1>. QED
  BY <1>1, <1>3, <1>4 DEF DetectionInv, OptionInv

\* Every step keeps the types.
LEMMA TypeStep ==
  ASSUME DetectionInv, [DomainsNext]_domainVars
  PROVE  DomainsTypeOK'
<1>. USE DEF DetectionInv, DomainsTypeOK
<1>0. /\ Blank \in Entry /\ \A e \in Entry : Emptied(e) \in Entry
      /\ Node \subseteq Block /\ AnyNode \in Block
  <2>1. 0 \in Node
    BY DomainsAssumption DEF Node
  <2>2. Blank \in Entry
    BY <2>1 DEF Blank, Entry
  <2>3. \A e \in Entry : Emptied(e) \in Entry
    BY DEF Emptied, Entry
  <2>. QED
    BY <2>2, <2>3 DEF Block
<1>1. CASE DetectNode
  <2>1. count \in Node /\ i \in Node /\ count + 1 \in 0..MaxNodes
    BY <1>1, DomainsAssumption DEF DetectNode, DetectInv, Node
  <2>2. [Blank EXCEPT !.id = i] \in Entry
    BY <2>1 DEF Blank, Entry
  <2>3. nodes' \in [Node -> Entry]
    BY <2>1, <2>2, <1>0, <1>1 DEF DetectNode
  <2>. QED
    BY <2>1, <2>3, <1>1 DEF DetectNode, Stay
<1>2. CASE DetectEnd
  BY <1>2 DEF DetectEnd, Goto, Stages
<1>3. CASE AllocateNode
  <2>1. i \in Node \/ i >= count
    BY DomainsAssumption DEF Node
  <2>2. CASE NumaAllocation /\ i < count /\ heap' = heap \cup {nodes[i].id} /\ Stay
             /\ nodes' = [nodes EXCEPT ![i].base = nodes[i].id, ![i].trueBase = nodes[i].id]
    <3>1. i \in Node
      BY <2>1, <2>2
    <3>2. nodes[i].id \in Block
      BY <3>1, <1>0 DEF Entry
    <3>3. nodes' \in [Node -> Entry]
      BY <2>2, <3>1, <3>2 DEF Entry
    <3>. QED
      BY <1>3, <2>2, <3>2, <3>3 DEF AllocateNode, Stay
  <2>. QED
    BY <1>3, <2>2 DEF AllocateNode, Goto, Stages
<1>4. CASE SwapPair
  <2>1. CASE i < count - 1
    <3>1. i \in Node /\ i + 1 \in Node
      BY <2>1, DomainsAssumption DEF Node
    <3>2. nodes[i] \in Entry /\ nodes[i + 1] \in Entry
      BY <3>1
    <3>3. nodes' \in [Node -> Entry]
      BY <1>4, <2>1, <3>1, <3>2 DEF SwapPair, Entry
    <3>. QED
      BY <1>4, <2>1, <3>3 DEF SwapPair, Stay
  <2>2. CASE ~(i < count - 1)
    BY <1>4, <2>2 DEF SwapPair, Goto, Stages
  <2>. QED
    BY <2>1, <2>2
<1>5. CASE AllocateSimple
  <2>1. [simple EXCEPT !.base = AnyNode, !.trueBase = AnyNode] \in Entry
    BY <1>0 DEF Entry
  <2>2. heap \cup {AnyNode} \subseteq Block
    BY <1>0
  <2>3. pc' \in Stages /\ i' \in Nat /\ j' \in Nat
    BY <1>5 DEF AllocateSimple, Goto, Stages
  <2>. QED
    BY <1>5, <2>1, <2>2, <2>3 DEF AllocateSimple
<1>6. CASE CheckRatio \/ RunThreads \/ FinishRun \/ FreeEnd
  BY <1>6 DEF CheckRatio, RunThreads, FinishRun, FreeEnd, Goto, Stages
<1>7. CASE BuildThread
  <2>1. CASE i < n /\ Stay /\ UNCHANGED status
             /\ threads' = Append(threads, [domain |-> j, block |-> Domain(j).base,
                                            regions |-> ThreadRegions(i)])
    <3>1. j \in 0..(DomainCount - 1)
      BY <1>7 DEF BuildThread, DomainCount
    <3>2. Domain(j) \in Entry
      BY <3>1, DomainsAssumption DEF Domain, DomainCount, Node
    <3>3. ThreadRegions(i) \subseteq Nat
      BY DEF ThreadRegions
    <3>4. [domain |-> j, block |-> Domain(j).base, regions |-> ThreadRegions(i)] \in ThreadEntry
      BY <3>2, <3>3 DEF ThreadEntry, Entry
    <3>5. threads' \in Seq(ThreadEntry)
      BY <2>1, <3>4
    <3>. QED
      BY <1>7, <2>1, <3>5 DEF BuildThread, Stay
  <2>2. CASE NextDomain /\ UNCHANGED threads /\ status' \in BOOLEAN
    BY <1>7, <2>2 DEF BuildThread, NextDomain
  <2>. QED
    BY <1>7, <2>1, <2>2 DEF BuildThread
<1>8. CASE FreeDomain
  <2>1. heap' \subseteq Block
    BY <1>8 DEF FreeDomain, Release
  <2>2. CASE Aware
    <3>1. i \in Node
      BY <1>8, <2>2, DomainsAssumption DEF FreeDomain, DomainCount, Node
    <3>2. nodes' \in [Node -> Entry]
      BY <1>8, <2>2, <3>1, <1>0 DEF FreeDomain
    <3>. QED
      BY <1>8, <2>1, <2>2, <3>2 DEF FreeDomain, Stay
  <2>3. CASE ~Aware
    BY <1>8, <2>1, <2>3, <1>0 DEF FreeDomain, Stay
  <2>. QED
    BY <2>2, <2>3
<1>9. CASE Ended \/ UNCHANGED domainVars
  BY <1>9 DEF Ended, domainVars
<1>. QED
  BY <1>1, <1>2, <1>3, <1>4, <1>5, <1>6, <1>7, <1>8, <1>9 DEF DomainsNext

\* Every step keeps the list a list of the nodes found so far. It is written in the
\* constructor's loop alone; afterwards the entries keep their nodes.
LEMMA DetectionStep ==
  ASSUME DetectionInv, [DomainsNext]_domainVars
  PROVE  DetectionInv'
<1>. USE DEF DetectionInv
<1>1. DomainsTypeOK'
  BY TypeStep
<1>2. CASE DetectNode
  <2>. USE <1>2 DEF DetectNode, Stay
  <2>1. /\ count \in Node /\ i \in Node /\ count \in Nat /\ i \in Nat
        /\ nodes \in [Node -> Entry] /\ present \subseteq Node
    BY DomainsAssumption DEF DomainsTypeOK, DetectInv, Node
  <2>2. CASE i \in present
    <3>1. count' = count + 1 /\ nodes' = [nodes EXCEPT ![count] = [Blank EXCEPT !.id = i]]
      BY <2>2
    <3>2. nodes'[count].id = i /\ \A d \in Listed : nodes'[d] = nodes[d]
      BY <3>1, <2>1, ListedAreNodes DEF DomainsTypeOK, Listed, Blank
    <3>3. Listed' = Listed \cup {count}
      BY <3>1, <2>1 DEF Listed
    <3>4. Found' = Found \cup {i} /\ i \notin Found
      <4>1. \A m \in present : m < i + 1 <=> m < i \/ m = i
        BY <2>1, DomainsAssumption DEF Node
      <4>2. ~(i < i)
        BY <2>1
      <4>. QED
        BY <4>1, <4>2, <2>2 DEF Found
    <3>5. Cardinality(Found') = Cardinality(Found) + 1
      BY <3>4, <2>1, FoundIsFinite, FS_AddElement
    <3>6. {nodes'[d].id : d \in Listed'} = Found'
      BY <3>2, <3>3, <3>4 DEF DetectInv
    <3>7. DetectInv'
      BY <3>1, <3>5, <3>6, <2>1, DomainsAssumption DEF DetectInv, Node
    <3>8. \A d \in Listed : nodes[d].id # i
      BY <3>4 DEF DetectInv
    <3>9. DetectedInv'
      BY <3>2, <3>3, <3>8 DEF DetectedInv
    <3>. QED
      BY <1>1, <3>7, <3>9 DEF OptionInv
  <2>3. CASE i \notin present
    <3>1. count' = count /\ \A d \in Listed : nodes'[d] = nodes[d]
      BY <2>3, <2>1, ListedAreNodes DEF DomainsTypeOK, Listed
    <3>2. Listed' = Listed
      BY <3>1 DEF Listed
    <3>3. Found' = Found
      <4>1. \A m \in present : m < i + 1 <=> m < i
        BY <2>1, <2>3, DomainsAssumption DEF Node
      <4>. QED
        BY <4>1 DEF Found
    <3>4. DetectInv'
      <4>1. {nodes'[d].id : d \in Listed} = {nodes[d].id : d \in Listed}
        BY <3>1
      <4>2. i' <= MaxNodes /\ count' <= i'
        BY <3>1, <2>1, DomainsAssumption DEF DetectInv, Node
      <4>. QED
        BY <3>1, <3>2, <3>3, <4>1, <4>2 DEF DetectInv
    <3>5. DetectedInv'
      <4>1. pc = "detect" /\ pc' = "detect"
        BY <1>2
      <4>2. \A d, e \in Listed : d # e => nodes'[d].id # nodes'[e].id
        BY <3>1 DEF DetectedInv
      <4>. QED
        BY <3>2, <4>1, <4>2 DEF DetectedInv
    <3>. QED
      BY <1>1, <3>4, <3>5 DEF OptionInv
  <2>. QED
    BY <2>2, <2>3
<1>3. CASE DetectEnd
  <2>. USE <1>3 DEF DetectEnd, Goto
  <2>1. Found = present
    BY DomainsAssumption DEF Found, Node, DomainsTypeOK
  <2>2. Listed' = Listed
    BY DEF Listed
  <2>3. DetectInv' /\ DetectedInv'
    BY <2>1, <2>2 DEF DetectInv, DetectedInv
  <2>4. OptionInv'
    BY DEF OptionInv, Aware
  <2>. QED
    BY <1>1, <2>3, <2>4
\* The entries keep their nodes, and nothing else is asked of the list.
<1>4. ASSUME pc # "detect", pc' # "detect", UNCHANGED <<present, count>>,
             \A d \in Listed : nodes'[d].id = nodes[d].id
      PROVE  DetectInv' /\ DetectedInv'
  <2>1. Listed' = Listed
    BY <1>4 DEF Listed
  <2>2. {nodes'[d].id : d \in Listed} = {nodes[d].id : d \in Listed}
    BY <1>4
  <2>. QED
    BY <1>4, <2>1, <2>2 DEF DetectInv, DetectedInv
<1>5. CASE AllocateNode
  <2>1. pc # "detect" /\ pc' # "detect" /\ UNCHANGED <<present, count>>
    BY <1>5 DEF AllocateNode, Goto, Stay
  <2>2. \A d \in Listed : nodes'[d].id = nodes[d].id
    BY <1>5, ListedAreNodes DEF AllocateNode, DomainsTypeOK, Entry
  <2>3. OptionInv'
    BY <1>5 DEF AllocateNode, OptionInv, Goto, Stay, Aware
  <2>. QED
    BY <1>1, <1>4, <2>1, <2>2, <2>3
<1>6. CASE SwapPair
  <2>1. pc # "detect" /\ pc' # "detect" /\ UNCHANGED <<present, count>>
    BY <1>6 DEF SwapPair, Goto, Stay
  <2>2. \A d \in Listed : nodes'[d].id = nodes[d].id
    BY <1>6, ListedAreNodes DEF SwapPair, DomainsTypeOK, Entry
  <2>3. OptionInv'
    BY <1>6 DEF SwapPair, OptionInv, Goto, Stay, Aware
  <2>. QED
    BY <1>1, <1>4, <2>1, <2>2, <2>3
<1>7. CASE FreeDomain
  <2>1. pc # "detect" /\ pc' # "detect" /\ UNCHANGED <<present, count>>
    BY <1>7 DEF FreeDomain, Stay
  <2>2. \A d \in Listed : nodes'[d].id = nodes[d].id
    <3>1. nodes' = [nodes EXCEPT ![i] = Emptied(@)] \/ nodes' = nodes
      BY <1>7 DEF FreeDomain
    <3>2. \A e \in Entry : Emptied(e).id = e.id
      BY DEF Entry, Emptied
    <3>3. Listed \subseteq Node /\ nodes \in [Node -> Entry]
      BY ListedAreNodes DEF DomainsTypeOK
    <3>. QED
      BY <3>1, <3>2, <3>3
  <2>3. OptionInv'
    BY <1>7 DEF FreeDomain, OptionInv, Stay, Aware
  <2>. QED
    BY <1>1, <1>4, <2>1, <2>2, <2>3
<1>8. CASE AllocateSimple \/ CheckRatio \/ RunThreads \/ FinishRun \/ BuildThread \/ FreeEnd
  <2>1. pc # "detect" /\ pc' # "detect" /\ UNCHANGED <<present, count, nodes>>
    BY <1>8 DEF AllocateSimple, CheckRatio, RunThreads, FinishRun, BuildThread, FreeEnd,
                Goto, Stay, NextDomain
  <2>2. OptionInv'
    BY <1>8 DEF AllocateSimple, CheckRatio, RunThreads, FinishRun, BuildThread, FreeEnd,
                OptionInv, Goto, Stay, NextDomain, Aware
  <2>. QED
    BY <1>1, <1>4, <2>1, <2>2
<1>9. CASE Ended \/ UNCHANGED domainVars
  <2>1. UNCHANGED domainVars
    BY <1>9 DEF Ended
  <2>. QED
    BY <2>1, <1>1 DEF domainVars, DetectInv, DetectedInv, OptionInv, Found, Listed, Aware
<1>. QED
  BY <1>2, <1>3, <1>5, <1>6, <1>7, <1>8, <1>9 DEF DomainsNext

\* The list of nodes is right from the end of the detection on, with or without an
\* allocation on a node.
THEOREM DetectionInvariance == DomainsSpec => []DetectionInv
BY DetectionInit, DetectionStep, PTL DEF DomainsSpec

\* DomainsBuilder::DomainsBuilder: every node of the system that has processors gets one
\* entry, and the entries are those of the list from its beginning on.
THEOREM NodesAreListed == DomainsSpec => []NodesAreDetected
<1>1. DetectionInv => NodesAreDetected
  BY DEF DetectionInv, DetectedInv, NodesAreDetected, Listed
<1>. QED
  BY <1>1, DetectionInvariance, PTL

-----------------------------------------------------------------------------
(* The areas.                                                              *)

\* The three things that are exchanged and freed are looked up in the list of the
\* domains: its length, and where its entries lie.
LEMMA DomainsListed ==
  ASSUME DetectionInv
  PROVE  /\ Listed \subseteq Node /\ count \in Nat /\ i \in Nat /\ j \in Nat /\ n \in Nat
         /\ nodes \in [Node -> Entry] /\ simple \in Entry
         /\ Aware => DomainCount = count /\ \A d \in Listed : Domain(d) = nodes[d]
         /\ ~Aware => DomainCount = 1 /\ \A d \in Int : Domain(d) = simple
         /\ DomainCount \in Nat
BY ListedAreNodes, DomainsAssumption
   DEF DetectionInv, DomainsTypeOK, DomainCount, Domain

\* Nothing is allocated and no thread is listed when the program starts.
LEMMA AreasInit == DomainsInit => AreasInv
<1>1. DomainsInit => DOMAIN threads = {}
  BY DEF DomainsInit
<1>. QED
  BY <1>1 DEF DomainsInit, AreasInv, AllocateInv, DealInv, ExchangeInv, ThreadsInv, FreeInv,
              RegionsAreOwn, InUse

\* allocateNodesList takes the next node's area, which no entry has yet.
LEMMA AllocateNodeStep ==
  ASSUME NumaAllocation, DetectionInv, AreasInv, AllocateNode
  PROVE  AreasInv'
<1>. USE DEF AllocateNode, AreasInv
<1>0. /\ pc = "allocate" /\ Aware /\ count > 0 /\ Listed' = Listed /\ threads = <<>>
      /\ threads' = <<>> /\ DOMAIN threads' = {} /\ Aware' = Aware /\ count' = count
  BY DEF DetectionInv, OptionInv, ThreadsInv, Listed, Aware
<1>1. ThreadsInv' /\ RegionsAreOwn'
  BY <1>0 DEF Goto, Stay, ThreadsInv, RegionsAreOwn, InUse
<1>2. CASE i < count /\ heap' = heap \cup {nodes[i].id} /\ Stay
           /\ nodes' = [nodes EXCEPT ![i].base = nodes[i].id, ![i].trueBase = nodes[i].id]
  <2>1. i \in Node /\ i \in Nat /\ nodes \in [Node -> Entry] /\ count \in Nat
        /\ Listed \subseteq Node
    BY <1>2, DomainsListed DEF Listed
  <2>2. /\ \A d \in Listed : nodes'[d].id = nodes[d].id
        /\ \A d \in Listed : d # i => nodes'[d] = nodes[d]
        /\ nodes'[i].base = nodes[i].id /\ nodes'[i].trueBase = nodes[i].id
    BY <1>2, <2>1 DEF Entry
  <2>3. 0..(i' - 1) = (0..(i - 1)) \cup {i} /\ 0..(i - 1) \subseteq Listed
        /\ i \in Listed /\ i \notin 0..(i - 1)
    BY <1>2, <2>1 DEF Stay, Listed
  <2>4. \A d \in 0..(i' - 1) : nodes'[d].base = nodes'[d].id
                               /\ nodes'[d].trueBase = nodes'[d].id
    BY <1>0, <2>2, <2>3 DEF AllocateInv
  <2>5. heap' = {nodes'[d].id : d \in 0..(i' - 1)}
    <3>1. {nodes'[d].id : d \in 0..(i' - 1)} = {nodes[d].id : d \in 0..(i - 1)} \cup {nodes[i].id}
      BY <2>2, <2>3
    <3>. QED
      BY <1>0, <1>2, <3>1 DEF AllocateInv
  <2>6. AllocateInv'
    <3>1. pc' = "allocate" /\ i' <= count'
      BY <1>0, <1>2, <2>1 DEF Stay
    <3>. QED
      BY <2>4, <2>5, <3>1 DEF AllocateInv
  <2>. QED
    BY <1>0, <1>1, <1>2, <2>6 DEF Stay, DealInv, ExchangeInv, FreeInv, InUse
<1>3. CASE Goto("returned") /\ UNCHANGED <<heap, nodes>>
  BY <1>0, <1>1, <1>3 DEF Goto, AllocateInv, DealInv, ExchangeInv, FreeInv, InUse
<1>4. CASE i = count /\ Goto(IF numa = "remote" THEN "swap" ELSE "build")
           /\ UNCHANGED <<heap, nodes>>
  <2>1. i - 1 = count - 1 /\ 0..(i - 1) = Listed
    BY <1>4 DEF Listed
  <2>2. \A d \in Listed : nodes[d].base = nodes[d].id /\ nodes[d].trueBase = nodes[d].id
    BY <1>0, <2>1 DEF AllocateInv
  <2>3. heap = {nodes[d].base : d \in Listed}
    <3>1. {nodes[d].base : d \in Listed} = {nodes[d].id : d \in Listed}
      BY <2>2
    <3>. QED
      BY <1>0, <2>1, <3>1 DEF AllocateInv
  <2>4. \A d, e \in Listed : d # e => nodes[d].base # nodes[e].base
    BY <2>2 DEF DetectionInv, DetectedInv
  <2>5. DealInv'
    BY <1>0, <1>4, <2>2, <2>3, <2>4 DEF DealInv
  <2>6. numa \in {"local", "remote"} /\ numa' = numa
    BY <1>0, DomainsAssumption DEF DetectionInv, DomainsTypeOK, Aware
  <2>7. ExchangeInv'
    <3>1. CASE numa = "remote"
      <4>1. /\ pc' = "swap" /\ i' = 0 /\ nodes' = nodes /\ 0 <= count - 1
        BY <1>0, <1>4, <3>1, DomainsListed DEF Goto
      <4>2. \A d \in Listed : ~(d < 0)
        BY DomainsListed DEF Listed
      <4>3. \A d \in Listed : Handed(d, i)'
        <5>1. ASSUME NEW d \in Listed PROVE Handed(d, i)'
          BY <4>1, <4>2, <2>2 DEF Handed
        <5>. QED
          BY <5>1
      <4>. QED
        BY <1>0, <4>1, <4>3 DEF ExchangeInv, InUse
    <3>2. CASE numa = "local"
      BY <1>0, <1>4, <2>2, <2>6, <3>2 DEF Goto, ExchangeInv, InUse
    <3>. QED
      BY <2>6, <3>1, <3>2
  <2>. QED
    BY <1>0, <1>1, <1>4, <2>5, <2>7 DEF Goto, AllocateInv, FreeInv
<1>. QED
  BY <1>2, <1>3, <1>4

\* The exchange of two neighbours moves what the two entries record, and nothing else.
LEMMA SwapMoves ==
  ASSUME DetectionInv, SwapPair, i < count - 1
  PROVE  /\ \A d \in Listed : nodes'[d].id = nodes[d].id
         /\ \A d \in Listed : d # i /\ d # i + 1 => nodes'[d] = nodes[d]
         /\ nodes'[i].base = nodes[i + 1].base /\ nodes'[i].trueBase = nodes[i + 1].trueBase
         /\ nodes'[i + 1].base = nodes[i].base /\ nodes'[i + 1].trueBase = nodes[i].trueBase
         /\ pc' = "swap" /\ i' = i + 1
<1>1. /\ i \in Listed /\ i + 1 \in Listed /\ i # i + 1 /\ nodes \in [Node -> Entry]
      /\ Listed \subseteq Node /\ ~(i >= count - 1)
  BY DomainsListed DEF Listed
<1>2. /\ nodes' = [nodes EXCEPT
           ![i].base     = nodes[i + 1].base,     ![i + 1].base     = nodes[i].base,
           ![i].trueBase = nodes[i + 1].trueBase, ![i + 1].trueBase = nodes[i].trueBase]
      /\ pc' = "swap" /\ i' = i + 1
  BY <1>1 DEF SwapPair, Stay
<1>3. nodes'[i] = [id |-> nodes[i].id, base |-> nodes[i + 1].base,
                   trueBase |-> nodes[i + 1].trueBase]
  BY <1>1, <1>2 DEF Entry
<1>4. nodes'[i + 1] = [id |-> nodes[i + 1].id, base |-> nodes[i].base,
                       trueBase |-> nodes[i].trueBase]
  BY <1>1, <1>2 DEF Entry
<1>5. \A d \in Node : d # i /\ d # i + 1 => nodes'[d] = nodes[d]
  BY <1>1, <1>2
<1>6. /\ nodes'[i].id = nodes[i].id /\ nodes'[i + 1].id = nodes[i + 1].id
      /\ nodes'[i].base = nodes[i + 1].base /\ nodes'[i].trueBase = nodes[i + 1].trueBase
      /\ nodes'[i + 1].base = nodes[i].base /\ nodes'[i + 1].trueBase = nodes[i].trueBase
  BY <1>3, <1>4
<1>7. \A d \in Listed : d # i /\ d # i + 1 => nodes'[d] = nodes[d]
  BY <1>1, <1>5
<1>8. \A d \in Listed : nodes'[d].id = nodes[d].id
  BY <1>6, <1>7
<1>. QED
  BY <1>2, <1>6, <1>7, <1>8

\* The exchange of two neighbours: the areas stay the same and each entry has one of
\* its own; the first node's area moves one entry down.
LEMMA SwapPairStep ==
  ASSUME NumaAllocation, DetectionInv, AreasInv, SwapPair
  PROVE  AreasInv'
<1>a. \A d, e \in Nat : d < e \/ d = e \/ d = e + 1 \/ d > e + 1
  OBVIOUS
<1>. USE DEF SwapPair, AreasInv
<1>0. /\ pc = "swap" /\ Aware /\ numa = "remote" /\ count > 0 /\ Listed' = Listed
      /\ threads = <<>> /\ threads' = <<>> /\ DOMAIN threads' = {} /\ Aware' = Aware
      /\ count' = count /\ heap' = heap
  BY DEF DetectionInv, OptionInv, ThreadsInv, Listed, Aware
<1>1. ThreadsInv' /\ RegionsAreOwn'
  BY <1>0 DEF Goto, Stay, ThreadsInv, RegionsAreOwn, InUse
<1>2. CASE i < count - 1
  <2>1. /\ i \in Listed /\ i + 1 \in Listed /\ i # i + 1 /\ nodes \in [Node -> Entry]
        /\ Listed \subseteq Node /\ i \in Nat /\ count \in Nat
    BY <1>2, DomainsListed DEF Listed
  <2>2. /\ \A d \in Listed : nodes'[d].id = nodes[d].id
        /\ \A d \in Listed : d # i /\ d # i + 1 => nodes'[d] = nodes[d]
        /\ nodes'[i].base = nodes[i + 1].base /\ nodes'[i].trueBase = nodes[i + 1].trueBase
        /\ nodes'[i + 1].base = nodes[i].base /\ nodes'[i + 1].trueBase = nodes[i].trueBase
        /\ pc' = "swap" /\ i' = i + 1
    BY <1>2, SwapMoves
  <2>3. /\ \A d \in Listed : nodes[d].base = nodes[d].trueBase
        /\ \A d, e \in Listed : d # e => nodes[d].base # nodes[e].base
        /\ heap = {nodes[d].base : d \in Listed}
    BY <1>0 DEF DealInv
  <2>4. ASSUME NEW d \in Listed PROVE nodes'[d].base = nodes'[d].trueBase
    <3>1. CASE d = i
      BY <2>1, <2>2, <2>3, <3>1
    <3>2. CASE d = i + 1
      BY <2>1, <2>2, <2>3, <3>2
    <3>3. CASE d # i /\ d # i + 1
      BY <2>2, <2>3, <3>3
    <3>. QED
      BY <3>1, <3>2, <3>3
  <2>5. ASSUME NEW d \in Listed, NEW e \in Listed, d # e PROVE nodes'[d].base # nodes'[e].base
    <3>. HIDE DEF SwapPair, AreasInv
    <3>. DEFINE From(x) == IF x = i THEN i + 1 ELSE IF x = i + 1 THEN i ELSE x
    <3>1. \A x \in Listed : From(x) \in Listed /\ nodes'[x].base = nodes[From(x)].base
      BY <2>1, <2>2
    <3>2. From(d) # From(e)
      BY <2>1, <2>5
    <3>. HIDE DEF From
    <3>. QED
      BY <2>3, <3>1, <3>2
  <2>6. {nodes'[d].base : d \in Listed} = {nodes[d].base : d \in Listed}
    <3>1. ASSUME NEW d \in Listed
          PROVE  /\ \E e \in Listed : nodes'[d].base = nodes[e].base
                 /\ \E e \in Listed : nodes[d].base = nodes'[e].base
      <4>1. CASE d = i \/ d = i + 1
        BY <2>1, <2>2, <4>1
      <4>2. CASE d # i /\ d # i + 1
        BY <2>2, <4>2
      <4>. QED
        BY <4>1, <4>2
    <3>2. ASSUME NEW x \in {nodes'[d].base : d \in Listed}
          PROVE  x \in {nodes[d].base : d \in Listed}
      <4>1. PICK d \in Listed : x = nodes'[d].base
        BY <3>2, Zenon
      <4>2. PICK e \in Listed : nodes'[d].base = nodes[e].base
        BY <3>1, <4>1, Zenon
      <4>. QED
        BY <4>1, <4>2, Zenon
    <3>3. ASSUME NEW x \in {nodes[d].base : d \in Listed}
          PROVE  x \in {nodes'[d].base : d \in Listed}
      <4>1. PICK d \in Listed : x = nodes[d].base
        BY <3>3, Zenon
      <4>2. PICK e \in Listed : nodes[d].base = nodes'[e].base
        BY <3>1, <4>1, Zenon
      <4>. QED
        BY <4>1, <4>2, Zenon
    <3>. QED
      BY <3>2, <3>3
  <2>7. pc' = "swap" /\ i' = i + 1
    BY <2>2
  <2>8. DealInv'
    BY <1>0, <2>3, <2>4, <2>5, <2>6, <2>7 DEF DealInv
  <2>9. \A d \in Listed : Handed(d, i)'
    <3>1. \A d \in Listed : Handed(d, i)
      BY <1>0 DEF ExchangeInv
    <3>2. ASSUME NEW d \in Listed PROVE Handed(d, i)'
      <4>1. d \in Nat /\ 0 \in Listed
        BY <2>1 DEF Listed
      <4>2. CASE d = i
        <5>1. nodes[i + 1].base = nodes[i + 1].id
          BY <3>1, <2>1 DEF Handed
        <5>. QED
          BY <4>2, <5>1, <2>1, <2>2, <2>7 DEF Handed
      <4>3. CASE d = i + 1
        <5>1. nodes[i].base = nodes[0].id
          BY <3>1, <2>1 DEF Handed
        <5>. QED
          BY <4>1, <4>3, <5>1, <2>1, <2>2, <2>7 DEF Handed
      <4>4. CASE d < i
        <5>1. d + 1 \in Listed /\ d # i /\ d # i + 1
          BY <4>1, <4>4, <2>1 DEF Listed
        <5>. QED
          BY <3>1, <4>1, <4>4, <5>1, <2>1, <2>2, <2>7 DEF Handed
      <4>5. CASE d > i + 1
        BY <3>1, <4>1, <4>5, <2>1, <2>2, <2>7 DEF Handed
      <4>6. d < i \/ d = i \/ d = i + 1 \/ d > i + 1
        BY <4>1, <2>1, <1>a
      <4>. QED
        BY <4>2, <4>3, <4>4, <4>5, <4>6
    <3>. QED
      BY <3>2
  <2>10. ExchangeInv'
    BY <1>0, <1>2, <2>1, <2>7, <2>9 DEF ExchangeInv, InUse
  <2>. QED
    BY <1>1, <2>7, <2>8, <2>10 DEF AllocateInv, FreeInv
<1>3. CASE ~(i < count - 1)
  <2>1. pc' = "build" /\ nodes' = nodes /\ i = count - 1
    BY <1>0, <1>3, DomainsListed DEF Goto, ExchangeInv
  <2>2. DealInv'
    BY <1>0, <2>1 DEF DealInv
  <2>3. ExchangeInv'
    <3>1. \A d \in Listed : Handed(d, count - 1)'
      BY <1>0, <2>1 DEF ExchangeInv, Handed
    <3>. QED
      BY <1>0, <2>1, <3>1 DEF ExchangeInv
  <2>. QED
    BY <1>1, <2>1, <2>2, <2>3 DEF AllocateInv, FreeInv
<1>. QED
  BY <1>2, <1>3

\* Without the option the one area is the only one.
LEMMA AllocateSimpleStep ==
  ASSUME NumaAllocation, DetectionInv, AreasInv, AllocateSimple
  PROVE  AreasInv'
<1>. USE DEF AllocateSimple, AreasInv
<1>0. /\ pc = "allocateSimple" /\ ~Aware /\ heap = {} /\ threads = <<>> /\ threads' = <<>>
      /\ DOMAIN threads' = {} /\ Aware' = Aware /\ simple \in Entry
  BY DomainsListed DEF DetectionInv, OptionInv, AllocateInv, ThreadsInv, Aware
<1>1. ThreadsInv' /\ RegionsAreOwn'
  BY <1>0 DEF Goto, ThreadsInv, RegionsAreOwn, InUse
<1>2. CASE pc' = "build"
  <2>1. simple'.base = AnyNode /\ simple'.trueBase = AnyNode /\ heap' = {AnyNode}
    BY <1>0, <1>2 DEF Goto, Entry
  <2>. QED
    BY <1>0, <1>1, <1>2, <2>1 DEF AllocateInv, DealInv, ExchangeInv, FreeInv, InUse
<1>3. CASE pc' = "returned"
  BY <1>0, <1>1, <1>3 DEF AllocateInv, DealInv, ExchangeInv, FreeInv, InUse
<1>. QED
  BY <1>2, <1>3 DEF Goto

\* Between the dealing and the freeing nothing happens to the areas.
LEMMA DealtKept ==
  ASSUME DealInv, ExchangeInv, InUse \/ pc = "build", InUse',
         UNCHANGED <<numa, nodes, count, simple, heap>>
  PROVE  DealInv' /\ ExchangeInv'
<1>1. /\ Aware' = Aware /\ Listed' = Listed /\ pc \in {"build", "threads", "running"}
      /\ pc' \in {"threads", "running"}
  BY DEF Aware, Listed, InUse
<1>2. DealInv'
  BY <1>1 DEF DealInv
<1>3. ASSUME Aware, NEW d \in Listed
      PROVE  IF numa = "local" THEN nodes[d].base = nodes[d].id ELSE Handed(d, count - 1)
  BY <1>1, <1>3 DEF ExchangeInv
<1>4. ASSUME Aware, NEW d \in Listed
      PROVE  (IF numa = "local" THEN nodes[d].base = nodes[d].id ELSE Handed(d, count - 1))'
  BY <1>3, <1>4 DEF Handed
<1>5. ExchangeInv'
  BY <1>1, <1>4 DEF ExchangeInv
<1>. QED
  BY <1>2, <1>5

\* buildThreadsList starts with an empty list of threads.
LEMMA CheckRatioStep ==
  ASSUME NumaAllocation, DetectionInv, AreasInv, CheckRatio
  PROVE  AreasInv'
<1>. USE DEF CheckRatio, AreasInv
<1>0. /\ pc = "build" /\ threads = <<>> /\ threads' = <<>> /\ DOMAIN threads' = {}
      /\ DomainCount' = DomainCount /\ n' = n
      /\ UNCHANGED <<numa, nodes, count, simple, heap>>
  BY DEF ThreadsInv, DomainCount, Aware
<1>1. CASE pc' = "threads"
  <2>1. DealInv' /\ ExchangeInv'
    BY <1>0, <1>1, DealtKept DEF InUse
  <2>2. 0 <= DomainCount' /\ 0 <= n' /\ i' = 0 /\ j' = 0
    BY <1>0, DomainsListed DEF Goto
  <2>3. ThreadsInv' /\ RegionsAreOwn'
    BY <1>0, <1>1, <2>2 DEF ThreadsInv, RegionsAreOwn
  <2>. QED
    BY <1>1, <2>1, <2>3 DEF AllocateInv, FreeInv
<1>2. CASE pc' = "returned"
  BY <1>0, <1>2 DEF AllocateInv, DealInv, ExchangeInv, ThreadsInv, FreeInv, RegionsAreOwn, InUse
<1>. QED
  BY <1>1, <1>2 DEF Goto

\* A new thread's regions lie behind those of the threads before it in its domain, and
\* no two domains have the same area.
LEMMA BuildThreadStep ==
  ASSUME NumaAllocation, DetectionInv, AreasInv, BuildThread
  PROVE  AreasInv'
<1>. USE DEF AreasInv
<1>0. /\ pc = "threads" /\ pc' = "threads" /\ j \in 0..(DomainCount - 1) /\ InUse /\ InUse'
      /\ i \in Nat /\ i <= n /\ n \in Nat /\ j \in Nat /\ DomainCount \in Nat
      /\ DomainCount' = DomainCount /\ n' = n
      /\ UNCHANGED <<numa, nodes, count, simple, heap>>
  BY DomainsListed
     DEF BuildThread, ThreadsInv, Stay, NextDomain, DomainCount, Aware, InUse
<1>1. DealInv' /\ ExchangeInv' /\ AllocateInv' /\ FreeInv'
  BY <1>0, DealtKept DEF AllocateInv, FreeInv
<1>2. \A d : Domain(d)' = Domain(d)
  BY <1>0 DEF Domain, Aware
<1>3. /\ threads \in Seq(ThreadEntry) /\ threads' \in Seq(ThreadEntry)
      /\ \A t \in DOMAIN threads : threads[t] \in ThreadEntry
  BY TypeStep DEF DetectionInv, DomainsTypeOK, DomainsNext
<1>4. \A t \in DOMAIN threads :
        /\ threads[t].domain <= j
        /\ threads[t].domain = j => threads[t].regions \subseteq 0..(2 * i - 1)
        /\ threads[t].domain \in 0..(DomainCount - 1)
        /\ threads[t].block = Domain(threads[t].domain).base
        /\ threads[t].regions \subseteq 0..(2 * n - 1)
        /\ threads[t].block \in heap
  BY <1>0 DEF ThreadsInv, RegionsAreOwn
\* An area belongs to one domain.
<1>5. \A d, e \in 0..(DomainCount - 1) : Domain(d).base = Domain(e).base => d = e
  <2>1. CASE Aware
    BY <1>0, <2>1, DomainsListed DEF DealInv, Listed
  <2>2. CASE ~Aware
    BY <2>2, DomainsListed
  <2>. QED
    BY <2>1, <2>2
<1>6. \A d \in 0..(DomainCount - 1) : Domain(d).base \in heap
  <2>1. CASE Aware
    BY <1>0, <2>1, DomainsListed DEF DealInv, Listed
  <2>2. CASE ~Aware
    BY <1>0, <2>2, DomainsListed DEF DealInv
  <2>. QED
    BY <2>1, <2>2
<1>7. CASE i < n /\ Stay
           /\ threads' = Append(threads, [domain |-> j, block |-> Domain(j).base,
                                          regions |-> ThreadRegions(i)])
  <2>1. /\ DOMAIN threads' = DOMAIN threads \cup {Len(threads) + 1}
        /\ \A t \in DOMAIN threads : threads'[t] = threads[t] /\ t # Len(threads) + 1
        /\ threads'[Len(threads) + 1] = [domain |-> j, block |-> Domain(j).base,
                                         regions |-> ThreadRegions(i)]
    BY <1>3, <1>7
  <2>. DEFINE last == Len(threads) + 1
  <2>2. /\ threads'[last].domain = j /\ threads'[last].block = Domain(j).base
        /\ threads'[last].regions = ThreadRegions(i)
    BY <2>1
  <2>3. /\ ThreadRegions(i) \subseteq 0..(2 * (i + 1) - 1)
        /\ ThreadRegions(i) \subseteq 0..(2 * n - 1)
        /\ ThreadRegions(i) \cap (0..(2 * i - 1)) = {}
    BY <1>0, <1>7 DEF ThreadRegions
  <2>4. 0..(2 * i - 1) \subseteq 0..(2 * (i + 1) - 1)
    BY <1>0
  <2>5. i' = i + 1 /\ j' = j
    BY <1>7 DEF Stay
  <2>. HIDE DEF last
  <2>6. ASSUME NEW t \in DOMAIN threads'
        PROVE  /\ threads'[t].domain <= j
               /\ threads'[t].domain = j => threads'[t].regions \subseteq 0..(2 * (i + 1) - 1)
               /\ threads'[t].domain \in 0..(DomainCount - 1)
               /\ threads'[t].block = Domain(threads'[t].domain).base
               /\ threads'[t].regions \subseteq 0..(2 * n - 1)
               /\ threads'[t].block \in heap
    <3>1. CASE t = last
      BY <3>1, <2>2, <2>3, <1>0, <1>6
    <3>2. CASE t \in DOMAIN threads
      BY <3>2, <2>1, <2>4, <1>4
    <3>. QED
      BY <2>1, <3>1, <3>2 DEF last
  <2>7. ThreadsInv'
    BY <1>0, <1>2, <1>7, <2>5, <2>6 DEF ThreadsInv
  <2>8. \A t \in DOMAIN threads :
          threads[t].block = Domain(j).base => threads[t].regions \cap ThreadRegions(i) = {}
    BY <1>0, <1>4, <1>5, <2>3
  <2>9. \A s, t \in DOMAIN threads' :
          (s # t /\ threads'[s].block = threads'[t].block) =>
            threads'[s].regions \cap threads'[t].regions = {}
    <3>1. ASSUME NEW s \in DOMAIN threads', NEW t \in DOMAIN threads',
                 s # t, threads'[s].block = threads'[t].block
          PROVE  threads'[s].regions \cap threads'[t].regions = {}
      <4>1. CASE s \in DOMAIN threads /\ t \in DOMAIN threads
        BY <3>1, <4>1, <2>1 DEF RegionsAreOwn
      <4>2. CASE s = last /\ t \in DOMAIN threads
        BY <3>1, <4>2, <2>1, <2>2, <2>8
      <4>3. CASE t = last /\ s \in DOMAIN threads
        BY <3>1, <4>3, <2>1, <2>2, <2>8
      <4>. QED
        BY <3>1, <2>1, <4>1, <4>2, <4>3 DEF last
    <3>. QED
      BY <3>1
  <2>10. RegionsAreOwn'
    BY <1>0, <2>6, <2>9 DEF RegionsAreOwn
  <2>. QED
    BY <1>1, <2>7, <2>10
<1>8. CASE NextDomain /\ UNCHANGED threads
  <2>1. i' = 0 /\ j' = j + 1 /\ threads' = threads
    BY <1>8 DEF NextDomain
  <2>2. \A t \in DOMAIN threads : threads[t].domain <= j + 1 /\ threads[t].domain # j + 1
    BY <1>0, <1>4
  <2>3. ThreadsInv'
    BY <1>0, <1>2, <1>4, <2>1, <2>2 DEF ThreadsInv
  <2>4. RegionsAreOwn'
    BY <1>0, <1>8 DEF RegionsAreOwn
  <2>. QED
    BY <1>1, <2>3, <2>4
<1>. QED
  BY <1>7, <1>8 DEF BuildThread

\* The run begins and ends with the areas as they were dealt. After it, every area is
\* still listed where it is to be freed, once.
LEMMA RunStep ==
  ASSUME NumaAllocation, DetectionInv, AreasInv, RunThreads \/ FinishRun
  PROVE  AreasInv'
<1>. USE DEF AreasInv
<1>0. /\ InUse /\ DomainCount' = DomainCount /\ Aware' = Aware
      /\ UNCHANGED <<numa, n, nodes, count, simple, heap, threads>>
      /\ pc' \in {"running", "returned", "free"} /\ i' = 0
      /\ (pc' = "free" => pc = "running")
  BY DEF RunThreads, FinishRun, Goto, DomainCount, Aware, InUse
<1>1. \A d : Domain(d)' = Domain(d)
  BY <1>0 DEF Domain
<1>2. CASE pc' = "running"
  <2>1. DealInv' /\ ExchangeInv'
    BY <1>0, <1>2, DealtKept DEF InUse
  <2>2. ThreadsInv' /\ RegionsAreOwn'
    BY <1>0, <1>1, <1>2 DEF ThreadsInv, RegionsAreOwn
  <2>. QED
    BY <1>2, <2>1, <2>2 DEF AllocateInv, FreeInv
<1>3. CASE pc' = "free"
  <2>1. 0..(DomainCount - 1) = IF Aware THEN Listed ELSE {0}
    <3>1. 0..(1 - 1) = {0}
      OBVIOUS
    <3>. QED
      BY <3>1, DomainsListed DEF Listed
  <2>2. /\ \A d, e \in 0..(DomainCount - 1) : d # e => Domain(d).trueBase # Domain(e).trueBase
        /\ heap = {Domain(d).trueBase : d \in 0..(DomainCount - 1)}
    <3>1. CASE Aware
      <4>1. \A d \in Listed : Domain(d).trueBase = nodes[d].base
        BY <1>0, <3>1, DomainsListed DEF DealInv, InUse
      <4>2. {Domain(d).trueBase : d \in Listed} = {nodes[d].base : d \in Listed}
        BY <4>1
      <4>3. /\ \A d, e \in Listed : d # e => nodes[d].base # nodes[e].base
            /\ heap = {nodes[d].base : d \in Listed}
        BY <1>0, <3>1 DEF DealInv, InUse
      <4>4. 0..(DomainCount - 1) = Listed
        BY <2>1, <3>1
      <4>5. \A d, e \in Listed : d # e => Domain(d).trueBase # Domain(e).trueBase
        BY <4>1, <4>3
      <4>6. heap = {Domain(d).trueBase : d \in Listed}
        BY <4>2, <4>3
      <4>. QED
        BY <4>4, <4>5, <4>6
    <3>2. CASE ~Aware
      <4>1. Domain(0).trueBase = AnyNode /\ heap = {AnyNode}
        BY <1>0, <3>2, DomainsListed DEF DealInv, InUse
      <4>. QED
        BY <2>1, <3>2, <4>1
    <3>. QED
      BY <3>1, <3>2
  <2>3. FreeInv'
    BY <1>0, <1>1, <1>3, <2>2, DomainsListed DEF FreeInv
  <2>. QED
    BY <1>0, <1>3, <2>3
       DEF AllocateInv, DealInv, ExchangeInv, ThreadsInv, RegionsAreOwn, InUse
<1>4. CASE pc' = "returned"
  BY <1>0, <1>4 DEF AllocateInv, DealInv, ExchangeInv, ThreadsInv, FreeInv, RegionsAreOwn, InUse
<1>. QED
  BY <1>0, <1>2, <1>3, <1>4

\* freeNodesList and freeSimpleList release the area of one entry; the others keep theirs.
LEMMA FreeDomainStep ==
  ASSUME NumaAllocation, DetectionInv, AreasInv, FreeDomain
  PROVE  AreasInv'
<1>. USE DEF AreasInv
<1>0. /\ pc = "free" /\ pc' = "free" /\ i < DomainCount /\ i' = i + 1 /\ i \in Nat
      /\ DomainCount \in Nat /\ DomainCount' = DomainCount /\ Aware' = Aware
      /\ heap' = heap \ {Domain(i).trueBase} /\ threads' = threads
      /\ UNCHANGED <<numa, n, count, threads>>
  BY DomainsListed DEF FreeDomain, Stay, Release, DomainCount, Aware
<1>1. /\ i..(DomainCount - 1) = (i'..(DomainCount - 1)) \cup {i}
      /\ i \in i..(DomainCount - 1) /\ i \notin i'..(DomainCount - 1)
  BY <1>0
<1>2. \A d \in i'..(DomainCount - 1) : Domain(d)' = Domain(d)
  <2>1. CASE Aware
    <3>1. nodes' = [nodes EXCEPT ![i] = Emptied(@)]
      BY <2>1 DEF FreeDomain
    <3>2. \A d \in Node : d # i => nodes'[d] = nodes[d]
      BY <3>1, DomainsListed
    <3>3. i'..(DomainCount - 1) \subseteq Listed
      BY <1>0, <2>1, DomainsListed DEF Listed
    <3>. QED
      BY <1>0, <1>1, <2>1, <3>2, <3>3, DomainsListed DEF Domain
  <2>2. CASE ~Aware
    BY <1>0, <2>2, DomainsListed
  <2>. QED
    BY <2>1, <2>2
<1>3. /\ \A d, e \in i..(DomainCount - 1) : d # e => Domain(d).trueBase # Domain(e).trueBase
      /\ heap = {Domain(d).trueBase : d \in i..(DomainCount - 1)}
  BY <1>0 DEF FreeInv
<1>4. heap' = {Domain(d).trueBase : d \in i'..(DomainCount - 1)}
  BY <1>0, <1>1, <1>3
<1>5. {Domain(d)'.trueBase : d \in i'..(DomainCount - 1)}
        = {Domain(d).trueBase : d \in i'..(DomainCount - 1)}
  BY <1>2
<1>6. FreeInv'
  BY <1>0, <1>1, <1>2, <1>3, <1>4, <1>5 DEF FreeInv
<1>. QED
  BY <1>0, <1>6 DEF AllocateInv, DealInv, ExchangeInv, ThreadsInv, RegionsAreOwn, InUse

\* When the last entry has been freed nothing is allocated any more.
LEMMA FreeEndStep ==
  ASSUME NumaAllocation, DetectionInv, AreasInv, FreeEnd
  PROVE  AreasInv'
<1>. USE DEF AreasInv
<1>0. /\ pc = "free" /\ i = DomainCount /\ pc' = "done" /\ heap' = heap /\ threads' = threads
  BY DEF FreeEnd, Goto
<1>1. i..(DomainCount - 1) = {}
  BY <1>0, DomainsListed
<1>2. heap' = {}
  BY <1>0, <1>1 DEF FreeInv
<1>. QED
  BY <1>0, <1>2
     DEF AllocateInv, DealInv, ExchangeInv, ThreadsInv, FreeInv, RegionsAreOwn, InUse

\* Nothing is allocated while the nodes are detected.
LEMMA DetectStep ==
  ASSUME NumaAllocation, DetectionInv, AreasInv, DetectNode \/ DetectEnd
  PROVE  AreasInv'
<1>. USE DEF AreasInv
<1>0. /\ pc = "detect" /\ heap = {} /\ heap' = heap /\ threads = <<>> /\ threads' = <<>>
      /\ DOMAIN threads' = {}
      /\ pc' \in {"detect", "allocateSimple", "allocate", "returned"}
  BY DEF DetectNode, DetectEnd, Goto, Stay, DetectionInv, DetectInv, ThreadsInv
<1>1. pc' = "allocate" => i' = 0 /\ count' > 0 /\ count' \in Nat
  BY <1>0, DomainsListed DEF DetectNode, DetectEnd, Goto, Stay
<1>2. AllocateInv'
  <2>1. 0..(0 - 1) = {}
    OBVIOUS
  <2>2. CASE pc' = "allocate"
    BY <1>0, <1>1, <2>1, <2>2 DEF AllocateInv
  <2>3. CASE pc' # "allocate"
    BY <1>0, <2>3 DEF AllocateInv
  <2>. QED
    BY <2>2, <2>3
<1>. QED
  BY <1>0, <1>2 DEF DealInv, ExchangeInv, ThreadsInv, FreeInv, RegionsAreOwn, InUse

\* Every step keeps what is said of the areas.
LEMMA AreasStep ==
  ASSUME NumaAllocation, DetectionInv, AreasInv, [DomainsNext]_domainVars
  PROVE  AreasInv'
<1>1. CASE Ended \/ UNCHANGED domainVars
  <2>1. UNCHANGED domainVars
    BY <1>1 DEF Ended
  <2>. QED
    BY <2>1 DEF domainVars, AreasInv, AllocateInv, DealInv, ExchangeInv, ThreadsInv, FreeInv,
                RegionsAreOwn, InUse, Handed, Aware, Listed, DomainCount, Domain
<1>. QED
  BY <1>1, DetectStep, AllocateNodeStep, SwapPairStep, AllocateSimpleStep, CheckRatioStep,
     BuildThreadStep, RunStep, FreeDomainStep, FreeEndStep DEF DomainsNext

\* Where memory can be allocated on a node, the areas are dealt, used and freed as the
\* invariant says, whatever allocation fails.
THEOREM AreasInvariance == NumaAllocation /\ DomainsSpec => []AreasInv
<1>1. NumaAllocation /\ DetectionInv /\ AreasInv /\ [DomainsNext]_domainVars => AreasInv'
  BY AreasStep
<1>2. CASE NumaAllocation
  <2>1. DetectionInv /\ AreasInv /\ [DomainsNext]_domainVars => AreasInv'
    BY <1>1, <1>2
  <2>. QED
    BY <2>1, AreasInit, DetectionInvariance, PTL DEF DomainsSpec
<1>. QED
  BY <1>2

\* allocateNodesList and its exchange: with numa=local each node's threads work in the
\* node's own area; with numa=remote the chain of exchanges leaves no node with its own,
\* as soon as there are two; and never do two nodes share one.
THEOREM AreasAreDealt == DomainsSpec => []AreasMatchOption
<1>1. ASSUME NumaAllocation, DetectionInv, AreasInv PROVE AreasMatchOption
  <2>. SUFFICES ASSUME InUse, Aware PROVE AreasMatchOption
    BY DEF AreasMatchOption
  <2>1. \A d, e \in Listed : d # e => nodes[d].base # nodes[e].base
    BY <1>1 DEF AreasInv, DealInv, InUse
  <2>2. ASSUME NEW d \in Listed
        PROVE  IF numa = "local" THEN nodes[d].base = nodes[d].id
                                 ELSE count > 1 => nodes[d].base # nodes[d].id
    <3>1. CASE numa = "local"
      BY <1>1, <3>1 DEF AreasInv, ExchangeInv
    <3>2. CASE numa # "local"
      <4>1. Handed(d, count - 1)
        BY <1>1, <3>2 DEF AreasInv, ExchangeInv
      <4>2. \A e \in Listed : e # d => nodes[e].id # nodes[d].id
        BY <1>1 DEF DetectionInv, DetectedInv
      <4>3. count \in Nat /\ d \in Nat /\ d <= count - 1
        BY <1>1, DomainsListed DEF Listed
      <4>4. CASE d < count - 1
        <5>1. d + 1 \in Listed /\ d + 1 # d
          BY <4>3, <4>4 DEF Listed
        <5>. QED
          BY <3>2, <4>1, <4>2, <4>4, <5>1 DEF Handed
      <4>5. CASE d = count - 1 /\ count > 1
        <5>1. 0 \in Listed /\ 0 # d /\ ~(d < count - 1)
          BY <4>3, <4>5 DEF Listed
        <5>. QED
          BY <3>2, <4>1, <4>2, <4>5, <5>1 DEF Handed
      <4>. QED
        BY <3>2, <4>3, <4>4, <4>5
    <3>. QED
      BY <3>1, <3>2
  <2>. QED
    BY <2>1, <2>2 DEF AreasMatchOption, Listed
<1>2. CASE NumaAllocation
  <2>1. DetectionInv /\ AreasInv => AreasMatchOption
    BY <1>1, <1>2
  <2>2. DomainsSpec => []AreasInv
    BY <1>2, AreasInvariance
  <2>. QED
    BY <2>1, <2>2, DetectionInvariance, PTL
<1>3. CASE ~NumaAllocation
  <2>1. DetectionInv => AreasMatchOption
    BY <1>3 DEF AreasMatchOption
  <2>. QED
    BY <2>1, DetectionInvariance, PTL
<1>. QED
  BY <1>2, <1>3

\* buildThreadsList: the blocks of two threads never overlap, and each lies within the
\* memory that was allocated, as long as the threads may use it.
THEOREM RegionsAreDisjoint == NumaAllocation /\ DomainsSpec => []RegionsAreOwn
<1>1. AreasInv => RegionsAreOwn
  BY DEF AreasInv
<1>. QED
  BY <1>1, AreasInvariance, PTL

\* FreesExactly, with what keeps it: an entry that has no area yet, or none any more, records
\* none; and no error before the creation of the threads is reported by its status.
RecordInv ==
  /\ heap = Recorded
  /\ pc = "allocate" => \A d \in i..(count - 1) : nodes[d].trueBase = NoBlock
  /\ pc = "free" => \A d \in 0..(i - 1) : Domain(d).trueBase = NoBlock
  /\ pc \in {"detect", "allocate", "swap", "allocateSimple", "build"} => status = TRUE
  /\ (pc = "returned" /\ ~status) => \A d \in 0..(DomainCount - 1) : Domain(d).trueBase \in heap

\* The entries of the domains, by their option.
LEMMA RecordedIs ==
  ASSUME DetectionInv
  PROVE  /\ Aware => Recorded = {nodes[d].trueBase : d \in Listed} \ {NoBlock}
         /\ ~Aware => Recorded = {simple.trueBase} \ {NoBlock}
<1>1. CASE Aware
  <2>1. \A d \in Listed : Domain(d) = nodes[d]
    BY <1>1, DomainsListed
  <2>2. {Domain(d).trueBase : d \in Listed} = {nodes[d].trueBase : d \in Listed}
    BY <2>1
  <2>3. 0..(DomainCount - 1) = Listed
    BY <1>1, DomainsListed DEF Listed
  <2>. QED
    BY <1>1, <2>2, <2>3 DEF Recorded
<1>2. CASE ~Aware
  <2>1. 0..(1 - 1) = {0} /\ DomainCount = 1 /\ Domain(0) = simple
    BY <1>2, DomainsListed
  <2>. QED
    BY <1>2, <2>1 DEF Recorded
<1>. QED
  BY <1>1, <1>2

\* NoBlock names no area.
LEMMA NoBlockIsNone == NoBlock \notin Block
  BY DomainsAssumption DEF NoBlock, Block, Node, AnyNode

\* The detection lists nodes that have no area.
LEMMA RecordDetected ==
  ASSUME DetectionInv, RecordInv, DetectNode \/ DetectEnd PROVE RecordInv'
<1>1. /\ pc = "detect" /\ heap = {} /\ heap' = heap /\ status = TRUE /\ status' = status
      /\ simple' = simple /\ Aware' = Aware
  BY DEF DetectionInv, DetectInv, DetectNode, DetectEnd, RecordInv, Aware
<1>2. CASE DetectNode
  <2>1. /\ pc' = "detect" /\ count \in Node /\ count \in Nat
        /\ count' = IF i \in present THEN count + 1 ELSE count
    <3>1. pc' = "detect" /\ i < MaxNodes /\ count' = IF i \in present THEN count + 1 ELSE count
      BY <1>1, <1>2 DEF DetectNode, Stay
    <3>2. i \in Nat /\ count \in Nat /\ MaxNodes \in Nat
      BY DomainsListed, DomainsAssumption
    <3>3. count <= i
      BY <1>1, <3>1 DEF DetectionInv, DetectInv
    <3>. QED
      BY <3>1, <3>2, <3>3 DEF Node
  <2>2. /\ \A d \in Node : d # count => nodes'[d] = nodes[d]
        /\ nodes'[count].trueBase = NoBlock
    BY <1>2, <2>1, DomainsListed DEF DetectNode, Blank
  <2>3. ASSUME Aware, NEW d \in Listed' PROVE nodes'[d].trueBase = NoBlock
    <3>1. d \in Listed \/ d = count
      BY <2>1 DEF Listed
    <3>2. CASE d \in Listed /\ d # count
      <4>1. nodes[d].trueBase = NoBlock
        BY <1>1, <2>3, <3>2, RecordedIs DEF RecordInv
      <4>. QED
        BY <2>2, <3>2, <4>1, DomainsListed
    <3>. QED
      BY <2>2, <3>1, <3>2
  <2>4. Recorded' = {}
    <3>1. CASE Aware
      <4>1. \A d \in 0..(DomainCount' - 1) : d \in Listed' /\ Domain(d)' = nodes'[d]
        BY <1>1, <3>1 DEF Listed, DomainCount, Domain
      <4>2. \A d \in 0..(DomainCount' - 1) : Domain(d)'.trueBase = NoBlock
        BY <2>3, <3>1, <4>1
      <4>. QED
        BY <4>2 DEF Recorded
    <3>2. CASE ~Aware
      BY <1>1, <3>2 DEF RecordInv, Recorded, DomainCount, Domain
    <3>. QED
      BY <3>1, <3>2
  <2>. QED
    BY <1>1, <2>1, <2>4 DEF RecordInv
<1>3. CASE DetectEnd
  <2>1. UNCHANGED <<nodes, count, numa>> /\ i' = 0
    BY <1>3 DEF DetectEnd, Goto
  <2>2. Recorded' = Recorded
    BY <1>1, <2>1 DEF Recorded, DomainCount, Domain
  <2>3. ASSUME pc' = "allocate", NEW d \in 0..(count - 1) PROVE nodes[d].trueBase = NoBlock
    <3>1. Aware
      BY <1>3, <2>3 DEF DetectEnd, Goto
    <3>. QED
      BY <1>1, <2>3, <3>1, RecordedIs DEF RecordInv, Listed
  <2>4. pc' \in {"allocateSimple", "allocate", "returned"}
    BY <1>3 DEF DetectEnd, Goto
  <2>. QED
    BY <1>1, <2>1, <2>2, <2>3, <2>4 DEF RecordInv
<1>. QED
  BY <1>2, <1>3

\* A step that leaves the areas and the lists alone, and after which none of the places
\* begins that RecordInv has more to say of.
LEMMA RecordStays ==
  ASSUME RecordInv, UNCHANGED <<numa, nodes, count, simple, heap>>,
         pc' # "allocate", pc' = "free" => i' = 0,
         pc' \in {"detect", "swap", "allocateSimple", "build"} => status' = TRUE,
         (pc' = "returned" /\ ~status') =>
            \A d \in 0..(DomainCount - 1) : Domain(d).trueBase \in heap
  PROVE  RecordInv'
<1>1. Recorded' = Recorded /\ DomainCount' = DomainCount /\ \A d : Domain(d)' = Domain(d)
  BY DEF Recorded, DomainCount, Domain, Aware
<1>2. pc' = "free" => 0..(i' - 1) = {}
  OBVIOUS
<1>. QED
  BY <1>1, <1>2 DEF RecordInv

\* An allocation is recorded in the entry of its node, which had none.
LEMMA RecordAllocated ==
  ASSUME NumaAllocation, DetectionInv, AreasInv, RecordInv, AllocateNode PROVE RecordInv'
<1>0. /\ pc = "allocate" /\ Aware /\ UNCHANGED <<numa, count, simple, status>> /\ status = TRUE
      /\ Aware' = Aware /\ Listed' = Listed
  BY DEF AllocateNode, DetectionInv, OptionInv, RecordInv, Aware, Listed
<1>1. CASE i < count /\ heap' = heap \cup {nodes[i].id} /\ Stay
           /\ nodes' = [nodes EXCEPT ![i].base = nodes[i].id, ![i].trueBase = nodes[i].id]
  <2>1. i \in Listed /\ i \in Node /\ i \in Nat /\ count \in Nat /\ Listed \subseteq Node
        /\ nodes[i].id \in Node /\ nodes \in [Node -> Entry]
    BY <1>1, DomainsListed DEF Listed, Entry
  <2>2. /\ \A d \in Listed : d # i => nodes'[d] = nodes[d]
        /\ nodes'[i].trueBase = nodes[i].id
    BY <1>1, <2>1 DEF Entry
  <2>3. nodes[i].trueBase = NoBlock
    BY <1>0, <1>1, <2>1 DEF RecordInv
  <2>4. NoBlock # nodes[i].id
    BY <2>1 DEF NoBlock, Node
  <2>5. heap' = {nodes'[d].trueBase : d \in Listed} \ {NoBlock}
    <3>1. heap = {nodes[d].trueBase : d \in Listed} \ {NoBlock}
      BY <1>0, RecordedIs DEF RecordInv
    <3>. QED
      BY <1>1, <2>1, <2>2, <2>3, <2>4, <3>1
  <2>6. Recorded' = {nodes'[d].trueBase : d \in Listed} \ {NoBlock}
    <3>1. 0..(DomainCount' - 1) = Listed /\ \A d : Domain(d)' = nodes'[d]
      BY <1>0 DEF DomainCount, Domain, Listed
    <3>. QED
      BY <3>1 DEF Recorded
  <2>7. \A d \in i'..(count' - 1) : nodes'[d].trueBase = NoBlock
    <3>1. i' = i + 1 /\ pc' = pc
      BY <1>1 DEF Stay
    <3>2. \A d \in i'..(count' - 1) : d \in i..(count - 1) /\ d \in Listed /\ d # i
      BY <1>0, <2>1, <3>1 DEF Listed
    <3>. QED
      BY <1>0, <2>2, <3>2 DEF RecordInv
  <2>. QED
    BY <1>0, <1>1, <2>5, <2>6, <2>7 DEF RecordInv, Stay
<1>2. CASE pc' # "allocate" /\ UNCHANGED <<heap, nodes>>
  <2>1. pc' \in {"returned", "swap", "build"}
    BY <1>2, <1>0 DEF AllocateNode, Goto, Stay
  <2>. QED
    BY <1>0, <1>2, <2>1, RecordStays
<1>. QED
  BY <1>0, <1>1, <1>2 DEF AllocateNode, Goto

\* The exchange moves what is recorded from one entry to another.
LEMMA RecordExchanged ==
  ASSUME DetectionInv, RecordInv, SwapPair PROVE RecordInv'
<1>0. /\ pc = "swap" /\ Aware /\ UNCHANGED <<numa, count, simple, status, heap>> /\ status = TRUE
      /\ Aware' = Aware /\ Listed' = Listed
  BY DEF SwapPair, DetectionInv, OptionInv, RecordInv, Aware, Listed
<1>1. CASE i < count - 1
  <2>1. /\ i \in Listed /\ i + 1 \in Listed /\ i # i + 1 /\ nodes \in [Node -> Entry]
        /\ Listed \subseteq Node
    BY <1>1, DomainsListed DEF Listed
  <2>2. pc' = "swap"
    BY <1>1, SwapMoves
  <2>3. /\ nodes'[i].trueBase = nodes[i + 1].trueBase
        /\ nodes'[i + 1].trueBase = nodes[i].trueBase
        /\ \A d \in Listed : d # i /\ d # i + 1 => nodes'[d] = nodes[d]
    BY <1>1, SwapMoves
  <2>4. {nodes'[d].trueBase : d \in Listed} = {nodes[d].trueBase : d \in Listed}
    BY <2>1, <2>3
  <2>5. Recorded' = {nodes'[d].trueBase : d \in Listed} \ {NoBlock}
    <3>1. 0..(DomainCount' - 1) = Listed /\ \A d : Domain(d)' = nodes'[d]
      BY <1>0 DEF DomainCount, Domain, Listed
    <3>. QED
      BY <3>1 DEF Recorded
  <2>6. heap' = Recorded'
    BY <1>0, <2>4, <2>5, RecordedIs DEF RecordInv
  <2>. QED
    BY <1>0, <2>2, <2>6 DEF RecordInv
<1>2. CASE ~(i < count - 1)
  <2>1. pc' = "build" /\ nodes' = nodes
    BY <1>0, <1>2, DomainsListed DEF SwapPair, Goto
  <2>. QED
    BY <1>0, <2>1, RecordStays
<1>. QED
  BY <1>1, <1>2

\* The one area of a program that does not look at nodes.
LEMMA RecordSimple ==
  ASSUME DetectionInv, AreasInv, RecordInv, AllocateSimple PROVE RecordInv'
<1>0. /\ pc = "allocateSimple" /\ ~Aware /\ heap = {} /\ status = TRUE /\ Aware' = Aware
      /\ UNCHANGED <<numa, nodes, count, status>> /\ simple \in Entry
  BY DomainsListed DEF AllocateSimple, AreasInv, AllocateInv, DetectionInv, OptionInv,
                       RecordInv, Aware
<1>1. CASE pc' = "build" /\ heap' = heap \cup {AnyNode}
           /\ simple' = [simple EXCEPT !.base = AnyNode, !.trueBase = AnyNode]
  <2>1. simple'.trueBase = AnyNode /\ AnyNode # NoBlock
    BY <1>0, <1>1, DomainsAssumption DEF Entry, AnyNode, NoBlock
  <2>2. 0..(DomainCount' - 1) = {0} /\ Domain(0)' = simple'
    BY <1>0 DEF DomainCount, Domain
  <2>3. Recorded' = {AnyNode}
    BY <2>1, <2>2 DEF Recorded
  <2>. QED
    BY <1>0, <1>1, <2>3 DEF RecordInv
<1>2. CASE pc' = "returned" /\ UNCHANGED <<heap, simple>>
  BY <1>0, <1>2, RecordStays
<1>. QED
  BY <1>1, <1>2 DEF AllocateSimple, Goto

\* The list of the threads is made and used while every domain has its area.
LEMMA RecordUsed ==
  ASSUME DetectionInv, AreasInv, RecordInv, CheckRatio \/ BuildThread \/ RunThreads \/ FinishRun
  PROVE  RecordInv'
<1>1. /\ UNCHANGED <<numa, nodes, count, simple, heap>> /\ pc \in {"build", "threads", "running"}
      /\ pc' \in {"threads", "running", "free", "returned"} /\ (pc' = "free" => i' = 0)
  BY DEF CheckRatio, BuildThread, RunThreads, FinishRun, Stay, NextDomain, Goto
<1>2. \A d \in 0..(DomainCount - 1) : Domain(d).trueBase \in heap
  <2>1. CASE Aware
    BY <1>1, <2>1, DomainsListed DEF AreasInv, DealInv, Listed
  <2>2. CASE ~Aware
    BY <1>1, <2>2, DomainsListed DEF AreasInv, DealInv
  <2>. QED
    BY <2>1, <2>2
<1>. QED
  BY <1>1, <1>2, RecordStays

\* The release empties the entry whose area it frees; no other entry records the same.
LEMMA RecordReleased ==
  ASSUME DetectionInv, AreasInv, RecordInv, FreeDomain, DetectionInv', AreasInv' PROVE RecordInv'
<1>0. /\ pc = "free" /\ pc' = "free" /\ i < DomainCount /\ i' = i + 1 /\ i \in Nat
      /\ DomainCount \in Nat /\ DomainCount' = DomainCount /\ Aware' = Aware
      /\ UNCHANGED <<numa, count>>
  BY DomainsListed DEF FreeDomain, Stay, DomainCount, Aware
<1>1. \A d \in 0..(i' - 1) : Domain(d)'.trueBase = NoBlock
  <2>1. CASE Aware
    <3>1. nodes' = [nodes EXCEPT ![i] = Emptied(@)] /\ DomainCount = count
      BY <2>1, DomainsListed DEF FreeDomain
    <3>2. i \in Node /\ Listed \subseteq Node /\ nodes \in [Node -> Entry] /\ i \in Listed
      BY <1>0, <3>1, DomainsListed DEF Listed
    <3>3. nodes'[i].trueBase = NoBlock /\ \A d \in Node : d # i => nodes'[d] = nodes[d]
      BY <3>1, <3>2 DEF Emptied, Entry
    <3>4. \A d \in 0..(i - 1) : nodes[d].trueBase = NoBlock
      BY <1>0, <2>1 DEF RecordInv, Domain
    <3>5. \A d \in 0..(i' - 1) : d = i \/ (d \in 0..(i - 1) /\ d # i /\ d \in Listed)
      BY <1>0, <3>1 DEF Listed
    <3>6. \A d \in 0..(i' - 1) : nodes'[d].trueBase = NoBlock
      BY <3>2, <3>3, <3>4, <3>5
    <3>. QED
      BY <1>0, <2>1, <3>6 DEF Domain
  <2>2. CASE ~Aware
    BY <1>0, <2>2, DomainsListed DEF FreeDomain, Emptied, Domain, Entry
  <2>. QED
    BY <2>1, <2>2
<1>2. heap' = {Domain(d)'.trueBase : d \in i'..(DomainCount - 1)}
  BY <1>0 DEF AreasInv, FreeInv
<1>3. NoBlock \notin heap'
  <2>1. heap' \subseteq Block
    BY DEF DetectionInv, DomainsTypeOK
  <2>. QED
    BY <2>1, NoBlockIsNone
<1>4. 0..(DomainCount - 1) = (0..(i' - 1)) \cup (i'..(DomainCount - 1))
  BY <1>0
<1>5. heap' = Recorded'
  BY <1>0, <1>1, <1>2, <1>3, <1>4 DEF Recorded
<1>. QED
  BY <1>0, <1>1, <1>5 DEF RecordInv

\* Every step keeps the list true.
LEMMA RecordStep ==
  ASSUME NumaAllocation, DetectionInv, AreasInv, RecordInv, [DomainsNext]_domainVars,
         DetectionInv', AreasInv'
  PROVE  RecordInv'
<1>1. CASE FreeEnd
  BY <1>1, RecordStays DEF FreeEnd, Goto
<1>2. CASE Ended \/ UNCHANGED domainVars
  BY <1>2 DEF Ended, domainVars, RecordInv, Recorded, DomainCount, Domain, Aware
<1>. QED
  BY <1>1, <1>2, RecordDetected, RecordAllocated, RecordExchanged, RecordSimple, RecordUsed,
     RecordReleased DEF DomainsNext

\* freeNodesList: the list records exactly the allocated areas, whatever fails and however
\* they are exchanged; so each is freed once and none is left, and an error return leaves
\* allocated what the list still records.
THEOREM AreasAreFreed == NumaAllocation /\ DomainsSpec => []FreesExactly
<1>1. AreasInv /\ RecordInv => FreesExactly
  BY DEF AreasInv, FreeInv, RecordInv, FreesExactly
<1>2. DomainsInit => RecordInv
  <2>. SUFFICES ASSUME DomainsInit PROVE RecordInv
    OBVIOUS
  <2>1. DetectionInv
    BY DetectionInit
  <2>2. pc = "detect" /\ heap = {} /\ status = TRUE /\ simple.trueBase = NoBlock
        /\ \A d \in Listed : nodes[d].trueBase = NoBlock
    BY <2>1, DomainsListed DEF DomainsInit, Blank
  <2>3. Recorded = {}
    BY <2>1, <2>2, RecordedIs
  <2>. QED
    BY <2>2, <2>3 DEF RecordInv
<1>3. CASE NumaAllocation
  <2>1. DetectionInv /\ AreasInv /\ RecordInv /\ [DomainsNext]_domainVars
          /\ DetectionInv' /\ AreasInv' => RecordInv'
    BY <1>3, RecordStep
  <2>2. DomainsSpec => []AreasInv
    BY <1>3, AreasInvariance
  <2>. QED
    BY <1>1, <1>2, <2>1, <2>2, DetectionInvariance, PTL DEF DomainsSpec
<1>. QED
  BY <1>3

=============================================================================
