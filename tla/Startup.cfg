SPECIFICATION StartSpec
CONSTANTS
  Topologies <- Machines
  Garbage <- Rubbish
  MaxChanges = 1
  TopologyFailures = {"query", "malloc"}
  CommandLines <- Lines
  Processors <- Chips
  LargePages <- PageSizes
  PassTimes <- Times
  MaximumThreads = 8
  MaxWaitObjects = 4
  ThreadModulus = 16
  IntModulus = 4096
INVARIANTS ParseIsExact MethodsAreExact PlanIsLegal  BuffersSafe SummaryIsTrue
PROPERTIES StartEnds
