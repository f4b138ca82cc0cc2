SPECIFICATION BenchSpec
CONSTANTS
  N = 2
  Jobs <- BenchmarkJobs
  Benchmarks <- Sessions
  MaxWaitObjects = 64
  Failures = {"allocate", "create", "resume", "reset", "set", "wait", "timeout", "close"}
  MaxRounds = 20
INVARIANTS RowsAreMeasured WalkFollowsBuild WorkInsideBlock MemoryOutlivesWork
PROPERTIES SessionEnds PoolUsedLegally
