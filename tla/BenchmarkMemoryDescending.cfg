SPECIFICATION BenchSpec
CONSTANTS
  N = 2
  Jobs <- BenchmarkJobs
  Benchmarks <- Descending
  MaxWaitObjects = 64
  Failures = {}
  MaxRounds = 20
INVARIANTS WorkInsideBlock
