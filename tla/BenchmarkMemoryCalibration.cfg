SPECIFICATION BenchSpec
CONSTANTS
  N = 2
  Jobs <- BenchmarkJobs
  Benchmarks <- LatencyAuto
  MaxWaitObjects = 64
  Failures = {"timeout"}
  MaxRounds = 20
INVARIANTS SignalsAreNew
