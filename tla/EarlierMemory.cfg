SPECIFICATION EarlierSpec
CONSTANTS
  N = 2
  Jobs <- BenchmarkJobs
  Benchmarks <- EarlierSettings
  MaxWaitObjects = 64
  Failures = {"allocate", "create", "resume", "reset", "set", "wait", "timeout", "close"}
  MaxRounds = 20
INVARIANTS CutsNoWork NothingRunsInFreed
PROPERTIES EarlierEnds EarlierRounds
