SPECIFICATION DomainsSpec
CONSTANTS
  MaxNodes = 3
  ThreadCounts = {1, 2, 3, 4}
  NumaOptions = {"local"}
  NumaAllocation = TRUE
  MayFail = FALSE
INVARIANTS ThreadsPerDomain
