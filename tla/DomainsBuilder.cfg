SPECIFICATION DomainsSpec
CONSTANTS
  MaxNodes = 3
  ThreadCounts = {1, 2, 3, 4}
  NumaOptions = {"unaware", "local", "remote"}
  NumaAllocation = TRUE
  MayFail = TRUE
INVARIANTS NodesAreDetected AreasMatchOption RegionsAreOwn FreesExactly
