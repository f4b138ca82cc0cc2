SPECIFICATION ShellSpec
CONSTANTS
  MaxSessions = 2
  DeleteTries = 2
  DelaySets = {{}}
  SpareCounts = {5}
INVARIANTS StopReachesChild
