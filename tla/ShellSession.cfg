SPECIFICATION ShellSpec
CONSTANTS
  MaxSessions = 2
  DeleteTries = 2
  DelaySets = {{}, {"press"}, {"alive", "close"}, {"lock"}}
  SpareCounts = {5}
INVARIANTS OneChild OpenKeepsFiles ExitLeavesSpare
PROPERTIES SessionReturns
