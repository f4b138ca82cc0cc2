SPECIFICATION PoolSpec
CONSTANTS
  N = 3
  Jobs = {"j1", "j2"}
  MaxWaitObjects = 64
  Failures = {"create", "resume", "reset", "set", "wait", "timeout", "close"}
  MaxRounds = 3
INVARIANTS RoundComplete SignalsAreNew NoLostContinue NoEntryRace
PROPERTIES ImplementsRounds
