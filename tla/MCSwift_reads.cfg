SPECIFICATION FairRecSpec
CONSTANTS
  N = 2
  KnownAtRecovery = 2
  Nil = Nil
  None = None
  c1 = c1
  c2 = c2
  Commands <- MCCommands
  Reads <- MCReads
  Proxied <- MCProxied
  Ballots <- MCBallots2
INVARIANTS HeldAlike
PROPERTIES RecoveryEnds EveryCommandExecutes
CHECK_DEADLOCK FALSE
