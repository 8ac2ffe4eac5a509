CONSTANTS
  r1 = r1
  r2 = r2
  c1 = c1
  c2 = c2
  k1 = k1
  Replicas = {r1, r2}
  Leader = r1
  Commands = {c1, c2}
  Key <- SameKey
  NoCommand = NoCommand
  Proxy <- WitnessAnswers
  Correct = {r1, r2}
  LastSlot = 1
SPECIFICATION ClientFairSpec
INVARIANTS FastConflictIsCommitted WitnessIsExclusive AnsweredIsSafe
PROPERTIES ImplementsConsensus EveryCommandCompletes
CHECK_DEADLOCK FALSE
