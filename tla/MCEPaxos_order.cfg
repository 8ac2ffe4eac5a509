SPECIFICATION Spec
CONSTANTS
  N = 3
  c1 = c1
  c2 = c2
  c3 = c3
  k1 = k1
  Commands = {c1, c2, c3}
  Reads = {}
  Key <- SameKey
  ClientCommands <- PairAndOne
  Noop = Noop
  Nil = Nil
  PreferredPeerOrder <- InOrder
  Leaders = {}
  Mortal = {}
  MaxBatch = 1
  Patient = TRUE
  MaxInstance = 1
  Recoverable <- NoRecovery
  MaxRecoveries = 0
INVARIANTS ExecutedAlike
CHECK_DEADLOCK FALSE
