SPECIFICATION FairSpec
CONSTANTS
  N = 3
  c1 = c1
  c2 = c2
  c3 = c3
  k1 = k1
  Commands = {c1, c2}
  Reads = {c2}
  Key <- SameKey
  ClientCommands <- TwoClients
  Noop = Noop
  Nil = Nil
  PreferredPeerOrder <- InOrder
  Leaders = {}
  Mortal = {0, 1, 2}
  Patient = TRUE
  MaxBatch = 1
  MaxInstance = 0
  Recoverable <- ByEach
  MaxRecoveries = 2
CHECK_DEADLOCK FALSE
INVARIANTS TypeOK Agreement ConflictsAreOrdered ExecutedAlike
PROPERTIES ImplementsCommit ClientsAreAnswered
