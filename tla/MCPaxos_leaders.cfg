CONSTANTS
  N = 2
  c1 = c1
  c2 = c2
  c3 = c3
  Commands = {c1, c2, c3}
  Nil = Nil
  Noop = Noop
  NoInstance = NoInstance
  NoLB = NoLB
  ClientCommands <- ThreeClients
  InitialLeaders = {0}
  Candidates = {1}
  Mortal = {}
  Absent = {}
  MaxInstance = 0
  MaxBallot = 3
  MaxOpen = 2
  MaxTimeouts = 1
SPECIFICATION Spec
SYMMETRY PairSymmetry
INVARIANTS BallotsOwned NeitherLostNorDoubled
CHECK_DEADLOCK FALSE
