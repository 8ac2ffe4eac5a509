CONSTANTS
  N = 3
  c1 = c1
  c2 = c2
  c3 = c3
  Commands = {c1, c2}
  Nil = Nil
  Noop = Noop
  NoInstance = NoInstance
  NoLB = NoLB
  ClientCommands <- TwoClients
  InitialLeaders = {0}
  Candidates = {1}
  Mortal = {}
  Absent = {}
  MaxInstance = 0
  MaxBallot = 1
  MaxOpen = 1
  MaxTimeouts = 0
SPECIFICATION Spec
INVARIANTS Agreement
CHECK_DEADLOCK FALSE
