CONSTANTS
  N = 3
  c1 = c1
  c2 = c2
  c3 = c3
  Commands = {c1, c2}
  Nil = Nil
  Noop = Noop
  NoInstance = NoInstance
  NoLB = NoLB
  ClientCommands <- LeaderClients
  InitialLeaders = {0}
  Candidates = {}
  Mortal = {0}
  Absent = {}
  MaxInstance = 1
  MaxBallot = 0
  MaxOpen = 1
  MaxTimeouts = 0
SPECIFICATION Spec
SYMMETRY CommandSymmetry
INVARIANTS TypeOK ExecutedIsHeld OneBatchPerBallot AnsweredIsExecuted ExecutedOnce
PROPERTIES ImplementsConsensus
CHECK_DEADLOCK FALSE
