CONSTANTS
  N = 3
  c1 = c1
  c2 = c2
  c3 = c3
  Commands = {c1, c2, c3}
  Nil = Nil
  Noop = Noop
  NoInstance = NoInstance
  NoLB = NoLB
  ClientCommands <- NoClients
  LeaderId = 0
  MaxCommandId = 2
  CommandOf <- InTurn
  InitialLeaders = {0}
  Candidates = {}
  Mortal = {}
  Absent = {2}
  MaxInstance = 2
  MaxBallot = 0
  MaxOpen = 2
  MaxTimeouts = 0
SPECIFICATION DelayedSpec
INVARIANTS ProposalsInOrder
PROPERTIES DelayedCommandsExecute
CHECK_DEADLOCK FALSE
