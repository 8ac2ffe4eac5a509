CONSTANTS
  Replicas = {0, 1}
  QMembers = {0, 1}
  QSize = 2
  c1 = c1
  c2 = c2
  Commands = {c1, c2}
  NoCommand = NoCommand
  INST_NUM = 2
  MaxBallot = 2
SPECIFICATION FairSpec
INVARIANTS TypeOK NoDuplicateCommit MembersExecuteAlike
PROPERTIES ImplementsConsensus EveryCommandExecutes
CHECK_DEADLOCK FALSE
