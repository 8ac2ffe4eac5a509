CONSTANTS
  Replicas = {0, 1, 2, 3, 4}
  QMembers = {0, 1, 2, 3, 4}
  QSize = 4
  c1 = c1
  c2 = c2
  Commands = {c1, c2}
  NoCommand = NoCommand
  INST_NUM = 1
  MaxBallot = 1
SPECIFICATION Spec
SYMMETRY CommandSymmetry
CONSTRAINT OnlyTwoHear
INVARIANTS CommitHasFastQuorum
CHECK_DEADLOCK FALSE
