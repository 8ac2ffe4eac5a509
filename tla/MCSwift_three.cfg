SPECIFICATION RecSpec
CONSTANTS
  N = 3
  KnownAtRecovery = 1
  Nil = Nil
  None = None
  c1 = c1
  c2 = c2
  Commands <- MCCommands
  Reads <- MCNone
  Proxied <- MCNone
  Ballots <- MCBallots
INVARIANTS RecTypeOK HashesConverge AnswerIsHeld
CHECK_DEADLOCK FALSE
SYMMETRY MCSymmetry
