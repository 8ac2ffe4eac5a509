CONSTANTS
  r1 = r1
  r2 = r2
  c1 = c1
  c2 = c2
  Replicas = {r1, r2}
  Leader = r1
  Commands = {c1, c2}
  NoCommand = NoCommand
  Proxy <- LeaderAnswers
  Mortal = {r1}
  LastSlot = 1
SPECIFICATION FairSpec
INVARIANTS TypeOK DeliveredIsHeld ExecutedOnce
PROPERTIES ImplementsConsensus EveryCommandExecutes
CHECK_DEADLOCK FALSE
