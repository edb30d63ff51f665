SPECIFICATION FairSpec
CONSTANTS
  NRestarts = 3
  RestartInterval = 3
  RestartDelay = 1
  MaxFakes = 1
  Signalled <- FirstFlag
  Puttable <- LastFlag
INVARIANTS
  TypeOK
  OneGateway
  RestartsLimited
  RestartsPaced
  ServerTakesGateway
PROPERTIES
  StopEndsBoth
  DeathIsAnswered
CHECK_DEADLOCK FALSE
