SPECIFICATION Spec
CONSTANTS
  NRestarts = 3
  RestartInterval = 3
  RestartDelay = 1
  MaxFakes = 0
  Signalled <- FirstFlag
  Puttable <- LastFlag
INVARIANT PausedServerHasGateway
CHECK_DEADLOCK FALSE
