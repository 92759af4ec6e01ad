\* The recurrent state after a reset.
SPECIFICATION WorkerSpec
CONSTANTS
  MaxSessions = 2
  MaxPos = 2
  MaxTries = 2
  None = None
CHECK_DEADLOCK FALSE
INVARIANT RecurrentStateOfSession
