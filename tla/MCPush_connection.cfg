SPECIFICATION FairSpec
CONSTANTS
  Heartbeat = 2
  MaxBackoff = 4
  MaxSetup = 2
  Delay = 1
  MaxFaults = 2
  MaxTurns = 2
INVARIANTS TypeOK ShutdownBounded
PROPERTIES RejectionBacksOff LivePeerKept ShutdownCompletes EventuallyStreaming
CHECK_DEADLOCK FALSE
