CONSTANTS
  Nodes = {0, 1, 2}
  Initiator = 0
  Leaders = {0}
  MULTIPAXOS_PKT_SIZE = 2
  MULTIPAXOS_LOG_SIZE = 3
  Uint8 = 256
  Uint16 = 65536
  N_TX_COMPLETE = 1
  CHAOS_RESTART_MIN = 0
  CHAOS_RESTART_MAX = 1
  MAX_FAILURES = 0
  MAX_ROUNDS = 3
SPECIFICATION Spec
INVARIANTS TypeOK LearnedIsChosen MajorityIsReal LogIsOwnVotes
PROPERTIES ImplementsLog
CHECK_DEADLOCK FALSE
