CONSTANTS
  Nodes = {0, 1, 2}
  Proposers = {0}
  Initiator = 0
  Values = {1, 2}
  PAXOS_ROUND_MAX_SLOTS = 8
  N_TX_COMPLETE = 1
  CHAOS_RESTART_MIN = 1
  CHAOS_RESTART_MAX = 2
  FAILURES_RATE = FALSE
SPECIFICATION Spec
INVARIANTS TypeOK PromiseQuorum CompletionIsReal
PROPERTY ImplementsConsensus
CHECK_DEADLOCK FALSE
