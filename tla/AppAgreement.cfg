CONSTANTS
  Nodes = {0, 1, 2}
  Proposers = {0}
  Initiator = 0
  Values = {1}
  PAXOS_ROUND_MAX_SLOTS = 6
  N_TX_COMPLETE = 1
  CHAOS_RESTART_MIN = 1
  CHAOS_RESTART_MAX = 2
  FAILURES_RATE = FALSE
  MAX_ROUNDS = 2
SPECIFICATION AppSpec
INVARIANT InstanceAgreement
CHECK_DEADLOCK FALSE
