CONSTANTS
  Nodes = {0, 1, 2}
  Initiator = 0
  Values = {1, 2}
  Proposal = 1
  N_TX_COMPLETE = 1
  CHAOS_RESTART_MIN = 0
  CHAOS_RESTART_MAX = 2
  MAX_FAILURES = 0
SPECIFICATION FairSpec
PROPERTIES AllDecide
CHECK_DEADLOCK FALSE
