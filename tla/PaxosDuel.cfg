CONSTANTS
  Nodes = {0, 1, 2}
  Proposers = {1, 2}
  Initiator = 0
  Values = {1, 2}
  PAXOS_ROUND_MAX_SLOTS = 7
  N_TX_COMPLETE = 1
  CHAOS_RESTART_MIN = 1
  CHAOS_RESTART_MAX = 2
  FAILURES_RATE = TRUE
SPECIFICATION Spec
INVARIANTS
  SafetyInv OneValuePerBallot CompletionIsReal LearnedIsChosen
  MajorityIsReal LosersWait
PROPERTY PromisesAreKept
CHECK_DEADLOCK FALSE
