CONSTANTS
  Nodes = {1, 2, 3}
  Initiator = 2
  Values = {1, 2}
  Proposal = 1
  Proposals = {0, 1}
  NODE_LIST_LEN = 1
  MAX_NODE_COUNT = 3
  N_TX_COMPLETE = 1
  CHAOS_RESTART_MIN = 0
  CHAOS_RESTART_MAX = 2
  MAX_FAILURES = 1
SPECIFICATION Spec
INVARIANTS
  TypeOK Atomic2PC OffAfterAll2PC VotedDecisionStands3PC NoFail3PC
  RefusalIsFinal3PC VoteIsOfAllNodes TimeoutIsIncomplete MaxIsExactAtNodes
  IndexIsUnique TableIsTrue CompleteIsReal NobodyForgotten
PROPERTIES CommitsAtomically
CHECK_DEADLOCK FALSE
