CONSTANTS
  Nodes = {0, 1, 2}
  Initiator = 0
  Uint16 = 8
  CHAOS_INTERVAL = 5
  WAKEUP = 1
  BOOT_MARGIN = 2
  RTIMER_MIN_DELAY = 1
  ROUND_TIME = 1
  POST_PROCESSING = 2
  MAX_DELAY = 5
  CHAOS_FAILED_ROUNDS_RESYNC_THRESHOLD = 2
  JOIN_ROUNDS_AFTER_BOOTUP = 0
SPECIFICATION Spec
INVARIANTS TypeOK MissIsTrue InStep
PROPERTIES Recovers
CHECK_DEADLOCK FALSE
