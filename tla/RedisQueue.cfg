CONSTANTS
  Pushes = {a1, a2}
  Polls = {b1}
  NoItem = NoItem
  WithPassword = TRUE
  WithDatabase = TRUE
  PollTimeout = 1
  Grace = 2
  Lag = 1
  Faults = {"refuse", "lose", "silence", "error"}
SPECIFICATION FairSpec
INVARIANTS TypeOK NothingLostWhileHealthy
PROPERTIES ImplementsQueueService DequeueEnds PushEndsUnlessSilent
CHECK_DEADLOCK FALSE
