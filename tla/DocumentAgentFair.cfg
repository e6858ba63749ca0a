CONSTANTS
  Jobs = {j1, j2}
  Docs = {d1, d2}
  NoJob = NoJob
  NoDoc = NoDoc
  Workers = {w1, w2}
  Deletions = {r1}
  Readers = {}
  Refused = {"storage"}
  Unacknowledged = {}
  Crashes = {}
SPECIFICATION AgentFairSpec
INVARIANTS LinkedToOwnDocument LossIsReported NoLostJob
PROPERTIES EveryJobEnds ImplementsFairLifecycle
