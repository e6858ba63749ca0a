CONSTANTS
  Jobs = {j1}
  Docs = {d1}
  NoJob = NoJob
  NoDoc = NoDoc
  Deletions = {r1, r2}
  Readers = {g1}
  Refused = {"storage", "db"}
  Unacknowledged = {"db"}
  Crashes = {"api"}
SPECIFICATION Spec
SYMMETRY Symmetry
CHECK_DEADLOCK FALSE
INVARIANTS TypeOK LossIsReported OnlyRollbacksLeaveObjects
PROPERTIES ReadsFailOnlyBesideDeletes
