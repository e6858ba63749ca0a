CONSTANTS
  Jobs = {j1}
  Docs = {d1}
  NoJob = NoJob
  NoDoc = NoDoc
  Deletions = {r1, r2}
  Readers = {}
  Refused = {"db"}
  Unacknowledged = {}
  Crashes = {}
SPECIFICATION Spec
SYMMETRY Symmetry
CHECK_DEADLOCK FALSE
INVARIANTS DeletedLeavesNothing
