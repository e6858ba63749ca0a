CONSTANTS
  Jobs = {j1, j2}
  Docs = {d1, d2}
  Workers = {w1, w2}
  NoJob = NoJob
  NoDoc = NoDoc
  Refused = {"storage", "queue"}
  Unacknowledged = {"storage"}
  Crashes = {"api", "worker"}
SPECIFICATION Spec
SYMMETRY Symmetry
INVARIANTS LinkedOnlyWhenSucceeded RejectedNotQueued RowsBackedByObjects
PROPERTIES ImplementsLifecycle
