CONSTANTS
  Jobs = {j1, j2}
  Docs = {d1, d2}
  Workers = {w1, w2}
  NoJob = NoJob
  NoDoc = NoDoc
  Refused = {"storage", "db", "queue"}
  Unacknowledged = {"storage", "db", "queue"}
  Crashes = {"api", "worker"}
SPECIFICATION Spec
SYMMETRY Symmetry
INVARIANTS TypeOK SingleHolder OneDocumentPerJob LinkedToOwnDocument NoOrphanObjects
PROPERTIES ForgottenOnlyByFaults
