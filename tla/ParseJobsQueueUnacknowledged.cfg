CONSTANTS
  Jobs = {j1, j2}
  Docs = {d1, d2}
  Workers = {w1}
  NoJob = NoJob
  NoDoc = NoDoc
  Refused = {}
  Unacknowledged = {"queue"}
  Crashes = {}
SPECIFICATION Spec

INVARIANTS RejectedNotQueued
