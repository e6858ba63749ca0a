CONSTANTS
  Docs = {d1, d2}
  Refused = {"storage", "db"}
  Unacknowledged = {"db"}
SPECIFICATION Spec
SYMMETRY Symmetry
CHECK_DEADLOCK FALSE
INVARIANTS RowsReadable LeftoversKnown
