CONSTANTS
  Requests <- MCRequests
  ApiSettings <- MCApiSettings
  WorkerSettings <- MCWorkerSettings
SPECIFICATION FairSpec
CHECK_DEADLOCK FALSE
INVARIANTS TypeOK TypesAgree AcceptedHasParser
PROPERTIES JobEnds
