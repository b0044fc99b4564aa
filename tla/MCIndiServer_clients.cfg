SPECIFICATION FairSpec
CONSTANTS
  Argv <- OneDriver
  MaxRs = 0
  Conns = {1, 2}
  Failures <- ClientFailures
  MaxMishaps = 2
  ClientMsgs = 1
  DriverMsgs <- Once
  Fds <- FdNumbers
INVARIANTS
  ClientsSeeAll
PROPERTIES
  ClosedForCause
  ClientsServiced
CHECK_DEADLOCK FALSE
