SPECIFICATION FairSpec
CONSTANTS
  Argv <- OneDriver
  MaxRs = 2
  Conns = {1}
  Failures = {"driverDies"}
  MaxMishaps = 2
  ClientMsgs = 2
  DriverMsgs <- Nothing
  Fds <- FdNumbers
PROPERTIES
  ClientsServiced
CHECK_DEADLOCK FALSE
