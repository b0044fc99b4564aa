SPECIFICATION Spec
CONSTANTS
  Argv <- TwoDrivers
  MaxRs = 1
  Conns = {1}
  Failures <- Mishaps
  MaxMishaps = 2
  ClientMsgs = 3
  DriverMsgs <- FirstOnce
  Fds <- FdNumbers
INVARIANTS
  NoDescriptorLost
  EveryDriverHeard
  NoGaps
CHECK_DEADLOCK FALSE
