SPECIFICATION FairSpec
CONSTANTS
  f1 = f1
  f2 = f2
  Fds = {f1, f2}
  Delays = {1}
  PreLoopTgo <- NoTgo
  Interrupts = FALSE
  Calls <- DispatchCalls
  MaxCalls = 2
  MaxSlots = 2
  MaxTimers = 1
  MaxTime = 2
  Sub = 1
  PerSecond = 2
  Epoch = 1
  IntHalf = 100
  CBSize = 16
  TFSize = 16
INVARIANTS
  CountsAgree
  NeverSpins
PROPERTIES
  TakeTurns
CHECK_DEADLOCK FALSE
