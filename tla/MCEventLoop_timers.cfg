SPECIFICATION FairSpec
CONSTANTS
  f1 = f1
  Fds = {f1}
  Delays = {1, 3}
  PreLoopTgo <- NoTgo
  Interrupts = TRUE
  Calls <- TimerCalls
  MaxCalls = 2
  MaxSlots = 1
  MaxTimers = 4
  MaxTime = 7
  Sub = 2
  PerSecond = 2
  Epoch = 1
  IntHalf = 100
  CBSize = 16
  TFSize = 16
INVARIANTS
  TimersSorted
  PendingListed
PROPERTIES
  NoSoonerByTwo
  ImplementsTimerService
  TimersRun
CHECK_DEADLOCK FALSE
