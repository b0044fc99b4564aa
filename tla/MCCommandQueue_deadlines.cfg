SPECIFICATION FairSpec
CONSTANTS
  simple = simple
  other = other
  macro = macro
  silent = silent
  Commands = {simple, other, macro, silent}
  Macro = {macro}
  Steps <- AllSteps
  OnResponse <- Anything
  OnTimeout <- Anything
INVARIANTS
  DeadlineUnlessRetried
  AssertHolds
PROPERTIES
  FirstComeFirstServed
  EveryCommandSent
CHECK_DEADLOCK FALSE
