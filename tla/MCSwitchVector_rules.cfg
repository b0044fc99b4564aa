SPECIFICATION Spec
CONSTANTS
  a = a
  b = b
  c = c
  NoSwitch = NoSwitch
  Order <- ABC
  FileErrors = {}
  TurnsOff = {"AtMostOne", "AnyOfMany"}
INVARIANTS
  RuleHolds
  ClientsKnow
CHECK_DEADLOCK FALSE
