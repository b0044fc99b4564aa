SPECIFICATION Spec
CONSTANTS
  d1 = d1
  d2 = d2
  n = n
  t = t
  r = r
  b = b
  m1 = m1
  m2 = m2
  Junk = Junk
  Freed = Freed
  Missing = Missing
  Elsewhere = Elsewhere
  Unknown = Unknown
  Nothing = Nothing
  Devices = {d1, d2}
  Implemented = {d1}
  Vectors = {n, t, r, b}
  Writable = {n, t, b}
  MayWait = {n}
  Min = 0
  Max = 1
  DeviceOf <- MCDeviceOf
  Kind <- MCKind
  Members <- MCMembers
  Values <- MCValues
  Settings <- MCSettings
  Rounded <- MCRounded
  Asked <- MCAsked
INVARIANTS
  ClientsKnow
PROPERTIES
  AllOrNothing
  RequestsAnswered
  DefinitionsComplete
CHECK_DEADLOCK FALSE
