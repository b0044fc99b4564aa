CONSTANTS
  Devices = {camera, scope, guider, hub}
  Held <- MCHeld
  Kind <- MCKind
  Members = 2
  Data = {0, 1}
  Initial = 0
  Leavers <- MCLeavers
  Lists <- MCLists
  Implemented = {camera, guider}
  Reacts <- MCReacts
  Capacity = 3
  Calm = 2
  camera = camera  scope = scope  hub = hub
  guider = guider  lights = lights  position = position
SPECIFICATION Spec
INVARIANTS
  SeenOrOwed
  NeverBlocked
PROPERTIES
  EveryObserverTold
