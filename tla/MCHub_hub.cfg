CONSTANTS
  Receivers = {1, 2, 3}
  Periods = {4}
  Default = 4
  Late = 1
  Peripherals = {1, 2}
  Uses <- MCUses
  MaxAir = 1
  Plugins = {1, 2, 3}
  Nobody = Nobody
SPECIFICATION HubSpec
INVARIANTS
  SendsAllowed
PROPERTIES
  InTurn
  PeriodKept
  HeardRight
