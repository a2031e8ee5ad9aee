SPECIFICATION EspSpec
CONSTANTS
  Proxies = {"p1", "p2"}
  MayRaise = TRUE
  MaxEspFaults = 4
CHECK_DEADLOCK FALSE
INVARIANTS
  NoOrphan
  Covered
  EspStopAtRest
PROPERTIES
  Recovers
