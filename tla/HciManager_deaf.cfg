SPECIFICATION Spec
CONSTANTS
  a1 = a1
  a2 = a2
  Adapters = {a1, a2}
  NbInitRetry = 2
  NbRefreshRetry = 2
  MaxFaults = 3
PROPERTIES
  DeafIsRefreshed
CHECK_DEADLOCK FALSE
