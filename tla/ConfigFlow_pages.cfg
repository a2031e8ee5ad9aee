\* A phone application and a remote without a count, heard by two adapters.
CONSTANTS
  Adapters = {"a1", "a2"}
  Conf = {"app", "remote", "lamp", "large"}
  Presses <- MCPresses
  PhoneApps <- MCPhoneApps
  MatchOf <- MCMatchOf
  Repeated = {"remote"}
  TooLarge = {"large"}
  Configured = {"lamp"}
  Sets = {"s1", "s2"}
  MaxWait = 1
  Agg = 2
SPECIFICATION Spec
CHECK_DEADLOCK FALSE
INVARIANTS
  NothingMissed
  EntitiesReviewed
  FinishedIsUsable
PROPERTIES
  OnlyTheEndChanges
  PagesEnd
