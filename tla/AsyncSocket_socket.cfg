CONSTANTS
  MaxCalls = 3
SPECIFICATION SocketSpec
INVARIANTS
  AnswersOwned
  EndReported
PROPERTIES
  CloseIsSilent
  CallsEnd
