SPECIFICATION FairSpec
CONSTANTS
  a = a
  b = b
  Calls <- TwoCalls
  MaxInFlight = 1
  Refused <- OnlyB
  Unencodable <- OnlyB
  Cancels <- OnlyB
  Sasl = TRUE
  Exchange = 2
  MaxRounds = 1
  Breaks = TRUE
INVARIANTS
  RightAnswer
  NobodyLeftWaiting
  PermitsConserved
  ReauthUninterrupted
PROPERTIES
  CallsEnd
