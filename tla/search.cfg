CONSTANTS
  a = a
  b = b
  spanish = spanish
  sales = sales
  abroad = abroad
  channel = channel
  Protected = {spanish, sales, abroad}
  Compounds = {abroad}
  Screening = {channel}
  Candidates = {a, b}
  Cards <- TheCards
  Requests <- TheRequests
  Wordings <- TheWordings
  Target = 2
  AttemptsPerCard = 2
  MinAttempts = 3
  ScrollLimit = 2
  NoProgressLimit = 3
  OverlayLimit = 3
  SameStateLimit = 2
  MaxRecoveries = 1
SPECIFICATION FairSpec
INVARIANTS
  WithinRequest
  EachCandidateOnce
  AccountedFor
  TargetAndReason
PROPERTIES
  SearchAdvances
  FetchEnds
CHECK_DEADLOCK FALSE
