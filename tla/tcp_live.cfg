SPECIFICATION FairSpec
CONSTANTS
  c1 = c1
  c2 = c2
  Clients <- TwoClients
  Lines <- TwoAndOne
  Stops <- SecondIsStop
  StopCuts <- FrontOfLong
  ZeroApart = {c2}
  Backlog = 1
  MaxTries = 1
  BadLimit = 1
  TailMayDiffer = FALSE
  MayDie = TRUE
  TextPieces <- ShortAndLong
  BufPieces = 3
  FdSetSize = 2
  MaxRecords = 6
CHECK_DEADLOCK FALSE
INVARIANTS InOrderOnce AcksCountRecords EndsAtStop
PROPERTIES ImplementsLog ServerGoneAllLeave 
