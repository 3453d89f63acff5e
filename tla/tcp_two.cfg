SPECIFICATION Spec
CONSTANTS
  c1 = c1
  c2 = c2
  Clients <- TwoClients
  Lines <- OneAndOne
  Stops <- FirstIsStop
  StopCuts <- NoCuts
  ZeroApart = {c1}
  Backlog = 1
  MaxTries = 2
  BadLimit = 1
  TailMayDiffer = TRUE
  MayDie = TRUE
  TextPieces <- CutAndShort
  BufPieces = 3
  FdSetSize = 64
  MaxRecords = 3
CHECK_DEADLOCK FALSE
INVARIANTS TypeOK IInv NamesSenderOrLater WedgedForAReason
PROPERTIES StopIsFinal ImplementsLog
