SPECIFICATION Spec
CONSTANTS
  Argvs <- AllArgvs
  Ephemeral = 50000
  IntSize = 1048576
INVARIANTS ServesWhatIsAsked NothingElseServed TakenIsBound TalksToGivenPort IInv
CHECK_DEADLOCK FALSE
