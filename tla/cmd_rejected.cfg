SPECIFICATION Spec
CONSTANTS
  Argvs <- AllArgvs
  Ephemeral = 50000
  IntSize = 1048576
INVARIANT RejectedNotServed
CHECK_DEADLOCK FALSE
