SPECIFICATION ServerFairSpec
CONSTANTS
  a = a
  b = b
  None = None
  AnyHost = AnyHost
  OwnHost = OwnHost
  Clients = {a, b}
  Ports = {1, 2}
  PortOf <- TwoPorts
  HostOf <- Addresses
  Lines <- OneLine
  StopLines <- FirstOfA
  QueueLen = 1
  AckLimit = 2
  Slots = 3
  MaxEvents = 2
  MaxCopies = 1
  FailingPorts = {1, 2}
  EchoPorts = {}
INVARIANTS StopHonoured RecordsFromPort WrongAddressRepeats SInv
PROPERTY StopEndsServer
CHECK_DEADLOCK FALSE
