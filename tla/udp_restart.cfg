SPECIFICATION SpecR
CONSTANTS
  a = a
  b = b
  None = None
  AnyHost = AnyHost
  OwnHost = OwnHost
  Clients = {a}
  Ports = {1}
  PortOf <- OnePort
  HostOf <- Addresses
  Lines <- TwoLines
  StopLines <- LastIsStop
  QueueLen = 1
  AckLimit = 2
  Slots = 3
  MaxEvents = 1
  MaxCopies = 1
  MaxRestarts = 2
  FailingPorts = {1}
  EchoPorts = {1}
INVARIANTS LossOnlyByRestart StopHonouredR RInv
PROPERTY ImplementsTransferR
CHECK_DEADLOCK FALSE
