SPECIFICATION Spec
CONSTANTS
  a = a
  b = b
  None = None
  AnyHost = AnyHost
  OwnHost = OwnHost
  Clients = {a, b}
  Ports = {1}
  PortOf <- OnePort
  HostOf <- Addresses
  Lines <- TwoOneLines
  StopLines <- LastIsStop
  QueueLen = 1
  AckLimit = 2
  Slots = 3
  MaxEvents = 1
  MaxCopies = 1
  FailingPorts = {1}
  EchoPorts = {1}
INVARIANTS RecordNamesSender IInv
CHECK_DEADLOCK FALSE
