SPECIFICATION FairSpec
CONSTANTS
  a = a
  b = b
  None = None
  AnyHost = AnyHost
  OwnHost = OwnHost
  Clients = {a}
  Ports = {1}
  PortOf <- OnePort
  HostOf <- Addresses
  Lines <- TwoLines
  StopLines <- NoStop
  QueueLen = 2
  AckLimit = 2
  Slots = 3
  MaxEvents = 1
  MaxCopies = 1
  FailingPorts = {1}
  EchoPorts = {}
PROPERTY ClientsLeave
CHECK_DEADLOCK FALSE
