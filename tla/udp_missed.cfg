SPECIFICATION Spec
CONSTANTS
  a = a
  b = b
  None = None
  AnyHost = AnyHost
  OwnHost = OwnHost
  Clients = {a}
  Ports = {1}
  PortOf <- OnePort
  HostOf <- Addresses
  Lines <- ThreeLines
  StopLines <- LastIsStop
  QueueLen = 2
  AckLimit = 2
  Slots = 3
  MaxEvents = 1
  MaxCopies = 1
  FailingPorts = {}
  EchoPorts = {}
INVARIANT MissedAreResent
CHECK_DEADLOCK FALSE
