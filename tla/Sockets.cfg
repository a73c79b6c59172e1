SPECIFICATION Spec
CONSTANTS
  Tasks = {1, 2}
  First = {1, 2}
  Servers = {1}
  Limits <- FewSockets
  Fds = {0, 1}
  Ports = {0, 7}
  Addrs <- OneAddress
  Cap = 1
  UdpSlots = 1
  MaxRetries = 2
  Departures = {}
INVARIANT SocketsAreExact
CHECK_DEADLOCK FALSE
