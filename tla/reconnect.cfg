SPECIFICATION Spec
CONSTANTS
  WebClients = {c1}
  Hosts = {h1, h2}
  Machines = {m1}
  NoHost = NoHost
  PageRequests = {"OnTerminalAddReq"}
  MaxRequests = 1
  READ_BLOCK_HIGH = 1
  READ_BLOCK_LOW = 0
  MaxReads = 0
SYMMETRY MCSymmetry
INVARIANTS HostListsCurrent NoStaleRemoteHost
PROPERTIES ImplementsAnyServer NewsOfListedHosts
CHECK_DEADLOCK FALSE
