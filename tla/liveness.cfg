SPECIFICATION FairSpec
CONSTANTS
  WebClients = {c1}
  Hosts = {h1}
  Machines = {m1}
  NoHost = NoHost
  PageRequests = {"OnTerminalAddReq", "OnTerminalDelReq"}
  MaxRequests = 2
  READ_BLOCK_HIGH = 1
  READ_BLOCK_LOW = 0
  MaxReads = 0
PROPERTIES RequestAnswered HostLossPropagates ClosedPageReleasesTerminals
CHECK_DEADLOCK FALSE
