SPECIFICATION Spec
CONSTANTS
  WebClients = {c1}
  Hosts = {h1}
  Machines = {m1}
  NoHost = NoHost
  PageRequests = {"OnTerminalAddReq", "OnTerminalResizeReq", "OnTerminalDelReq", "OnTerminalKeyEvent"}
  MaxRequests = 2
  READ_BLOCK_HIGH = 1
  READ_BLOCK_LOW = 1
  MaxReads = 1
PROPERTY ImplementsService
CHECK_DEADLOCK FALSE
