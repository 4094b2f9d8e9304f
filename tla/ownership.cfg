SPECIFICATION Spec
CONSTANTS
  WebClients = {c1, c2}
  Hosts = {h1}
  Machines = {m1}
  NoHost = NoHost
  PageRequests = {"OnTerminalAddReq", "OnTerminalResizeReq", "OnTerminalDelReq", "OnTerminalKeyEvent"}
  MaxRequests = 2
  READ_BLOCK_HIGH = 1
  READ_BLOCK_LOW = 0
  MaxReads = 0
SYMMETRY MCSymmetry
INVARIANTS TypeOK PagesSeeOwnTerminals RoutesAgree NoForgottenTerminal
CHECK_DEADLOCK FALSE
