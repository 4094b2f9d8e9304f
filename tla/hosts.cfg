SPECIFICATION BoundedSpec
CONSTANTS
  WebClients = {c1}
  Hosts = {h1, h2}
  Machines = {m1}
  NoHost = NoHost
  READ_BLOCK_HIGH = 1
  READ_BLOCK_LOW = 1
  MaxReads = 2
  MaxTerminals = 2
  MaxQueue = 1
  Commands = {"DELETE_TERMINAL", "RESIZE_TERMINAL", "ON_TERMINAL_WRITE"}
SYMMETRY MCSymmetry
INVARIANTS TerminalHostsTypeOK 
CHECK_DEADLOCK FALSE
