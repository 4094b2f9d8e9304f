SPECIFICATION BoundedSpec
CONSTANTS
  WebClients = {c1}
  Hosts = {h1}
  Machines = {m1}
  NoHost = NoHost
  READ_BLOCK_HIGH = 1
  READ_BLOCK_LOW = 1
  MaxReads = 2
  MaxTerminals = 2
  MaxQueue = 1
  Commands = {"DELETE_TERMINAL"}
INVARIANT SurvivesDisconnect
CHECK_DEADLOCK FALSE
