SPECIFICATION FairSpec
CONSTANTS
  Hosts = {h1, h2}
  NoHost = NoHost
  ButtonLimit = 2
  MaxClicks = 3
  MaxSessions = 2
  MaxQueue = 1
INVARIANTS WebPageTypeOK ButtonsInOrder CurrentHostListed ActiveIsSelected
  
CHECK_DEADLOCK FALSE
