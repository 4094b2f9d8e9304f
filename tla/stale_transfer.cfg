SPECIFICATION Spec
CONSTANTS
  MaxBlocks = 1
  MaxRequests = 2
  MaxRestarts = 1
  MaxBreaks = 0
  FilesChange = FALSE
INVARIANT FileRequestsAccepted
CHECK_DEADLOCK FALSE
