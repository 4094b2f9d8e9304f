SPECIFICATION Spec
CONSTANTS
  MaxBlocks = 2
  MaxRequests = 1
  MaxRestarts = 0
  MaxBreaks = 0
  FilesChange = FALSE
INVARIANT BlocksFindTheirSession
CHECK_DEADLOCK FALSE
