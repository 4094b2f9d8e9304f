SPECIFICATION FairSpec
CONSTANTS
  MaxBlocks = 2
  MaxRequests = 2
  MaxRestarts = 1
  MaxBreaks = 1
  FilesChange = TRUE
INVARIANTS FileTransferTypeOK RightData ResponseInOrder SessionUntilLastBlock 
PROPERTY SmallTransferAnswered
CHECK_DEADLOCK FALSE
