SPECIFICATION FairSpec
CONSTANTS
  Terminals = {t1, t2}
  READ_BLOCK_HIGH = 1
  READ_BLOCK_LOW = 1
  MaxReads = 3
  MaxBreaks = 1
INVARIANTS FlowControlTypeOK 
PROPERTY BlockedReadsResume
CHECK_DEADLOCK FALSE
