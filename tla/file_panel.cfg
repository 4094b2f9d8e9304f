SPECIFICATION FairSpec
CONSTANTS
  Scripts = 2
  Countdown = 2
  MaxFaults = 2
  MaxClicks = 1
  Dirs <- MCDirs
  Files <- MCFiles
  MaxSends = 6
INVARIANTS FilePanelTypeOK NeverStuck PanelAwayOnlyWhenOpen OneAttemptPerLoss NothingOfClosedSessions  TargetsExist
PROPERTY ConnectsAgain
CHECK_DEADLOCK FALSE
