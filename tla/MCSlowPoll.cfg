\* The slow tier on link recovery.
SPECIFICATION PollSpec
CONSTANTS
  Grids <- MCGrids
  Batteries <- MCBatteries
  SeqMod = 4
  SlowDiv = 6
PROPERTIES
  SlowPollOnRecovery
