\* Polling, with the divisor of the code and a counter that wraps soon.
SPECIFICATION PollSpec
CONSTANTS
  Grids <- MCGrids
  Batteries <- MCBatteries
  SeqMod = 4
  SlowDiv = 6
INVARIANTS
  PollTypeOK
  DerivesFromOneCycle
  SlowTierDue
PROPERTIES
  ImplementsLink
  SlowTierServed
