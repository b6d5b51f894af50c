\* The one charging power that the EEPROM cannot hold.
SPECIFICATION Spec
CONSTANTS
  AgeCap = 1
  KeepaliveMin = 1
  KeepaliveMax = 1
  Uninitialised = 9
  Tolerance = 1
  ChargeFloor = 1
  SocFull = 95
  FailStreak = 2
  BootAges = {0}
  MaxSlip = 0
  Grids <- MCGrids
  Batteries <- MCBatteries
  SeqMod = 3
  Charges <- MCChargeUnwritten
  AutoLimits = {2}
  AutoDefault = 2
  PowerCap = 2
  Tunings <- MCTunings
  TunDefault <- MCTunDefault
  DeltaMin = 1
  DeltaMax = 3
  LapseMin = 1
  LapseMax = 1
  Timeouts = {9}
  Leftovers <- MCLeftovers
INVARIANTS
  ResumesIntent
