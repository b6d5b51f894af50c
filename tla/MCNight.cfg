\* A zero target that is lost when the idle lapse ends the retries.
SPECIFICATION FairSpec
CONSTANTS
  AgeCap = 1
  KeepaliveMin = 1
  KeepaliveMax = 1
  Uninitialised = 9
  Tolerance = 1
  ChargeFloor = 1
  SocFull = 95
  FailStreak = 1
  BootAges = {0}
  MaxSlip = 0
  Grids <- MCGridsNight
  Batteries <- MCBatteries
  SeqMod = 3
  Charges = {}
  AutoLimits = {}
  AutoDefault = 1
  PowerCap = 1
  Tunings = {}
  TunDefault <- MCTunDefaultLive
  DeltaMin = 1
  DeltaMax = 3
  LapseMin = 1
  LapseMax = 1
  Timeouts = {9}
  Leftovers <- MCLeftovers
PROPERTIES
  NightStopsCharging
