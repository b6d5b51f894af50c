\* Progress under fairness; small, because liveness is checked on every path.
SPECIFICATION FairSpec
CONSTANTS
  AgeCap = 1
  KeepaliveMin = 1
  KeepaliveMax = 1
  Uninitialised = 9
  Tolerance = 1
  ChargeFloor = 1
  SocFull = 95
  FailStreak = 1
  BootAges = {0}
  MaxSlip = 0
  Grids <- MCGridsImport
  Batteries <- MCBatteries
  SeqMod = 3
  Charges = {}
  AutoLimits = {1}
  AutoDefault = 1
  PowerCap = 1
  Tunings = {}
  TunDefault <- MCTunDefaultLive
  DeltaMin = 1
  DeltaMax = 3
  LapseMin = 1
  LapseMax = 1
  Timeouts = {9}
  Leftovers <- MCLeftovers
PROPERTIES
  StaticModeConverges
  ProbeResolves
