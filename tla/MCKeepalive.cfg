\* Ages in full detail: the inverter's passive timeout in force, or not.
SPECIFICATION Spec
CONSTANTS
  AgeCap = 4
  KeepaliveMin = 1
  KeepaliveMax = 3
  Uninitialised = 9
  Tolerance = 1
  ChargeFloor = 1
  SocFull = 95
  FailStreak = 1
  BootAges <- MCBootAges
  MaxSlip = 1
  Grids <- MCGridsNight
  Batteries = {}
  SeqMod = 3
  Charges = {}
  AutoLimits = {}
  AutoDefault = 1
  PowerCap = 1
  Tunings = {}
  TunDefault <- MCTunDefaultKeep
  DeltaMin = 1
  DeltaMax = 3
  LapseMin = 3
  LapseMax = 3
  Timeouts = {2, 9}
  Leftovers <- MCLeftovers
PROPERTIES
  KeepaliveHolds
  LoopOutlivesTimeout
