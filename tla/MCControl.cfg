\* Control logic with the inverter's passive timeout disabled.
SPECIFICATION Spec
CONSTANTS
  AgeCap = 1
  KeepaliveMin = 1
  KeepaliveMax = 1
  Uninitialised = 9
  Tolerance = 1
  ChargeFloor = 1
  SocFull = 95
  FailStreak = 2
  BootAges = {0}
  MaxSlip = 0
  Grids <- MCGrids
  Batteries = {}
  SeqMod = 3
  Charges <- MCCharges
  AutoLimits = {1}
  AutoDefault = 2
  PowerCap = 2
  Tunings <- MCTunings
  TunDefault <- MCTunDefault
  DeltaMin = 1
  DeltaMax = 3
  LapseMin = 1
  LapseMax = 1
  Timeouts = {9}
  Leftovers <- MCLeftovers
INVARIANTS
  TypeOK
  CacheCoherent
  SaverMatchesMode
  ResumesIntent
  OneWritePerChange
  SamplesCountOnce
  NativeWindowHeld
PROPERTIES
  LoopTracksTarget
  ImplementsContract
