SPECIFICATION Spec
CONSTANTS
  None = None
  Keys = {k1, k2}
  MaxLevel = 4
  RefillJump = 2
  Bounce = 1
  NoiseDrop = 2
  NoisePages = 1
  MinPages = 1
  QuantPages = 2
  MinPartial = 2
  MinZero = 1
  FreezePages = 3
  OverrunPages = 1
  Rated = 4
  MinYield = 2
  MaxYield = 12
  BandLow = 2
  BandHigh = 10
  EmptyPages = 1
  ManualPages = 2
  DirtyDrop = 2
  DefaultCap = 5
  AlignTol = 0
  AlignRise = 0
  AlignPages = 1
  ReleasePages = 1
  ReleaseDrop = 2
  ThawDrop = 2
  ThawPages = 1
  MinRelease = 2
  Reasons <- MCReasons
  Limits <- MCLimits
  MaxCtr = 6
  MaxFaults = 2
INVARIANTS
  SampleIsOneCartridge
  
PROPERTY
  CyclesDisjoint
  SampleDropIsReal
  
CHECK_DEADLOCK FALSE
