SPECIFICATION LiveSpec
CONSTANTS
  Printers = {"p1", "p2"}
  Colours = {"black"}
  Values = {"v", "w"}
  NoValue = "none"
  Serial <- MCSerial
  Hits = 2
  Passes = 2
  Cooldown = 1
  MissTtl = 1
  FoundTtl = 1
  ConfigTtl = 1
  MaxFaults = 1
INVARIANT
  OneJobEach
PROPERTIES
  LearnedWasStable
  Found
