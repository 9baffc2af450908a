\* Either kind of printer; the ladder in ticks; three pages of a Toshiba; a delta of two or
\* more may be an overflow.
SPECIFICATION LiveReadingSpec
CONSTANTS
  None = None
  Brand <- MCBrand
  Upper1 = 1
  Upper2 = 2
  Upper3 = 3
  Delay1 = 0
  Delay2 = 1
  Delay3 = 2
  Cooldown = 3
  MaxQuiet = 4
  Skew = 2
  PaperTol = 1
  RetryAbove = 1
  Limits <- MCLimits
  MaxPages = 3
INVARIANTS
  ReadingTypeOK
  NoForeignPages
  NoSizeInvented
PROPERTIES
  QuietSplitIsExact
  BackoffRespected
  WholeSnapshot
  Forgiven
