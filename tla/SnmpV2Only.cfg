SPECIFICATION LiveSpec
CONSTANTS
  Threads = {t1, t2}
  None = None
  Requests = 4
  PosTtl = 2
  NegTtl = 1
  MaxFaults = 3
PROPERTY
  AnyVersionIsFound
