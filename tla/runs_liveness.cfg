SPECIFICATION FairSpec
CONSTANTS
  Runs = {r1, r2}
  NoRun = NoRun
  MaxEvents = 4
  MaxDepth = 1
  MaxFaults = 1
PROPERTY RunIsCarriedThrough
