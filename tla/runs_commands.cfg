SPECIFICATION Spec
CONSTANTS
  Runs = {r1, r2}
  NoRun = NoRun
  MaxEvents = 4
  MaxDepth = 2
  MaxFaults = 0
INVARIANT CommandsAreRecorded
