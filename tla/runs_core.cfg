SPECIFICATION Spec
CONSTANTS
  Runs = {r1, r2}
  NoRun = NoRun
  MaxEvents = 5
  MaxDepth = 2
  MaxFaults = 1
SYMMETRY Symmetry
INVARIANTS TypeOK UnmentionedRunsAreLegal WokenOnce ProjectionIsState
PROPERTY HonestReport
