SPECIFICATION FairSpec
CONSTANTS
  Intents = {i1, i2}
  Owners = {o1}
  NoIntent = NoIntent
  NoOwner = NoOwner
  MaxEvents = 4
  MaxRefusals = 1
  MaxDepth = 1
  MaxFaults = 1
  NestedIds = FALSE
  Captures <- Both
PROPERTIES
  RunningEnds
  TrackedClaimEnds
