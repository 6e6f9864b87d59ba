SPECIFICATION Spec
CONSTANTS
  Intents = {i1, i2}
  Owners = {o1}
  NoIntent = NoIntent
  NoOwner = NoOwner
  MaxEvents = 7
  MaxRefusals = 1
  MaxDepth = 2
  MaxFaults = 1
  NestedIds = FALSE
  Captures <- Plain
SYMMETRY Symmetry
INVARIANTS
  AtMostOneInvocation
  NoForeignOwner
  RowsWereRecorded
