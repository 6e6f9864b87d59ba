SPECIFICATION Spec
CONSTANTS
  Intents = {i1, i2}
  Owners = {o1}
  NoIntent = NoIntent
  NoOwner = NoOwner
  MaxEvents = 6
  MaxRefusals = 1
  MaxDepth = 1
  MaxFaults = 1
  NestedIds = TRUE
  Captures <- Plain
INVARIANT
  AtMostOneInvocation
