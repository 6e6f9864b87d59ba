SPECIFICATION Spec
CONSTANTS
  s1 = s1
  s2 = s2
  Subjects = {s1, s2}
  KindOf <- MCKindOf
  Presentations <- MCPresentations
  Policies <- MCPolicies
  CallerTypes = {"implement"}
  CallerReasons <- MCCallerReasons
  DispatchIds = {"d1"}
  Targets = {"shell", "browser", " "}
  Modes = {"dry_run"}
  Blank = " "
  CapabilitySets <- MCCapabilitySets
  MaxPresented = 2
  MaxDecisions = 1
  MaxRecords = 2
  MaxSelections = 1
  MaxRequests = 1
INVARIANTS
  TypeOK
  WorkIsExplained
  RequestsAreCovered
