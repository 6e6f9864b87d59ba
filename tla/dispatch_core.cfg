SPECIFICATION Spec
CONSTANTS
  Intents = {i1, i2}
  Owners = {o1, o2}
  NoIntent = NoIntent
  NoOwner = NoOwner
  MaxEvents = 5
  MaxRefusals = 1
  MaxDepth = 1
  MaxFaults = 1
  NestedIds = FALSE
  Captures <- Both
SYMMETRY Symmetry
INVARIANTS
  TypeOK
  LegalIntentHistory
  OutcomeHasArtifact
  LiveEqualsRebuilt
  AuditAccusesOnlyLostWrites
  ExclusiveClaims
PROPERTY
  ImplementsLifecycle
