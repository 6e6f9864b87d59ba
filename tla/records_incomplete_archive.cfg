SPECIFICATION Spec
CONSTANTS
  Intents = {i1, i2}
  NoIntent = NoIntent
  Names = {n1, n2}
  NoName = NoName
  Spellings <- MCSpellings
  NoPath = NoPath
  Contents = {c1, c2}
  NoContent = NoContent
  Paths <- MCPaths
  NormalForm <- MCNormalForm
  Above <- MCAbove
  Scopes <- MCScopes
SYMMETRY Symmetry
CHECK_DEADLOCK FALSE
INVARIANT
  ArchiveHoldsEveryArtifact
