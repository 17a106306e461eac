SPECIFICATION Spec
CONSTANTS
  Names <- MCNames
  Types <- MCTypes
  NoName = NoName
  NoType = NoType
  Declarations <- MCDeclarations
  Statements <- MCStatements
  Concurrents <- MCConcurrents
  Units <- GenerationUnits
  Files <- GenerationFiles
  Loaded <- MCLoaded
  INTEGER = "INTEGER"
INVARIANTS
  ChainIsCallStack
  ReferencesReach
  PartsAreInstantiated
  BodiesAreWhole
  ThreadsAreThoseThatWait
  ReturnsAreTyped
  ConcurrentIsSensitive
PROPERTIES
  ImplementsScopes
