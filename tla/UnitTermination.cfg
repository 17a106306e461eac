SPECIFICATION Spec
CONSTANTS
  Names <- MCNames
  Types <- MCTypes
  NoName = NoName
  NoType = NoType
  Declarations <- MCDeclarations
  Statements <- MCStatements
  Concurrents <- MCConcurrents
  Units <- TerminationUnits
  Files <- TerminationFiles
  Loaded <- MCLoaded
  INTEGER = "INTEGER"
INVARIANTS
  TypeOK
PROPERTIES
  Terminates
