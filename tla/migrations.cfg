SPECIFICATION FairSpec
CONSTANTS
  ivanov = ivanov
  petrov = petrov
  Nobody = Nobody
  Names <- MCNames
  Ivanov = ivanov
  Known <- MCKnown
  LastOrder = 4
  LastId = 3
  Seeded = 2
  SeedExecutor <- MCSeedExecutor
INVARIANTS
  TypeOK
  ExecutorsCarriedOver
  ServesSoundTables
PROPERTIES
  StartGoesThrough
