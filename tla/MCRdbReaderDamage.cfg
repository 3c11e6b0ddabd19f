SPECIFICATION FairSpec
CONSTANTS
  Files <- MCFiles
  Names <- MCNames
  Values <- MCValues
  ChunkSizes = {1, 2}
  DefaultMax = 2
  MaxDb = 3
  MidKey = FALSE
  None = None
  MaxSections = 2
  Sections <- DamageSections
  Headers <- AllHeaders
  Checksums = {"good", "bad", "zero"}
  Damaged = TRUE
INVARIANTS
  SuccessMeansWhole
  CrcVerdict
  UndamagedReadsThrough
PROPERTIES
  IterationTerminates
