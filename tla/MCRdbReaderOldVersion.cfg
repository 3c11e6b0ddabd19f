SPECIFICATION Spec
CONSTANTS
  Files <- MCFiles
  Names <- MCNames
  Values <- MCValues
  ChunkSizes = {1, 2}
  DefaultMax = 2
  MaxDb = 3
  MidKey = FALSE
  None = None
  MaxSections = 3
  Sections <- OldSections
  Headers <- OldHeaders
  Checksums = {"absent", "good"}
  Damaged = FALSE
INVARIANTS
  AcceptedVersionReadsThrough
