SPECIFICATION Spec
CONSTANTS
  Files <- MCFiles
  Names <- MCNames
  Values <- MCValues
  ChunkSizes = {1, 2}
  DefaultMax = 2
  MaxDb = 3
  MidKey = TRUE
  None = None
  MaxSections = 3
  Sections <- AttributeSections
  Headers <- NativeHeader
  Checksums = {"good"}
  Damaged = FALSE
INVARIANTS
  TypeOK
  ChunkInSync
  OpcodesOnly
  CrcInSync
  AttributesBelongToKey
  EntriesHoldTheirElements
PROPERTIES
  ReaderImplementsKeyStream
