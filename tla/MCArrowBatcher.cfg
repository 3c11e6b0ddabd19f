SPECIFICATION FairSpec
CONSTANTS
  Inputs <- AllInputs
  GroupNames = {"string", "hll", "empty", "list", "chunked", "set", "zset",
                "geo", "geopart", "hash", "module", "stream", "deleted",
                "unknown", "huge", "ints", "blank"}
  LongNames = {"string", "empty", "list", "chunked", "zset", "geo", "geopart",
               "hash", "stream", "huge"}
  MaxGroups = 3
  batch_size = 3
  batch_bytes = 54
  max_entry_bytes = 45
  heuristics = {"geo"}
  Faults = TRUE
  None = NoLimit
INVARIANTS
  TypeOK
  RowsConserved
  ColumnsAgree
  BelowThresholds
  KeysReassemble
  GeoIsWhole
PROPERTY
  IterationEnds
