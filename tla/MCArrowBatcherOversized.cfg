SPECIFICATION Spec
CONSTANTS
  Inputs <- AllInputs
  GroupNames = {"list", "chunked"}
  LongNames = {}
  MaxGroups = 0
  batch_size = 2
  batch_bytes = NoLimit
  max_entry_bytes = 3
  heuristics = {}
  Faults = FALSE
  None = NoLimit
INVARIANT
  OversizedKeysSkipped
