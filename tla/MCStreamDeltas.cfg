SPECIFICATION Spec
CONSTANTS
  Inputs <- NegativeStreams
  LZF_MAX_RATIO = 1024
  MAX_INTSET_ELEMENTS = 3
  MaxU64 = 6
  DamageBytes = {}
  None = None
INVARIANT
  DeltasAccepted
