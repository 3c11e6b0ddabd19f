SPECIFICATION Spec
CONSTANTS
  Payloads <- AllPayloads
  MAX_ALLOC_BYTES = 20000
  LZF_MAX_RATIO = 1024
  MAX_MODULE_VALUES = 2
  MAX_MODULE_STRING_BYTES = 5
  MAX_STREAM_ENTRIES = 2
  MAX_INTSET_ELEMENTS = 3
  MaxU64 = 1073741824
  DamageBytes = {0, 1, 129, 192, 195, 255}
  None = None
INVARIANTS
  TypeOK
  ReadsExactly
  VirtualTypesRecognised
