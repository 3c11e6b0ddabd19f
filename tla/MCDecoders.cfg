SPECIFICATION FairSpec
CONSTANTS
  Inputs <- AllInputs
  LZF_MAX_RATIO = 1024
  MAX_INTSET_ELEMENTS = 3
  MaxU64 = 6
  DamageBytes = {0, 1, 127, 130, 193, 240, 254, 255}
  None = None
INVARIANTS
  TypeOK
  RoundTrip
  AcceptedIsEncoding
  StreamRecordsExact
PROPERTY
  DecodingEnds
