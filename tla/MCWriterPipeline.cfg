SPECIFICATION FairSpec
CONSTANTS
  TagOrder <- Order
  Inputs <- AllInputs
  MaxResults = 4
  Failure = Failure
  Faults = {"create", "open", "write", "close"}
INVARIANTS
  TypeOK
  FirstErrorReported
  EveryWriterFinalized
  OkMeansComplete
PROPERTIES
  NothingAfterError
  Terminates
  OutputSpec
