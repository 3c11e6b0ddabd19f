SPECIFICATION FairSpec
CONSTANTS
  Exporters = {"e1", "e2"}
  Validators = {"v1"}
  Scenarios <- AllScenarios
  TagOrder <- Types
  DefaultCap = 2
  None = None
INVARIANTS
  TypeOK
  ExportOkIsComplete
  ValidatesExport
  PassMeansExported
  KeysCountedOnce
  ErrorsNameTheirCause
PROPERTIES
  Terminates
