SPECIFICATION Spec
CONSTANTS
  Exporters = {"e1", "e2"}
  Validators = {"v1"}
  Scenarios <- ChunkScenarios
  TagOrder <- Types
  DefaultCap = 2
  None = None
INVARIANTS
  CompleteExportValidates
