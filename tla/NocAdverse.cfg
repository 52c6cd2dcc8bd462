\* Early opens, forks and late sensor reads at once.
SPECIFICATION Spec
CONSTANTS
  Files = {f1, f2}
  Count2M = 2
  Count128G = 0
  Identity = identity
  UserTargets = {tensix}
  TelemetryTargets = {arc}
  FirmwareTarget = fw
  IntMax = 2
  MaxVmas = 2
  Env = {"early_open", "vma_copy", "late_read"}
INVARIANTS
  ExclusiveOwnership
  OwnedIsAllocated
CHECK_DEADLOCK FALSE
SYMMETRY FileSymmetry
