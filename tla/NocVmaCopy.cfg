\* A process with a mapping forks, or unmaps part of it.
SPECIFICATION Spec
CONSTANTS
  Files = {f1, f2}
  Count2M = 2
  Count128G = 1
  Identity = identity
  UserTargets = {identity, tensix}
  TelemetryTargets = {arc}
  FirmwareTarget = fw
  IntMax = 2
  MaxVmas = 2
  Env = {"vma_copy"}
INVARIANTS
  NoUnderflow
