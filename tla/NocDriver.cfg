\* Two files, three 2M windows and one 128G window.
SPECIFICATION Spec
CONSTANTS
  Files = {f1, f2}
  Count2M = 3
  Count128G = 1
  Identity = identity
  UserTargets = {identity, tensix}
  TelemetryTargets = {arc}
  FirmwareTarget = fw
  IntMax = 2
  MaxVmas = 2
  Env = {"remap_fail"}
INVARIANTS
  TypeOK
  DriverWindowDedicated
  FirmwareUntouched
  ReservedIsFirmware
  AllocatedIffHeld
  FreeWindowsIdentity
  MappedImpliesOwned
  NoUnderflow
  StatsAddUp
PROPERTIES
  PoolSpec
