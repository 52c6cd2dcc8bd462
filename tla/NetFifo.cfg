\* Contents and order: two packets per direction, one direction at a time.
SPECIFICATION Spec
CONSTANTS
  N = 4
  Budget = 2
  RxPackets = {r1, r2}
  TxPackets = {t1, t2, big}
  Oversize = {big}
  NoPacket = none
  Setups <- FifoSetups
INVARIANTS
  TypeOK
PROPERTIES
  RxFifo
  TxFifo
