\* The link comes up after the host has filled the ring.
SPECIFICATION FairSpec
CONSTANTS
  N = 3
  Budget = 1
  RxPackets = {r}
  TxPackets = {t}
  Oversize = {}
  NoPacket = none
  Setups <- LateSetups
PROPERTIES
  RxUnderTraffic
