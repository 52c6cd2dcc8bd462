\* Progress: packets are alike, the interrupt and the polling driver.
SPECIFICATION FairSpec
CONSTANTS
  N = 2
  Budget = 1
  RxPackets = {r}
  TxPackets = {t}
  Oversize = {}
  NoPacket = none
  Setups <- ProgressSetups
PROPERTIES
  RxProgress
  TxResumes
