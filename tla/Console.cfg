\* Rings of three slots hold two characters; up to three keys and three
\* characters pass on a steady chip, so the rings fill and wrap.
SPECIFICATION FairSpec
CONSTANTS
  BUFFER_SIZE = 3
  Keys = {"ctrl-a", "x", "k"}
  Chars = {"c", "d"}
  Garbage <- MCGarbage
  None = none
  Setups <- MCSetups
INVARIANTS
  TypeOK
  TerminalRestored
PROPERTIES
  UartInFifo
  UartOutFifo
  OutputPrinted
  ExitKeyWorks
  LoopComesRound
  Reattaches
CHECK_DEADLOCK FALSE
