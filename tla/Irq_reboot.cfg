SPECIFICATION FairIrqSpec
CONSTANTS
  BUFFER_SIZE = 4
  Chars = {a, b}
  None = None
  LineSize = 2
  REBOOTS = 2
INVARIANTS
  IrqTypeOK
  SlotStable
  HandlerReady
PROPERTIES
  NothingDiscarded
  BootsOrStorms
  DeliversOrStorms
