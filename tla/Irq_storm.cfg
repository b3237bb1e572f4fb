SPECIFICATION FairIrqSpec
CONSTANTS
  BUFFER_SIZE = 3
  Chars = {a, b}
  None = None
  LineSize = 2
  REBOOTS = 1
PROPERTY
  RebootCompletes
