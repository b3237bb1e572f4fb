SPECIFICATION Spec
CONSTANTS
  INODES = 4
  BLOCKS = 5
  DIRECT = 2
  SLOTS = 2
  Names = {f, g, h}
  LongNames = {h}
  Chunks = {x, y}
  MAX_LEN = 3
  Blank = Blank
  NoName = NoName
INVARIANT
  NamesUnique
