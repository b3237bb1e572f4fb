SPECIFICATION Spec
CONSTANTS
  WORD = 256
  HEAP_SIZE = 96
  Requests = {0, 4, 13, 30}
INVARIANTS
  TypeOK
  Tiling
  UsedIsOwned
  EnoughBytes
  LinksNeverHit
  OwnerCanFree
PROPERTY
  FullyMerged
