SPECIFICATION Spec
CONSTANTS
  WIDTH = 8
  ARG_MAX = 4
  VGA_WIDTH = 3
  VGA_HEIGHT = 2
  Reach = 3
INVARIANTS
  MulAgrees
  DivisionAgrees
  DecRoundTrip
  PokeWritesWhatIsTyped
  RectClipped
