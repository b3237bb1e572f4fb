SPECIFICATION Spec
CONSTANTS
  CMD_MAX_LEN = 5
  Letters = {a, b}
  a = a
  b = b
  Space = Space
  Nul = Nul
  Commands <- MCCommands
INVARIANTS
  ShellTypeOK
  ScreenIsLine
PROPERTY
  RunsTheLine
