SPECIFICATION FairConsoleSpec
CONSTANTS
  MAX_TASKS = 4
  MAX_PRIO = 2
  Prio <- MCPrio
  SleepTimes = {1}
  Controllers = {}
  Monitor = 1
  Shell = 2
PROPERTY
  MutexReleased
