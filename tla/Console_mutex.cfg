SPECIFICATION FairConsoleSpec
CONSTANTS
  MAX_TASKS = 4
  MAX_PRIO = 2
  Prio <- MCPrio
  SleepTimes = {1}
  Controllers = {2}
  Monitor = 1
  Shell = 2
INVARIANTS
  ConsoleTypeOK
  MutexAgreement
PROPERTY
  HeldOnlyByWaiters
