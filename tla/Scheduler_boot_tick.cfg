SPECIFICATION Spec
CONSTANTS
  MAX_TASKS = 4
  MAX_PRIO = 2
  Prio <- MCPrio
  SleepTimes = {0, 1, 2}
  Controllers = {2}
INVARIANT
  IdleExists
