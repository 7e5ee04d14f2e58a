SPECIFICATION Spec
CONSTANTS
  MaxTasks = 3
  Boot = Boot
  None = None
  HasIdle = FALSE
  WakeFrom = {"task"}
  Killable = {}
  MaxQueue = 2
  NewSlice = 1
  ResetSlice = 1
 
PROPERTIES ExitedNeverRuns
CHECK_DEADLOCK FALSE
