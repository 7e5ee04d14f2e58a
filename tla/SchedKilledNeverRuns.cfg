SPECIFICATION Spec
CONSTANTS
  MaxTasks = 3
  Boot = Boot
  None = None
  HasIdle = FALSE
  WakeFrom = {"interrupt"}
  Killable = {1, 2}
  MaxQueue = 5
  NewSlice = 2
  ResetSlice = 1
PROPERTY KilledNeverRuns
CHECK_DEADLOCK FALSE
