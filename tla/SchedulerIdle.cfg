SPECIFICATION FairSpec
CONSTANTS
  MaxTasks = 3
  Boot = Boot
  None = None
  HasIdle = TRUE
  WakeFrom = {"task", "interrupt"}
  Killable = {1, 2}
  MaxQueue = 5
  NewSlice = 2
  ResetSlice = 1
INVARIANTS QueuedOnce
PROPERTIES QueuedIsDispatched
CHECK_DEADLOCK FALSE
