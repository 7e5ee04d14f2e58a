SPECIFICATION Spec
CONSTANTS
  NULL = NULL
  Tables <- MCTables
  Frames = 5
  Sizes = {1, 3}
  AddressBits = 2
  PageUnits = 2
  MaxAreas = 2
  Parts <- MCParts
  ForceTicks = 3
  Timer = {t1, t2, t3}
  ListHead = ListHead
  Intervals = {1, 2}
INVARIANTS
  FramesNotShared
  TimersKept
PROPERTIES
   
  ChangeIsShown
  
CHECK_DEADLOCK FALSE
