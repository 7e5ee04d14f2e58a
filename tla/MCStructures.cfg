SPECIFICATION Spec
CONSTANTS
  NULL = NULL
  HeapSize = 4
  MaxSize = 2
  Page = {p1, p2, p3}
  PerSlabs = {0, 1, 2}
  PageSize = 12
  MaxRun = 8
  PoolSize = 20
  MaxBlocks = 2
  a1 = a1
  a2 = a2
  PageAddr <- MCPageAddr
  FirstMemory <- MCFirstMemory
  LaterPages <- MCLaterPages
  Widget = {a, b, c}
  Nobody = Nobody
  ChildSlots = 5
  Moves <- MCMoves
  Buttons = {0, 1}
  Keys = {"LeftShift", "RightShift", "RightCtrl", "A", "CapsLock"}
  Tasks = 7
  Nil = Nil
  VRuntimes = {0, 1, 2}
  Weights = {820}
  NewWeight = 1024
  MaxOdd = 1
  Task = {q1, q2, q3, q4, q5}
  Char = {"x", "y"}
  NoChar = NoChar
  MaxLines = 3
  LineWidth = 3
  OpenText <- MCOpenText
  NoteChar = {"x", "y"}
  NUL = NUL
  NotesLines = 3
  NotesWidth = 3
  Greeting <- MCGreeting
  Sender = {snd1, snd2}
  Receiver = {rcv1, rcv2}
  Message = {m1, m2}
  Capacity = 2
  Name = {"a", "b"}
  MaxNodes = 5
  MaxDepth = 2
  Ip = {0, 1, 2, 3}
  Mac = {k, l}
  ArpEntries = 3
  MaxTicks = 2
  Unheard = Unheard
INVARIANTS
   FreeListIsFree
  SlabsInTheirList ObjectsAccounted
  BlocksRestorable
  TreeWhole
  WholePacketReported ResyncAfterPlainPacket
  ModifiersFollowKeys
  TreeIsSortedQueue LoadIsSum
  ListIsQueue
  FailsOnlyOvertaken
  TreeLinked LatestAnswerKept
PROPERTIES
  NewSlabOnlyWhenFull
  
  
  NotesImplementText
  ImplementsFifo
CHECK_DEADLOCK FALSE
