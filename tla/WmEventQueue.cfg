SPECIFICATION FairSpec
CONSTANTS
  QueueSize = 3
  None = None
INVARIANTS TypeOK PoppedIntact LeftDragEndsWithButton
PROPERTIES AcceptedIsHandled ImplementsFifo
