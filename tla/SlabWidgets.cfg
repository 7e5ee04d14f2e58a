SPECIFICATION SlabSpec
CONSTANTS
  NULL = NULL
  Page = {p1, p2}
  PerSlabs = {15}
  ObjectSize = 256
  StructSize = 344
INVARIANTS WidgetsFit
