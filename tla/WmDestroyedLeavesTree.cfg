SPECIFICATION Spec
CONSTANTS
  w1 = w1
  w2 = w2
  w3 = w3
  calc = calc
  notes = notes
  Run = Run
  Terminal = Terminal
  Menu = Menu
  None = None
  Win <- MCWin
  Apps <- MCApps
  MaxWindows <- MCMaxWindows
  FixedChildren <- MCFixedChildren
  MaxChildren <- MCMaxChildren
SYMMETRY Symmetry
INVARIANT DestroyedLeavesTree
