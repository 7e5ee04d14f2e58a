SPECIFICATION DesktopSpec
CONSTANTS
  w1 = w1
  w2 = w2
  w3 = w3
  calc = calc
  notes = notes
  Run = Run
  Terminal = Terminal
  Menu = Menu
  None = None
  Win <- MCWin
  Apps <- MCApps
  MaxWindows <- MCMaxWindows
  FixedChildren <- MCFixedChildren
  MaxChildren <- MCMaxChildren
  NULL = NULL
  Surface = {s1, s2}
  Width = 4
  Places <- MCPlaces
  Widths = {1, 2}
  MaxDamage = 1
SYMMETRY Symmetry
INVARIANTS
  NoWindowLost
  OneKeyTarget
  HiddenIsRestorable
  FreedOnlyByHandle
  
