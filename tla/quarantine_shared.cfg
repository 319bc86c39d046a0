SPECIFICATION Spec
CONSTANTS
  Proc = {p1, p2}
  Path = {f, g}
  Content = {x}
  Bad = {x}
  Renamable = {f}
  Edited = {}
  Inode = {i1, i2, i3, i4}
  MaxId = 2
  Torn = Torn
  None = None
SYMMETRY Interchangeable
INVARIANTS RestoredBodyGone DestinationFree StoreInv
PROPERTY RecordsLive
CHECK_DEADLOCK FALSE
