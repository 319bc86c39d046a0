SPECIFICATION Spec
CONSTANTS
  Proc = {p1}
  Path = {f, g}
  Content = {x, y}
  Bad = {x}
  Renamable = {f}
  Edited = {f}
  Inode = {i1, i2, i3, i4}
  MaxId = 2
  Torn = Torn
  None = None
SYMMETRY Interchangeable
INVARIANTS TypeOK NoOrphanBody
PROPERTY LossOnlyByConsent
CHECK_DEADLOCK FALSE
