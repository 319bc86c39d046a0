SPECIFICATION Spec
CONSTANTS
  Proc = {p1}
  Path = {f}
  Content = {x, y}
  Bad = {x}
  Renamable = {f}
  Edited = {f}
  Inode = {i1, i2, i3}
  MaxId = 1
  Torn = Torn
  None = None
PROPERTY ActsOnMatchedContent
CHECK_DEADLOCK FALSE
