SPECIFICATION PipeFairSpec
CONSTANTS
  Path = {f}
  Timer = {t1, t2}
  MaxQueue = 1
  Content = {good, bad1, bad2}
  Bad = {bad1, bad2}
  Reviewer = {r1}
  Scanner = {s1}
  MaxRow = 2
  MaxWrite = 2
  None = None
INVARIANTS NothingSlips
PROPERTIES ThreatIsDecided
CHECK_DEADLOCK FALSE
