SPECIFICATION FairSpec
CONSTANTS
  Path = {f1}
  Content = {good, bad1}
  Bad = {bad1}
  Reviewer = {r1, r2}
  Scanner = {s1}
  MaxRow = 2
  None = None
INVARIANTS NoThreatForgotten
PROPERTIES ResolutionIsFinal OneFailureBlocksNoOther
