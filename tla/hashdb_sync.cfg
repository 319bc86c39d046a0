SPECIFICATION Spec
CONSTANTS
  Digest = {d1, d2}
  Label = {n1, n2}
  Proc = {p1}
  FeedSize = 3
  None = None
SYMMETRY Interchangeable
INVARIANTS ManualSurvives RemovedIsGone SyncCovers OneEntryPerDigest
