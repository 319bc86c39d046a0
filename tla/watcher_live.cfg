SPECIFICATION FairSpec
CONSTANTS
  Path = {f, g}
  Timer = {t1, t2}
  MaxQueue = 2
  None = None
INVARIANTS PendingIsLive NoLostWrite
PROPERTIES SettledIsScanned StopReturns
