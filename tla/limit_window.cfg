SPECIFICATION Spec
CONSTANTS
  Addr = {a1, a2}
  Caller = {p1, p2}
  Max = 2
  Window = 3
  MaxDelay = 1
  MaxTime = 5
  MaxCalls = 4
  None = None
SYMMETRY Interchangeable
INVARIANTS Throttled LimitInv KeysAreCallers
PROPERTIES DeniedForOwnCalls
CHECK_DEADLOCK FALSE
