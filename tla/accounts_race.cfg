SPECIFICATION Spec
CONSTANTS
  Browser = {b1, b2}
  Email = {e1}
  Token = {t1, t2}
  Request = {r1, r2}
  Second = 2
  TTL = 1
  MaxTime = 4
  None = None
SYMMETRY Interchangeable
INVARIANTS TypeOK ServedToOwner LoggedOutIsOut
PROPERTIES LastsItsTTL
