SPECIFICATION Spec
CONSTANTS
  User = {u1}
  Tab = {t1}
  Customer = {c1, x}
  Foreign = {x}
  Sub = {s1, s2}
  Handler = {h1, h2}
  MaxVersion = 3
  Ordered = TRUE
  None = None
SYMMETRY Interchangeable
INVARIANTS LicenseBacked LicensesPerHandler SettledAgrees
PROPERTY Entitled
CHECK_DEADLOCK FALSE
