SPECIFICATION FairSpec
CONSTANTS
  User = {u1}
  Tab = {t1, t2}
  Customer = {c1, c2, x}
  Foreign = {x}
  Sub = {s1}
  Handler = {h1}
  MaxVersion = 2
  Ordered = FALSE
  None = None
INVARIANTS FewLost RowRulesLicense
PROPERTIES AllAnswered PaidGetsLicense
CHECK_DEADLOCK FALSE
