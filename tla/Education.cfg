CONSTANTS
  u1 = u1
  b1 = b1
  b2 = b2
  b3 = b3
  x1 = x1
  x2 = x2
  q1 = q1
  q2 = q2
  NoUser = NoUser
  NoAccount = NoAccount
  Infinity = Infinity
  Users = {u1}
  Accounts = {b1, b2, b3}
  Transactions = {x1, x2}
  Requests = {q1, q2}
  PLAN_LIMITS <- MCLimits
  MaxArrivals = 4
  MaxChanges = 1
  Ceiling = 2
  MaxCost = 1
  MaxSurcharge = 1
  MaxCalls = 2
  MaxEditions = 2
  MaxFaults = 1
SYMMETRY Symmetry
CHECK_DEADLOCK FALSE
SPECIFICATION Spec
INVARIANTS
  TypeOK
  LimitsHold
  QuotaHolds
  SpendIsBounded
  CorpusIsWhole
PROPERTIES
  ReadOnlyIsKept
