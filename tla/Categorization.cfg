CONSTANTS
  u1 = u1
  u2 = u2
  t1 = t1
  c1 = c1
  c2 = c2
  q1 = q1
  q2 = q2
  w1 = w1
  w2 = w2
  NoUser = NoUser
  NoTransaction = NoTransaction
  NoCategory = NoCategory
  Unchanged = Unchanged
  NoWorker = NoWorker
  Users = {u1, u2}
  Transactions = {t1}
  Categories = {c1, c2}
  CategoryOwner <- MCOwner
  CategoryType <- MCType
  Requests = {q1, q2}
  Workers = {w1, w2}
  MaxAttempts = 2
  FaultKinds = {"db", "queue", "stall", "crash"}
  MaxFaults = 1
CHECK_DEADLOCK FALSE
SPECIFICATION Spec
SYMMETRY Symmetry
INVARIANTS
  TypeOK
  OwnCategory
PROPERTIES
  ModelNeverOverwrites
