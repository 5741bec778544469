CONSTANTS
  u1 = u1
  t1 = t1
  t2 = t2
  t3 = t3
  q1 = q1
  q2 = q2
  NoUser = NoUser
  NoToken = NoToken
  Users = {u1}
  Tokens = {t1, t2, t3}
  Requests = {q1, q2}
  AccessLife = 1
  RefreshLife = 1
  MaxTime = 2
  MaxDisturbances = 1
SYMMETRY Symmetry
CHECK_DEADLOCK FALSE
SPECIFICATION Spec
INVARIANTS
  TypeOK
  OneTokenPerSession
  SessionSurvives
  StaleRoleEnds
