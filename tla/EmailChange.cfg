CONSTANTS
  u1 = u1
  u2 = u2
  a1 = a1
  a2 = a2
  g1 = g1
  k1 = k1
  k2 = k2
  q1 = q1
  q2 = q2
  NoUser = NoUser
  NoAddress = NoAddress
  NoIdentity = NoIdentity
  NoLink = NoLink
  Users = {u1, u2}
  Addresses = {a1, a2}
  Identities = {g1}
  GoogleAddress <- MCGoogleAddress
  Links = {k1, k2}
  Requests = {q1, q2}
  LinkLife = 0
  MaxTime = 1
SYMMETRY Symmetry
CHECK_DEADLOCK FALSE
SPECIFICATION Spec
INVARIANTS
  TypeOK
  AddressesAreUnique
  LinkStaysGood
PROPERTIES
  AddressIsProved
