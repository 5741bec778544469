CONSTANTS
  u1 = u1
  c1 = c1
  NoUser = NoUser
  e1 = e1
  h1 = h1
  h2 = h2
  NoCustomer = NoCustomer
  NoEvent = NoEvent
  Users = {u1}
  Customers = {c1}
  Events = {e1}
  Handlers = {h1, h2}
  Payloads <- MCPayloads
  RetryDays = 1
  RetentionDays = 2
  FaultKinds = {"rejected", "lost_ack", "unregister", "queue", "timeout", "crash"}
  MaxFaults = 3
  MaxDay = 4
SPECIFICATION Spec
INVARIANTS
  TypeOK
  ExclusiveProcessing
  OneMailJobPerEvent
  BurnedOnlyInDoubt
  AppliedAgainOnlyInDoubt
PROPERTIES
  CompletedIsFinal
  ClaimSpec
CHECK_DEADLOCK FALSE
