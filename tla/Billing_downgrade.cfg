CONSTANTS
  u1 = u1
  c1 = c1
  c2 = c2
  s1 = s1
  h1 = h1
  o1 = o1
  o2 = o2
  NoUser = NoUser
  NoCustomer = NoCustomer
  NoSubscription = NoSubscription
  NoEvent = NoEvent
  Users = {u1}
  Customers = {c1, c2}
  Payloads = {}
  Handlers = {h1}
  RetryDays = 0
  RetentionDays = 1
  MaxDay = 0
  Subscriptions = {s1}
  Slots = {o1}
  BillingEnabled = TRUE
  InOrder = TRUE
  FirstLines = {"charge"}
  FaultKinds = {}
  MaxFaults = 0
  MaxEvents = 3
  Events = {1, 2, 3}
CHECK_DEADLOCK FALSE
SPECIFICATION BillingSpec
PROPERTIES
  DowngradeAtPeriodEnd
