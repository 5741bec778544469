CONSTANTS
  j1 = j1
  j2 = j2
  w1 = w1
  w2 = w2
  NoJob = NoJob
  NoWorker = NoWorker
  Jobs = {j1, j2}
  Workers = {w1, w2}
  MaxAttempts = 2
  MailEnabled = TRUE
  MailFaults = {"queue", "error", "timeout", "crash", "stall"}
  MaxMailFaults = 3
CHECK_DEADLOCK FALSE
SPECIFICATION Spec
INVARIANTS
  TypeOK
  NoNeedlessCopies
PROPERTIES
  ImplementsMailbox
  EveryMailSettles
