CONSTANTS
  u1 = u1
  u2 = u2
  a1 = a1
  a2 = a2
  c1 = c1
  x1 = x1
  x2 = x2
  None = None
  Users = {u1, u2}
  Accounts = {a1, a2}
  AccountOwner <- MCOwner
  Categories = {c1}
  CategoryOwner <- MCCategoryOwner
  Values = {5, 994}
  Balances <- MCBalances
  Months = 2
  DaysPerMonth = 2
  DayLength = 2
  MAX_RANGE_DAYS = 3
  AskedDays = {0, 1, 3}
  Bounds <- MCBounds
  Limits = {1, 2}
  Transactions = {x1, x2}
  MIN_CHUNK_WORDS = 3
  MAX_CHUNK_WORDS = 5
  Sentences = {1, 3, 6}
  MaxSentences = 2
  MaxPages = 2
  MaxBlocks = 2
SYMMETRY Symmetry
CHECK_DEADLOCK FALSE
SPECIFICATION Spec
INVARIANTS
  TotalsAgree
  ListsAgree
  ChunksKeepParagraphs
