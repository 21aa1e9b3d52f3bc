SPECIFICATION FairClients
CONSTANTS
  Followed = {"app", "pages", "reviews", "slots"}
  Kinds = {"payments", "expenses", "jobExpenses", "fixes", "tokens"}
  Items = {1, 2}
  Photographed = {2}
  MAX_QUEUED_FIXES = 1
  MaxBatch = 1
  Together <- MCTogether
  MaxTroubles = 1
  Requests = {"a", "b"}
  MaxGen = 3
  Filters = {"f1", "f2"}
  Mine = {"m1", "m2"}
  MaxCalls = 2
  Files = {"a", "b"}
  Committable = {"a"}
  NoFile = "none"
  Clerks = {"c1", "c2"}
  MaxDocuments = 3
  MaxOutages = 1
CHECK_DEADLOCK FALSE
INVARIANTS
  ClientsTypeOK
  NothingForgotten
  RecordedOnce
  PhotosKept
  NewestFixesKept
  ListsSettle
  DocumentsKept
PROPERTIES
  RefusalMeansOver
  CallsEnd
  EverythingIsSent
