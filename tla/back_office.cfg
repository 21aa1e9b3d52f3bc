SPECIFICATION FairSpec
CONSTANTS
  Parts = {"accounts", "digests", "lists", "gps", "map", "imports"}
  Signups = {"t1", "t2"}
  Followed = "t2"
  Asks = {"r1", "r2"}
  SIGNUP_CODE_MAX_ATTEMPTS = 1
  NoOne = NoOne
  Scenes <- MCScenes
  MaxStops = 1
  Digests = {"payments", "vehicles", "services", "documents"}
  TenantList <- MCTenantList
  Failing = {"down"}
  OwnerOf <- MCOwnerOf
  Scans = {"n1", "n2"}
  Days = 2
  MaxMishaps = 1
  Resources = {"drivers", "settings", "billing"}
  Readers = {"g1", "g2"}
  Writers = {"w1", "w2"}
  MaxVersion = 3
  MaxLost = 1
  Bikes = {"b1"}
  Polls = {"p1", "p2"}
  MaxTime = 2
  MaxBreaks = 1
  GPS_STALE_AFTER_MINUTES = 3
  DEVICE_PREFERENCE_WINDOW_MINUTES = 1
  MaxNow = 5
  Imports = {"i1", "i2"}
  BillingDays = {1, 2}
  Sheets = {{"driver", "vehicle"}, {"vehicle"}}
  MaxPlans = 2
CHECK_DEADLOCK FALSE
INVARIANTS
  TypeOK
  MailedOnce
  StaleOnlyIfUnseen
  FixesStoredOnce
  OpeningBalanceOnce
PROPERTIES
  VerifiedInTheEnd
  AlertedInTheEnd
  NeverGoesFarBack
