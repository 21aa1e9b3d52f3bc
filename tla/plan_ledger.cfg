SPECIFICATION Spec
CONSTANTS
  d1 = d1
  d2 = d2
  v1 = v1
  v2 = v2
  Drivers = {d1}
  Vehicles = {v1}
  Clients = {c1}
  Runs = {g1}
  Seed <- OnePlan
  Offers <- Nothing
  Edits <- Nothing
  Closings <- Cancelling
  Amounts = {1, 3}
  Targets = {2}
  BookableDays = {0}
  Operations <- MoneyOps
  CapDays = 1
  Lookback = 3
  MaxDay = 2
  MaxPlans = 1
  MaxPayments = 2
  MaxDeletions = 1
INVARIANTS
  TypeOK
PROPERTIES
  KeepsLedger
  OldestDayFirst
CHECK_DEADLOCK FALSE
