SPECIFICATION FairSpec
CONSTANTS
  d1 = d1
  d2 = d2
  v1 = v1
  v2 = v2
  Drivers = {d1, d2}
  Vehicles = {v1}
  Clients = {c1}
  Runs = {g1}
  Seed <- NoPlan
  Offers <- TwoOffers
  Edits <- MoreOrFewerDays
  Closings <- Nothing
  Amounts = {1}
  Targets = {1}
  BookableDays = {0}
  Operations <- ContractOps
  CapDays = 1
  Lookback = 1
  MaxDay = 2
  MaxPlans = 1
  MaxPayments = 1
  MaxDeletions = 1
PROPERTIES
  PaidPlansLeaveActive
  DueDaysAreBilled
CHECK_DEADLOCK FALSE
