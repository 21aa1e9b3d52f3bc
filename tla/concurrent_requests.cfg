SPECIFICATION Spec
CONSTANTS
  d1 = d1
  d2 = d2
  v1 = v1
  v2 = v2
  Drivers = {d1, d2}
  Vehicles = {v1}
  Clients = {c1, c2}
  Runs = {g1}
  Seed <- NoPlan
  Offers <- TwoDays
  Edits <- Nothing
  Closings <- Completing
  Amounts = {1}
  Targets = {1}
  BookableDays = {0}
  Operations <- ConcurrentOps
  CapDays = 1
  Lookback = 3
  MaxDay = 1
  MaxPlans = 2
  MaxPayments = 1
  MaxDeletions = 1
SYMMETRY Symmetry
INVARIANTS
  PaymentsAreTheDriversOwn
  PlanRowsFollowThePlan
  OneActivePlanPerVehicle
PROPERTIES
  NeverReopened
CHECK_DEADLOCK FALSE
