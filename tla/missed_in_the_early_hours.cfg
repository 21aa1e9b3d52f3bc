SPECIFICATION Spec
CONSTANTS
  Terms <- SmallPlans
  Amounts = {1, 2}
  LastDay = 9
  MaxExcusals = 2
INVARIANT
  MissedDaysFollowTheLocalDate
CHECK_DEADLOCK FALSE
