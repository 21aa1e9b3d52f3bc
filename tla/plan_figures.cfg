SPECIFICATION Spec
CONSTANTS
  Terms <- SmallPlans
  Amounts = {1, 2}
  LastDay = 9
  MaxExcusals = 2
INVARIANTS
  EndDateIsTheLastInstalment
  SquareDriversFinishOnTheEndDate
  ArrearsCoverTheRun
CHECK_DEADLOCK FALSE
