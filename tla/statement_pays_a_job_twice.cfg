SPECIFICATION Spec
CONSTANTS
  Drivers = {"asha"}
  Managers = {"owner"}
  Office = {"o1"}
  Phones = {}
  Amounts = {1}
  Statement <- MCInstalments
  Shifts <- MCDesk
  MaxTogether = 1
  MaxJobs = 1
  MaxExpenses = 1
  MaxFiles = 1
  MaxMatches = 2
CHECK_DEADLOCK FALSE
INVARIANT
  ReceivedIsTheSumOfMatches
