SPECIFICATION Spec
CONSTANTS
  Drivers = {"asha"}
  Managers = {"owner"}
  Office = {"o1", "o2"}
  Phones = {"p1", "p2"}
  Amounts = {1, 2}
  Statement <- MCStatement
  Shifts <- MCShifts
  MaxTogether = 2
  MaxJobs = 1
  MaxExpenses = 1
  MaxFiles = 2
  MaxMatches = 2
CHECK_DEADLOCK FALSE
INVARIANTS
  TypeOK
  MilestonesAreStamped
  FilesOnDisk
  ReceivedIsBackedByMatches
