CONSTANTS
  Files = {1, 2, 3}
  YearOf <- MCYearOf
  MonthOf <- MCMonthOf
  OwnNames = {"own"}
  Requests = {a, b}
  Boot = boot
  None = None
  MaxMade = 2
  MaxEdits = 1
  MaxRestarts = 1
SPECIFICATION Spec
SYMMETRY RequestSymmetry
INVARIANTS TypeOK RowsHaveFiles PruneSpares FoldersUnique
PROPERTIES FiledByPeriod BackfillComplete
CHECK_DEADLOCK FALSE
