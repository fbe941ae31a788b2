CONSTANTS
  t1 = t1
  t2 = t2
  t3 = t3
  Threads = {t1, t2, t3}
  NoThread = NoThread
  Names = {1, 2}
  End = End
  Features = 2
  AllocMayFail = TRUE
  MaxCalls = 1
SPECIFICATION Spec
SYMMETRY Symmetry
INVARIANTS UniqueKeys CommitDataFresh ClocksAgree ReportComplete OwnershipScoped
PROPERTIES ReportOrdered RowsNeverGoBack ImplementsBoard
CHECK_DEADLOCK FALSE
