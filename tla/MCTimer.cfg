CONSTANTS
  a = a
  b = b
  Ids = {a, b}
  NoId = NoId
  Sizes = {0, 1, 3}
  Letter = Letter
  Nul = Nul
  ShortRange = 2
  MaxTime = 4
  MaxCalls = 4
SPECIFICATION Spec
SYMMETRY Symmetry
INVARIANTS PhasesWithinTime PhasesWithinTotal SignalsCountReports ResetOnDestroy TotalReportedOnce KeysAreNames SignalsNameTheTimer
CHECK_DEADLOCK FALSE
