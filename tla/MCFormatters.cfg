SPECIFICATION Spec
CONSTANTS
  Cases <- MCCases
  NewlineIfEmpty = FALSE
  NoSection = NoSection
  Absent = "absent"
INVARIANTS StripsExactly OnlyColoursLost StaysInText StrippedIsPlain ColouredAsConfigured
CHECK_DEADLOCK FALSE
