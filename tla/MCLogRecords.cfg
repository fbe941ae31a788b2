SPECIFICATION Spec
CONSTANTS
  Threads <- MCThreads
  Loggers <- MCLoggers
  Locations <- MCLocations
  Levels <- MCLevels
  Threshold <- MCThreshold
  Nowhere = Nowhere
  MaxDepth = 3
  MaxRaised = 2
  t1 = t1
  t2 = t2
  coarse = coarse
  fine = fine
  here = here
  there = there
SYMMETRY Symmetry
INVARIANT ShowsItsLocation
PROPERTY WrittenIffCompleted
