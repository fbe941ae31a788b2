CONSTANTS
  t1 = t1
  t2 = t2
  b1 = b1
  b2 = b2
  b3 = b3
  b4 = b4
  short = short
  long = long
  prefix = prefix
  DefName = DefName
  Empty = Empty
  Threads = {t1, t2}
  Buffers = {b1, b2, b3, b4}
  Contents <- MCContents
  Names = {short, long}
  Cut <- MCCut
  Inherited = {Empty}
  Platforms = {FALSE}
  MaxLives = 2
  IntMax = 9
  nullstr = nullstr
  Freed = Freed
  NoThread = NoThread
  NoEntry = NoEntry
SPECIFICATION Spec
SYMMETRY Symmetry
CONSTRAINT Defined
INVARIANTS NoDanglingName NoLostBuffer
PROPERTIES ImplementsNameBoard SyncPublishes
CHECK_DEADLOCK FALSE
