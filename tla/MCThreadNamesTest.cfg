CONSTANTS
  parent = parent
  child = child
  nameP = nameP
  nameC = nameC
  nameC2 = nameC2
  DefName = DefName
  Empty = Empty
  Threads = {parent, child}
  Buffers = {b1, b2, b3, b4}
  Contents <- MCContents
  Names = {nameP, nameC, nameC2}
  Cut <- MCCut
  Inherited = {Empty, nameP}
  Platforms = {TRUE, FALSE}
  MaxLives = 1
  IntMax = 9
  nullstr = nullstr
  Freed = Freed
  NoThread = NoThread
  NoEntry = NoEntry
SPECIFICATION TestSpec
INVARIANT ChildReadsItsName
CHECK_DEADLOCK FALSE
