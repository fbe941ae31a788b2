CONSTANTS
  t1 = t1
  t2 = t2
  h1 = h1
  h2 = h2
  h3 = h3
  b1 = b1
  b2 = b2
  Threads = {t1, t2}
  Handles = {h1, h2, h3}
  Buffers = {b1, b2}
  nullstr = nullstr
  x = x
  y = y
  Empty = Empty
  Contents = {Empty, x, y}
  Freed = Freed
  IntMax = 6
  Dead = Dead
  NoHandle = NoHandle
SPECIFICATION Spec
SYMMETRY Symmetry
INVARIANTS CountsAreExact AllocatedWhileShared
PROPERTY ImplementsValues
