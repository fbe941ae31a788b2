SPECIFICATION Spec
CONSTANTS
  Threads <- MCThreads
  Loggers <- MCLoggers
  Channels <- MCChannels
  Settings <- MCSettings
  EmptyName = EmptyName
  MaxLevel = 2
  MaxCalls = 3
  Orders = {"level first"}
  NoSection = NoSection
  NoFilter = NoFilter
  BadEntry = BadEntry
  DefaultSink = DefaultSink
  None = None
  t1 = t1
  t2 = t2
  l1 = l1
  global_logger = global_logger
  Global = global_logger
  GlobalName = global
  local = local
  global = global
INVARIANTS LastInitWins FailedInitLeavesPart RecordOfOneConfiguration
PROPERTY LoggerGetsFirstMatch
