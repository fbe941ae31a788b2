SPECIFICATION Spec
CONSTANTS
  MaxArgs = 3
  ArgvBlock = ArgvBlock
  ArgsBlock = ArgsBlock
  Null = Null
  Garbage = Garbage
  Foreign = Foreign
INVARIANTS EverythingFreedOnce MainSeesArguments
CHECK_DEADLOCK FALSE
