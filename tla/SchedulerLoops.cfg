CONSTANTS
  NUM_PCBS = 4
  P3 = P3
  P4 = P4
  Images = {P4}
  Priority <- OnePriority
  Console = Console
  NULL = NULL
  AGE_MOD = 7
  STACK_SIZE = 2
  TOS_CONSOLE = 2
  Lengths = {}
  Depths = {0}
  Contents = {Blank}
  Blank = Blank
  Locals = Locals
  SomeAges = {0, 1}
  SomeBases = {0, 1}
SPECIFICATION LoopSpec
INVARIANT LoopsAgree
CHECK_DEADLOCK FALSE
