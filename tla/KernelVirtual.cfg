CONSTANTS
  NUM_PCBS = 3
  P3 = P3
  P4 = P4
  Images = {P4}
  Priority <- OnePriority
  Console = Console
  NULL = NULL
  AGE_MOD = 6
  STACK_SIZE = 2
  TOS_CONSOLE = 2
  Lengths = {}
  Depths = {0}
  Contents = {Blank}
  Blank = Blank
  Locals = Locals
SPECIFICATION WellUsedSpec
PROPERTY VirtualSpec
INVARIANTS Books SpInOwnStack
