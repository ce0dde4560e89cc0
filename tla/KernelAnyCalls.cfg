CONSTANTS
  NUM_PCBS = 3
  P3 = P3
  P4 = P4
  Images = {P3, P4}
  Priority <- TwoPriorities
  Console = Console
  NULL = NULL
  AGE_MOD = 6
  STACK_SIZE = 2
  TOS_CONSOLE = 2
  Lengths = {1}
  Depths = {0}
  Contents = {Blank}
  Blank = Blank
  Locals = Locals
SPECIFICATION Spec
INVARIANTS TypeOK OneExecuting AgeBound StacksDisjoint
PROPERTIES PassedOver NobodyRevived
VIEW SchedView
CHECK_DEADLOCK FALSE
