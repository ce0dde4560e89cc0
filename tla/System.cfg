CONSTANTS
  NUM_PCBS = 3
  Images = {"P1", "P2"}
  Priority <- Priorities
  Console = "console"
  NULL = "null"
  AGE_MOD = 5
  STACK_SIZE = 2
  TOS_CONSOLE = 2
  Lengths = {}
  Depths = {0}
  Contents = {Blank}
  Blank = Blank
  Procs = {1, 2}
  Chids = {1}
  Messages = {5, 12}
SPECIFICATION SysSpec
INVARIANTS TypeOK Exchanged Coupled
PROPERTIES ProgramsSpec Terminates
