CONSTANTS
  NUM_PHILS = 4
  W = 1
  Procs = {1,2,3,4,5}
  Chids = {2,3,4,5}
  Messages = {1, 2, 10, 11}
SPECIFICATION Spec
INVARIANTS TypeOK NotBothOn ForksAgree
PROPERTIES EatApart NoOverwrite NoStarvation
