CONSTANTS
  DISK_RETRY = 3
  WORD = 2
  BLOCK_NUM = 2
  BLOCK_LEN = 2
  Addresses <- SomeAddresses
  Data <- SomeData
SPECIFICATION Spec
INVARIANTS TypeOK Line
PROPERTIES StoreSpec Returns GivesUpLate
CHECK_DEADLOCK FALSE
