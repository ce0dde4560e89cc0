CONSTANTS
  Contexts <- SomeContexts
  Words <- SomeWords
  Addresses <- SomeAddresses
  Code <- SomeCode
SPECIFICATION Spec
INVARIANTS TypeOK Balanced Passed
PROPERTIES Transparent
