CONSTANTS
  Channel = {129, 130}
  PoolSize = 2
  MaxOpened = 3
SPECIFICATION Spec
INVARIANTS
  TypeOK
  EntriesAccountedFor
  ReportsAreTrue
CHECK_DEADLOCK FALSE
