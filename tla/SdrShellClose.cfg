CONSTANTS
  Channel = {129, 130}
  PoolSize = 2
  MaxOpened = 3
SPECIFICATION Spec
PROPERTY
  CloseReturns
CHECK_DEADLOCK FALSE
