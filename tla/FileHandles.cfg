CONSTANTS
  MaxOpens = 3
  Sizes = {0, 1, 3}
  Items = 2
SPECIFICATION FilesSpec
INVARIANTS
  FilesTypeOK
  NoStaleHandle
  ReadLosesNothing
  UsesLatest

  
CHECK_DEADLOCK FALSE
