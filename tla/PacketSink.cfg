SPECIFICATION Spec
CONSTANTS
  Radix = 3
  Sfd1 = 1
  Sfd2 = 2
  Chips = 4
  Threshold = 2
  MaxPktLen = 2
  LqiSamples = 4
  Observations <- SmallObservations
  MaxZeros = 3
INVARIANTS
  TypeOK
  BufferBound
  OnlyFramesPublished
  FramesPublished
