SPECIFICATION FairSpec
CONSTANTS
  Radix = 3
  Sfd1 = 1
  Sfd2 = 2
  Chips = 4
  Threshold = 2
  MaxPktLen = 7
  LqiSamples = 2
  Observations <- SmallObservations
  Payloads <- SmallPayloads
  NumZeros = 3
  MaxSpoilt = 2
  MaxLost = 4
INVARIANTS
  LossBounded
PROPERTIES
  CleanFramesArrive
  BackInStep
