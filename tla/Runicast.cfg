SPECIFICATION FairSpec
CONSTANTS
  Dests = {d1, d2}
  SeqMod = 2
  MaxRetx = 1
  NumMsgs = 3
  ChanCap = 2
INVARIANTS
  TypeOK
  StoppedMeansDelivered
  CountersAgree
  BoundedDuplicates
PROPERTIES
  OnlyDuplicatesIgnored
  IsReliableUnicast
  InOrder
  EverySettles
