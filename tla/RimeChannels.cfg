CONSTANTS
  Node <- PairNodes
  Config <- PairConfig
  Talkers <- PairNodes
  Targets <- PairTargets
  MaxTries = 2
  NumMsgs = 2
  MaxMissed = 1
SPECIFICATION Spec
INVARIANT
  EveryChannelWorks
CHECK_DEADLOCK FALSE
