SPECIFICATION Spec
CONSTANTS
  Dests = {d1}
  SeqMod = 4
  MaxRetx = 1
  NumMsgs = 2
  ChanCap = 2
INVARIANTS
  StoppedIsDelivered
